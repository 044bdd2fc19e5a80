------------------------------- MODULE Settings -------------------------------
(***************************************************************************)
(* The configuration and what acts on the selected entry: config.go, the   *)
(* start of main.go, and the list, its filter and the overlays of ui.go    *)
(* that edit an override, copy credentials or restore a backup.  The       *)
(* configuration is kept in memory and written to its file as a whole; a   *)
(* scan reads it while it may be edited.                                   *)
(*                                                                         *)
(* A key is a container of one host, numbered in the order of the list.    *)
(* The three fields of an override are treated alike; it has one here.     *)
(*                                                                         *)
(* As in SshPool, a definition without a comment right before another one  *)
(* is that one with a bug that a property named in PROJECT.json catches.   *)
(***************************************************************************)
EXTENDS Naturals, Sequences, SequencesExt

CONSTANTS Keys,     \* number of containers
          Value,    \* what can be typed in for a field
          Draft,    \* configurations that an editor or another program writes
          Toggled,  \* bound: keys whose autoconnect is toggled
          None

ASSUME KeysAreNumbers == Keys \in Nat /\ None \notin 1 .. Keys
ASSUME ValuesAreTyped == Value \cap {"", "found", None} = {} /\ None \notin {"", "found"}

VARIABLES file,      \* the configuration file, None where there is none
          config,    \* m.cfg
          saved,     \* the file was read, or written last, without an error
          foreign,   \* ghost: it was written by something else since
          mode,      \* m.mode, with m.editActive, or "off"
          text,      \* m.filterText is not empty
          rows,      \* the keys of m.filtered
          cursor,    \* m.cursor
          shown,     \* the field in the entry of each key, None where there is none
          scanning,  \* m.discovering
          had,       \* the overrides each key has had since the scan began
          stale,     \* ghost: keys whose override changed during the last scan
          chosen,    \* ghost: the key selected when the overlay was opened
          shifted    \* ghost: a scan has selected another one since

fileVars     == <<file, config, saved, foreign>>
listVars     == <<text, rows, cursor>>
scanVars     == <<shown, scanning, had, stale>>
choiceVars   == <<chosen, shifted>>
settingsVars == <<fileVars, mode, listVars, scanVars, choiceVars>>

Key      == 1 .. Keys
Override == [auto : BOOLEAN, value : Value \cup {""}]
Config   == [Key -> Override]

\* A container that is not listed is like one listed with nothing set.
Unlisted == [auto |-> FALSE, value |-> ""]

ASSUME DraftsAreConfigs == Toggled \subseteq Key /\ Draft \subseteq Config

\* Overlays whose keys act on the selected entry.
Overlays == {"edit", "input", "copy", "pick", "confirm"}

\* Only a cursor at the top may point at nothing.
CursorFits == cursor < Len(rows) \/ cursor = 0

SettingsTypeOK ==
  /\ file \in [config : Config, whole : BOOLEAN] \cup {None}
  /\ config \in Config /\ saved \in BOOLEAN /\ foreign \in BOOLEAN
  /\ mode \in {"off", "normal", "filter", "restoring"} \cup Overlays
  /\ text \in BOOLEAN /\ cursor \in Nat /\ CursorFits
  /\ shown \in [Key -> Value \cup {"found", None}]
  /\ rows \in Seq(Key) /\ IsInjective(rows) /\ \A i \in DOMAIN rows : shown[rows[i]] # None
  /\ scanning \in BOOLEAN /\ had \in [Key -> SUBSET (Value \cup {""})]
  /\ stale \subseteq Key /\ chosen \in Key \cup {None} /\ shifted \in BOOLEAN

\* selectedEntry
Selected == IF cursor < Len(rows) THEN rows[cursor + 1] ELSE None

------------------------------------------------------------------------------
(* The file *)

\* The model of a program that does not run.
Off ==
  /\ mode' = "off" /\ config' = [k \in Key |-> Unlisted]
  /\ saved' = TRUE /\ foreign' = FALSE
  /\ text' = FALSE /\ rows' = <<>> /\ cursor' = 0
  /\ shown' = [k \in Key |-> None] /\ scanning' = FALSE /\ had' = [k \in Key |-> {}]
  /\ stale' = {} /\ chosen' = None /\ shifted' = FALSE

SettingsInit ==
  /\ file = None /\ config = [k \in Key |-> Unlisted]
  /\ saved = TRUE /\ foreign = FALSE /\ mode = "off"
  /\ text = FALSE /\ rows = <<>> /\ cursor = 0
  /\ shown = [k \in Key |-> None] /\ scanning = FALSE /\ had = [k \in Key |-> {}]
  /\ stale = {} /\ chosen = None /\ shifted = FALSE

\* What LoadConfig makes of the file: of one that was not written to its end,
\* the overrides before a place where it breaks off, if it can be read at all.
Loaded(f) ==
  IF f.whole THEN {f.config}
  ELSE {[k \in Key |-> IF k \in ks THEN f.config[k] ELSE Unlisted] : ks \in SUBSET Key}

\* os.WriteFile: the file cannot be opened, or is emptied and then written.
SaveConfig(c) ==
  /\ \/ file' = [config |-> c, whole |-> TRUE] /\ saved' = TRUE /\ foreign' = FALSE
     \/ /\ file' \in {file, [config |-> c, whole |-> FALSE]}
        /\ saved' = FALSE /\ foreign' = foreign
  /\ config' = c

\* The first run writes an example, of other containers, and ends.
Scaffold ==
  /\ mode = "off" /\ file = None
  /\ \E w \in BOOLEAN : file' = [config |-> [k \in Key |-> Unlisted], whole |-> w]
  /\ UNCHANGED <<config, saved, foreign, mode, listVars, scanVars, choiceVars>>

\* An editor, or another program, writes the file.
EditFile ==
  /\ \E c \in Draft : file' = [config |-> c, whole |-> TRUE]
  /\ foreign' = (mode # "off")
  /\ UNCHANGED <<config, saved, mode, listVars, scanVars, choiceVars>>

\* The program starts with a scan.
Start ==
  /\ mode = "off" /\ file # None
  /\ config' \in Loaded(file) /\ saved' = file.whole
  /\ mode' = "normal" /\ scanning' = TRUE
  /\ had' = [k \in Key |-> {config'[k].value}]
  /\ UNCHANGED <<file, foreign, listVars, shown, stale, choiceVars>>

\* The user quits, or the program is killed.  A save that is cut short by it
\* leaves what one leaves that fails.
Stop ==
  /\ mode # "off"
  /\ Off
  /\ UNCHANGED file

------------------------------------------------------------------------------
(* The list *)

\* The entries of ks from the first to the last.
InOrder(ks) == {r \in SetToSeqs(ks) : \A i, j \in DOMAIN r : i < j => r[i] < r[j]}

ResetBlindly(ks) ==
  /\ rows' \in InOrder(ks)
  /\ cursor' = cursor

\* resetFilter, with entries for ks
ResetFilter(ks) ==
  /\ rows' \in InOrder(ks)
  /\ cursor' = IF cursor >= Len(rows') THEN 0 ELSE cursor

\* applyFilter: what matches the text comes in the order of its score.
ApplyFilter(ks) ==
  \/ text' = FALSE /\ ResetFilter(ks)
  \/ /\ text' = TRUE
     /\ rows' \in SetToAllKPermutations(ks)
     /\ cursor' = IF cursor < Len(rows') THEN cursor
                  ELSE IF rows' = <<>> THEN 0 ELSE Len(rows') - 1

Shown == {k \in Key : shown[k] # None}

\* up, down
Move ==
  /\ mode \in {"normal", "filter"}
  /\ \/ cursor > 0 /\ cursor' = cursor - 1
     \/ cursor + 1 < Len(rows) /\ cursor' = cursor + 1
  /\ UNCHANGED <<fileVars, mode, text, rows, scanVars, choiceVars>>

MouseSelectAnywhere ==
  /\ mode # "off"
  /\ \E row \in 0 .. Len(rows) - 1 : cursor' = row
  /\ UNCHANGED <<fileVars, mode, text, rows, scanVars, choiceVars>>

\* A click; the wheel gets nowhere a click does not.
MouseSelect ==
  /\ mode = "normal"
  /\ \E row \in 0 .. Len(rows) - 1 : cursor' = row
  /\ UNCHANGED <<fileVars, mode, text, rows, scanVars, choiceVars>>

\* A character, or backspace, which may remove the last one.
Type ==
  /\ mode = "filter"
  /\ ApplyFilter(Shown)
  /\ UNCHANGED <<fileVars, mode, scanVars, choiceVars>>

\* esc drops the filter, in the list too
Unfilter ==
  /\ mode = "filter" \/ (mode = "normal" /\ text)
  /\ mode' = "normal" /\ text' = FALSE
  /\ ResetFilter(Shown)
  /\ UNCHANGED <<fileVars, scanVars, choiceVars>>

------------------------------------------------------------------------------
(* Scans *)

\* r.  Bound: one scan at a time; Discovery has several.
Refresh ==
  /\ mode = "normal" /\ ~scanning
  /\ scanning' = TRUE
  /\ had' = [k \in Key |-> {config[k].value}]
  /\ UNCHANGED <<fileVars, mode, listVars, shown, stale, choiceVars>>

Credential(v) == IF v = "" THEN "found" ELSE v

\* The entries of the scan replace those before.  It has read, of each override,
\* one of the values it had: it works on a copy of the slice, whose array is the
\* same until an append moves it.
ScanEnds ==
  /\ scanning /\ scanning' = FALSE
  /\ \E ks \in SUBSET Key, read \in [Key -> Value \cup {""}] :
       /\ \A k \in Key : read[k] \in had[k]
       /\ shown' = [k \in Key |-> IF k \in ks THEN Credential(read[k]) ELSE None]
       /\ ApplyFilter(ks)
  /\ text' = text
  /\ had' = [k \in Key |-> {}]
  /\ stale' = {k \in Key : shown'[k] # None /\ had[k] # {config[k].value}}
  /\ shifted' = (shifted \/ (chosen # None /\ Selected' # Selected))
  /\ UNCHANGED <<fileVars, mode, chosen>>

------------------------------------------------------------------------------
(* Overlays *)

\* From one mode to another.
Turn(m, n) ==
  /\ mode = m /\ mode' = n
  /\ IF n \in Overlays THEN UNCHANGED choiceVars ELSE chosen' = None /\ shifted' = FALSE
  /\ UNCHANGED <<fileVars, listVars, scanVars>>

\* c, y, B: an overlay for the selected entry
OpenOverlay ==
  /\ Selected # None
  /\ mode = "normal" /\ mode' \in {"edit", "copy", "pick"}
  /\ chosen' = Selected
  /\ UNCHANGED <<fileVars, listVars, scanVars, shifted>>

\* /, enter and esc, where they do no more than change the mode
ChangeMode ==
  \/ Turn("normal", "filter") \/ Turn("filter", "normal")
  \/ Turn("edit", "normal") \/ Turn("input", "edit")
  \/ Selected # None /\ Turn("edit", "input")
  \/ Turn("pick", "normal") \/ Turn("pick", "confirm") \/ Turn("confirm", "pick")
  \/ Turn("restoring", "normal")
  \/ Selected = None /\ Turn("confirm", "normal")

\* p and c copy from the selected entry, any key closes the overlay.
Copy == Turn("copy", "normal")

\* y
ConfirmRestore == Selected # None /\ Turn("confirm", "restoring")

\* setOverrideField and SaveConfig; the scan may see the one or the other.
SetOverride(v) ==
  /\ SaveConfig([config EXCEPT ![Selected] = [@ EXCEPT !.value = v]])
  /\ had' = [had EXCEPT ![Selected] = IF scanning THEN @ \cup {v} ELSE @]
  /\ UNCHANGED <<listVars, scanning, choiceVars>>

AcceptUnseen(v) ==
  /\ mode = "input" /\ Selected # None
  /\ mode' = "edit"
  /\ SetOverride(v)
  /\ stale' = stale \ (IF v = "" THEN {} ELSE {Selected})
  /\ UNCHANGED shown

\* enter: the entry gets the new value too, unless it is empty.
Accept(v) ==
  /\ mode = "input" /\ Selected # None
  /\ mode' = "edit"
  /\ SetOverride(v)
  /\ shown' = [shown EXCEPT ![Selected] = IF v = "" THEN @ ELSE v]
  /\ stale' = stale \ (IF v = "" THEN {} ELSE {Selected})

ClearUnsaved ==
  /\ mode = "edit" /\ Selected # None
  /\ config' = [config EXCEPT ![Selected] = [@ EXCEPT !.value = ""]]
  /\ had' = [had EXCEPT ![Selected] = IF scanning THEN @ \cup {""} ELSE @]
  /\ UNCHANGED <<file, saved, foreign, mode, listVars, shown, scanning, stale, choiceVars>>

\* d: the entry keeps the value until the next scan.
ClearOverride ==
  /\ mode = "edit" /\ Selected # None
  /\ SetOverride("")
  /\ UNCHANGED <<mode, shown, stale>>

\* a
ToggleAutoconnect ==
  /\ mode = "normal" /\ Selected \in Toggled
  /\ SaveConfig([config EXCEPT ![Selected] = [@ EXCEPT !.auto = ~@]])
  /\ UNCHANGED <<mode, listVars, scanVars, choiceVars>>

------------------------------------------------------------------------------
ListNext    == Move \/ MouseSelect \/ Type \/ Unfilter \/ Refresh \/ ScanEnds
OverlayNext ==
  \/ OpenOverlay \/ ChangeMode \/ Copy \/ ConfirmRestore
  \/ ClearOverride \/ ToggleAutoconnect \/ \E v \in Value \cup {""} : Accept(v)

SettingsNext ==
  \/ Scaffold \/ EditFile \/ Start \/ Stop
  \/ ListNext \/ OverlayNext

SettingsSpec == SettingsInit /\ [][SettingsNext]_settingsVars

------------------------------------------------------------------------------
(* Properties *)

\* What the user has set is what a restart will find: unless the last save failed
\* and said so, or something else wrote the file, it holds the configuration.
FileIsMemory ==
  mode # "off" /\ saved /\ ~foreign => file = [config |-> config, whole |-> TRUE]

\* The credentials of an entry are those of its override, if there is one and it did
\* not change during the scan that made the entry.
ShownIsOverride ==
  \A k \in Shown \ stale : config[k].value # "" => shown[k] = config[k].value

\* An override is set, a password copied, a database overwritten for the entry that
\* was selected when the overlay was opened, unless a scan ended that moved the list.
ActsOnChosen ==
  [][ClearOverride \/ Copy \/ ConfirmRestore \/ (\E v \in Value \cup {""} : Accept(v))
       => shifted \/ Selected = chosen]_settingsVars
==============================================================================
