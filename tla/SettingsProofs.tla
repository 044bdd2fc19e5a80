---------------------------- MODULE SettingsProofs ----------------------------
(***************************************************************************)
(* Proofs about Settings, for every number of containers, every value that *)
(* is typed in and everything an editor writes: the file against the       *)
(* configuration in memory, the list against the configuration, and what   *)
(* the overlays act on against what was selected.                          *)
(*                                                                         *)
(* None of it depends on what the filter shows or in which order: the rows *)
(* are whatever they are.  Each invariant is inductive given ConfigTypeOK. *)
(* That the rows are entries, and the cursor is on one of them, comes last.*)
(***************************************************************************)
EXTENDS Settings, FiniteSetTheorems, SequenceTheorems, TLAPS

\* The part of the type invariant that is needed, and that a program which does
\* not run shows nothing.
ConfigTypeOK ==
  /\ file \in [config : Config, whole : BOOLEAN] \cup {None}
  /\ config \in Config
  /\ shown \in [Key -> Value \cup {"found", None}]
  /\ had \in [Key -> SUBSET (Value \cup {""})]
  /\ mode = "off" => ~ scanning /\ \A k \in Key : shown[k] = None

\* An overlay is open for an entry that was selected, and is until a scan ends.
ChoiceKept == mode \in Overlays => chosen # None /\ (shifted \/ Selected = chosen)

SettingsInv == ConfigTypeOK /\ FileIsMemory /\ ShownIsOverride /\ ChoiceKept

------------------------------------------------------------------------------

LEMMA SettingsStart == SettingsInit => SettingsInv
<1> SUFFICES ASSUME SettingsInit PROVE SettingsInv
  OBVIOUS
<1>1. ConfigTypeOK
  BY DEF SettingsInit, ConfigTypeOK, Config, Override, Unlisted
<1>2. FileIsMemory /\ ShownIsOverride /\ ChoiceKept
  BY DEF SettingsInit, FileIsMemory, ShownIsOverride, Shown, ChoiceKept, Overlays
<1> QED BY <1>1, <1>2 DEF SettingsInv

LEMMA NothingListed == [k \in Key |-> Unlisted] \in Config
BY DEF Config, Override, Unlisted

\* Whatever is saved, with whatever success, the file holds it if it says so.
LEMMA SaveKeeps ==
  ASSUME ConfigTypeOK, FileIsMemory, NEW c \in Config, SaveConfig(c)
  PROVE  /\ file' \in [config : Config, whole : BOOLEAN] \cup {None} /\ config' \in Config
         /\ FileIsMemory'
<1>1. [config |-> c, whole |-> TRUE] \in [config : Config, whole : BOOLEAN]
      /\ [config |-> c, whole |-> FALSE] \in [config : Config, whole : BOOLEAN]
  OBVIOUS
<1>2. CASE file' = [config |-> c, whole |-> TRUE] /\ config' = c
  BY <1>1, <1>2 DEF FileIsMemory
<1>3. CASE file' \in {file, [config |-> c, whole |-> FALSE]} /\ saved' = FALSE /\ config' = c
  BY <1>1, <1>3 DEF FileIsMemory, ConfigTypeOK
<1> QED BY <1>2, <1>3 DEF SaveConfig

\* An override of the selected entry is set: in the configuration.
LEMMA OverrideType ==
  ASSUME ConfigTypeOK, NEW v \in Value \cup {""}
  PROVE  /\ [config EXCEPT ![Selected] = [@ EXCEPT !.value = v]] \in Config
         /\ \A k \in Key :
              [config EXCEPT ![Selected] = [@ EXCEPT !.value = v]][k].value =
                IF k = Selected THEN v ELSE config[k].value
BY DEF ConfigTypeOK, Config, Override

LEMMA FileSteps ==
  ASSUME SettingsInv, Scaffold \/ EditFile \/ Start \/ Stop
  PROVE  SettingsInv'
<1> USE DEF SettingsInv
<1>1. CASE Scaffold \/ EditFile
  <2> USE <1>1 DEF Scaffold, EditFile, listVars, scanVars, choiceVars
  <2>1. ConfigTypeOK'
    <3>1. PICK c \in Config, w \in BOOLEAN : file' = [config |-> c, whole |-> w]
      BY DraftsAreConfigs, NothingListed
    <3>2. UNCHANGED <<config, shown, had, scanning, mode>>
      OBVIOUS
    <3> QED BY <3>1, <3>2 DEF ConfigTypeOK
  <2>2. FileIsMemory'
    BY DEF FileIsMemory
  <2>3. ShownIsOverride' /\ ChoiceKept'
    BY DEF ShownIsOverride, Shown, ChoiceKept, Selected, Overlays
  <2> QED BY <2>1, <2>2, <2>3
<1>2. CASE Start
  <2>1. PICK f \in [config : Config, whole : BOOLEAN] : f = file
    BY <1>2 DEF Start, ConfigTypeOK
  <2>2. /\ config' \in Loaded(f) /\ saved' = f.whole /\ mode = "off" /\ mode' = "normal"
        /\ had' = [k \in Key |-> {config'[k].value}]
        /\ UNCHANGED <<file, foreign, rows, cursor, shown, stale, chosen, shifted>>
    BY <1>2, <2>1 DEF Start, listVars, choiceVars
  <2>3. config' \in Config /\ (f.whole => config' = f.config)
    <3>1. f.config \in Config /\ f.whole \in BOOLEAN
      OBVIOUS
    <3>2. CASE f.whole
      BY <2>2, <3>1, <3>2 DEF Loaded
    <3>3. CASE ~ f.whole
      <4>1. PICK ks \in SUBSET Key :
              config' = [k \in Key |-> IF k \in ks THEN f.config[k] ELSE Unlisted]
        BY <2>2, <3>3 DEF Loaded
      <4> QED BY <3>1, <3>3, <4>1 DEF Config, Override, Unlisted
    <3> QED BY <3>1, <3>2, <3>3
  <2>4. ConfigTypeOK'
    <3>1. had' \in [Key -> SUBSET (Value \cup {""})]
      BY <2>2, <2>3 DEF Config, Override
    <3> QED BY <2>2, <2>3, <3>1 DEF ConfigTypeOK
  <2>5. FileIsMemory'
    BY <2>1, <2>2, <2>3 DEF FileIsMemory
  <2>6. ShownIsOverride' /\ ChoiceKept'
    BY <2>2 DEF ConfigTypeOK, ShownIsOverride, Shown, ChoiceKept, Overlays
  <2> QED BY <2>4, <2>5, <2>6
<1>3. CASE Stop
  <2> USE <1>3 DEF Stop, Off
  <2>1. ConfigTypeOK'
    BY DEF ConfigTypeOK, Config, Override, Unlisted
  <2>2. FileIsMemory' /\ ShownIsOverride' /\ ChoiceKept'
    BY DEF FileIsMemory, ShownIsOverride, Shown, ChoiceKept, Overlays
  <2> QED BY <2>1, <2>2
<1> QED BY <1>1, <1>2, <1>3

LEMMA ListSteps ==
  ASSUME SettingsInv, ListNext
  PROVE  SettingsInv'
<1> USE DEF SettingsInv
<1>1. CASE Move \/ MouseSelect \/ Type \/ Unfilter
  <2> USE <1>1 DEF Move, MouseSelect, Type, Unfilter, fileVars, scanVars, choiceVars
  <2>1. mode' # "off" /\ mode' \notin Overlays /\ mode # "off"
    BY DEF Overlays
  <2>2. UNCHANGED <<file, config, saved, foreign, shown, had, stale>>
    OBVIOUS
  <2> QED BY <2>1, <2>2 DEF ConfigTypeOK, FileIsMemory, ShownIsOverride, Shown, ChoiceKept
<1>2. CASE Refresh
  <2> USE <1>2 DEF Refresh, fileVars, listVars, choiceVars
  <2>1. ConfigTypeOK'
    BY DEF ConfigTypeOK, Config, Override
  <2>2. FileIsMemory' /\ ShownIsOverride' /\ ChoiceKept'
    BY DEF FileIsMemory, ShownIsOverride, Shown, ChoiceKept, Selected, Overlays
  <2> QED BY <2>1, <2>2
<1>3. CASE ScanEnds
  <2>1. PICK ks \in SUBSET Key, read \in [Key -> Value \cup {""}] :
          /\ \A k \in Key : read[k] \in had[k]
          /\ shown' = [k \in Key |-> IF k \in ks THEN Credential(read[k]) ELSE None]
    BY <1>3 DEF ScanEnds
  <2>2. /\ had' = [k \in Key |-> {}]
        /\ stale' = {k \in Key : shown'[k] # None /\ had[k] # {config[k].value}}
        /\ shifted' = (shifted \/ (chosen # None /\ Selected' # Selected))
        /\ UNCHANGED <<file, config, saved, foreign, mode, chosen>>
    BY <1>3 DEF ScanEnds, fileVars
  <2>3. ConfigTypeOK'
    <3>1. mode # "off"
      BY <1>3 DEF ScanEnds, ConfigTypeOK
    <3> QED BY <2>1, <2>2, <3>1 DEF ConfigTypeOK, Credential
  <2>4. FileIsMemory'
    BY <2>2 DEF FileIsMemory
  <2>5. ShownIsOverride'
    BY <2>1, <2>2 DEF ShownIsOverride, Shown, Credential
  <2>6. ChoiceKept'
    BY <2>2 DEF ChoiceKept
  <2> QED BY <2>3, <2>4, <2>5, <2>6
<1> QED BY <1>1, <1>2, <1>3 DEF ListNext

\* The overlays: an entry is chosen, nothing, or an override is saved.
LEMMA OverlaySteps ==
  ASSUME SettingsInv, OverlayNext
  PROVE  SettingsInv'
<1> USE DEF SettingsInv
<1>1. CASE OpenOverlay
  <2> USE <1>1 DEF OpenOverlay, fileVars, listVars, scanVars
  <2>1. ConfigTypeOK' /\ FileIsMemory' /\ ShownIsOverride'
    BY DEF ConfigTypeOK, FileIsMemory, ShownIsOverride, Shown
  <2>2. ChoiceKept'
    BY DEF ChoiceKept, Selected
  <2> QED BY <2>1, <2>2
<1>2. CASE ChangeMode \/ Copy \/ ConfirmRestore
  <2>1. PICK m \in {"normal", "filter", "edit", "input", "copy", "pick", "confirm", "restoring"},
             n \in {"normal", "filter", "edit", "input", "pick", "confirm", "restoring"} :
          Turn(m, n) /\ (n \in Overlays => m \in Overlays)
    BY <1>2 DEF ChangeMode, Copy, ConfirmRestore, Overlays
  <2> USE <2>1 DEF Turn, fileVars, listVars, scanVars, choiceVars
  <2>2. ConfigTypeOK' /\ FileIsMemory' /\ ShownIsOverride'
    BY DEF ConfigTypeOK, FileIsMemory, ShownIsOverride, Shown
  <2>3. ChoiceKept'
    BY DEF ChoiceKept, Selected
  <2> QED BY <2>2, <2>3
<1>3. ASSUME NEW v \in Value \cup {""}, SetOverride(v),
             \/ UNCHANGED shown /\ v = ""
             \/ Selected # None /\ shown' = [shown EXCEPT ![Selected] = IF v = "" THEN @ ELSE v],
             stale' = stale \ (IF v = "" THEN {} ELSE {Selected}),
             mode # "off", mode' \in {"edit"}, mode \in {"edit", "input"}
      PROVE  SettingsInv'
  <2>1. PICK c \in Config : /\ SaveConfig(c) /\ config' = c
                           /\ \A k \in Key : c[k].value = IF k = Selected THEN v ELSE config[k].value
    BY <1>3, OverrideType DEF SetOverride, SaveConfig
  <2>2. had' \in [Key -> SUBSET (Value \cup {""})] /\ UNCHANGED <<scanning, rows, cursor, chosen, shifted>>
    BY <1>3 DEF SetOverride, ConfigTypeOK, listVars, choiceVars
  <2>3. ConfigTypeOK' /\ FileIsMemory'
    BY <1>3, <2>1, <2>2, SaveKeeps DEF ConfigTypeOK
  <2>4. ShownIsOverride'
    BY <1>3, <2>1 DEF ShownIsOverride, Shown, ConfigTypeOK
  <2>5. ChoiceKept'
    BY <1>3, <2>2 DEF ChoiceKept, Selected, Overlays
  <2> QED BY <2>3, <2>4, <2>5
<1>4. ASSUME NEW v \in Value \cup {""}, Accept(v)
      PROVE  SettingsInv'
  BY <1>3, <1>4 DEF Accept
<1>5. CASE ClearOverride
  BY <1>3, <1>5 DEF ClearOverride
<1>6. CASE ToggleAutoconnect
  <2>1. PICK c \in Config : /\ SaveConfig(c) /\ config' = c
                           /\ \A k \in Key : c[k].value = config[k].value
    <3>1. /\ [config EXCEPT ![Selected] = [@ EXCEPT !.auto = ~@]] \in Config
          /\ \A k \in Key : [config EXCEPT ![Selected] = [@ EXCEPT !.auto = ~@]][k].value = config[k].value
      BY DEF ConfigTypeOK, Config, Override
    <3> QED BY <1>6, <3>1 DEF ToggleAutoconnect, SaveConfig
  <2>2. mode = "normal" /\ UNCHANGED <<mode, rows, cursor, shown, scanning, had, stale, chosen, shifted>>
    BY <1>6 DEF ToggleAutoconnect, listVars, scanVars, choiceVars
  <2>3. ConfigTypeOK' /\ FileIsMemory'
    BY <2>1, <2>2, SaveKeeps DEF ConfigTypeOK
  <2>4. ShownIsOverride' /\ ChoiceKept'
    BY <2>1, <2>2 DEF ShownIsOverride, Shown, ChoiceKept, Overlays
  <2> QED BY <2>3, <2>4
<1> QED BY <1>1, <1>2, <1>4, <1>5, <1>6 DEF OverlayNext

LEMMA SettingsStep ==
  ASSUME SettingsInv, [SettingsNext]_settingsVars
  PROVE  SettingsInv'
<1>1. CASE UNCHANGED settingsVars
  <2> USE <1>1 DEF SettingsInv, settingsVars, fileVars, listVars, scanVars, choiceVars
  <2>1. ConfigTypeOK' /\ FileIsMemory'
    BY DEF ConfigTypeOK, FileIsMemory
  <2>2. ShownIsOverride' /\ ChoiceKept'
    BY DEF ShownIsOverride, Shown, ChoiceKept, Selected
  <2> QED BY <2>1, <2>2
<1> QED BY <1>1, FileSteps, ListSteps, OverlaySteps DEF SettingsNext

\* Each save writes the whole configuration, and none is left out: unless one failed
\* and said so, or something else wrote the file, a restart finds what was set, and
\* the list shows what is set.
THEOREM SettingsKept == SettingsSpec => [](FileIsMemory /\ ShownIsOverride)
<1>1. SettingsInv /\ [SettingsNext]_settingsVars => SettingsInv'
  BY SettingsStep
<1>2. SettingsInv => FileIsMemory /\ ShownIsOverride
  BY DEF SettingsInv
<1> QED BY SettingsStart, <1>1, <1>2, PTL DEF SettingsSpec

\* ShownIsOverride by itself: what the list shows is what is set.
COROLLARY SettingsShown == SettingsSpec => []ShownIsOverride
BY SettingsKept, PTL

\* Nothing but a scan that ends moves the selection under an overlay.
THEOREM SettingsActs == SettingsSpec => ActsOnChosen
<1>1. SettingsInv /\ [SettingsNext]_settingsVars => SettingsInv'
  BY SettingsStep
<1>2. ASSUME SettingsInv,
             ClearOverride \/ Copy \/ ConfirmRestore \/ \E v \in Value \cup {""} : Accept(v)
      PROVE  shifted \/ Selected = chosen
  <2>1. mode \in Overlays
    BY <1>2 DEF ClearOverride, Copy, ConfirmRestore, Accept, Turn, Overlays
  <2> QED BY <1>2, <2>1 DEF SettingsInv, ChoiceKept
<1>3. SettingsInv /\ [SettingsNext]_settingsVars =>
        [ClearOverride \/ Copy \/ ConfirmRestore \/ (\E v \in Value \cup {""} : Accept(v))
           => shifted \/ Selected = chosen]_settingsVars
  BY <1>2
<1> QED BY SettingsStart, <1>1, <1>3, PTL DEF SettingsSpec, ActsOnChosen

------------------------------------------------------------------------------
(* The list *)

ListTypeOK ==
  /\ text \in BOOLEAN /\ cursor \in Nat /\ CursorFits
  /\ rows \in Seq(Key) /\ IsInjective(rows) /\ \A i \in DOMAIN rows : shown[rows[i]] # None

\* What is not typed by ConfigTypeOK or ListTypeOK.
RestTypeOK ==
  /\ saved \in BOOLEAN /\ foreign \in BOOLEAN /\ scanning \in BOOLEAN /\ shifted \in BOOLEAN
  /\ mode \in {"off", "normal", "filter", "restoring"} \cup Overlays
  /\ stale \subseteq Key /\ chosen \in Key \cup {None}

LEMMA SettingsTypeIs == ConfigTypeOK => (SettingsTypeOK <=> ListTypeOK /\ RestTypeOK)
BY DEF ConfigTypeOK, SettingsTypeOK, ListTypeOK, RestTypeOK

\* Some keys in some order, none of them twice.
LEMMA RowsOf ==
  ASSUME NEW ks \in SUBSET Key, NEW r \in SetToSeqs(ks)
  PROVE  r \in Seq(Key) /\ IsInjective(r) /\ \A i \in DOMAIN r : r[i] \in ks
<1>1. IsFiniteSet(Key)
  BY KeysAreNumbers, FS_Interval DEF Key
<1>2. Cardinality(ks) \in Nat
  BY <1>1, FS_Subset, FS_CardinalityType
<1>3. /\ r \in [1 .. Cardinality(ks) -> ks]
      /\ \A i, j \in 1 .. Cardinality(ks) : i # j => r[i] # r[j]
  BY DEF SetToSeqs
<1>4. r \in Seq(Key)
  <2>1. r \in [1 .. Cardinality(ks) -> Key]
    BY <1>3
  <2> QED BY <1>2, <2>1, SeqDef
<1> QED BY <1>3, <1>4 DEF IsInjective

\* resetFilter and applyFilter leave rows that are entries, and a cursor on one of
\* them or at the top.
LEMMA ListIsFiltered ==
  ASSUME NEW ks \in SUBSET Key, \A k \in ks : shown'[k] # None,
         cursor \in Nat, text' \in BOOLEAN,
         ResetFilter(ks) \/ ApplyFilter(ks)
  PROVE  ListTypeOK'
<1>1. PICK T \in SUBSET ks : rows' \in SetToSeqs(T)
  BY DEF ResetFilter, ApplyFilter, InOrder, SetToAllKPermutations
<1>2. rows' \in Seq(Key) /\ IsInjective(rows') /\ \A i \in DOMAIN rows' : rows'[i] \in ks
  BY <1>1, RowsOf
<1>3. Len(rows') \in Nat /\ (rows' # <<>> => Len(rows') > 0)
  BY <1>2, LenProperties, EmptySeq
<1>4. cursor' \in Nat /\ (cursor' < Len(rows') \/ cursor' = 0)
  BY <1>3 DEF ResetFilter, ApplyFilter
<1> QED BY <1>2, <1>4 DEF ListTypeOK, CursorFits

LEMMA SelectedIsListed ==
  ASSUME ListTypeOK
  PROVE  Selected \in Key \cup {None}
<1>1. CASE cursor < Len(rows)
  <2>1. cursor + 1 \in 1 .. Len(rows)
    BY <1>1, LenProperties DEF ListTypeOK
  <2>2. rows[cursor + 1] \in Key
    BY <2>1, ElementOfSeq DEF ListTypeOK
  <2> QED BY <1>1, <2>2 DEF Selected
<1>2. CASE ~ (cursor < Len(rows))
  BY <1>2 DEF Selected
<1> QED BY <1>1, <1>2

LEMMA ListStep ==
  ASSUME ConfigTypeOK, ListTypeOK, RestTypeOK, SettingsNext
  PROVE  ListTypeOK'
<1>1. CASE Scaffold \/ EditFile \/ Start
  BY <1>1 DEF Scaffold, EditFile, Start, listVars, scanVars, ListTypeOK, CursorFits
<1>2. CASE Stop
  <2>1. rows' = <<>> /\ cursor' = 0 /\ text' = FALSE
    BY <1>2 DEF Stop, Off
  <2>2. rows' \in Seq(Key) /\ IsInjective(rows') /\ \A i \in DOMAIN rows' : FALSE
    BY <2>1, EmptySeq DEF IsInjective
  <2> QED BY <2>1, <2>2 DEF ListTypeOK, CursorFits
<1>3. CASE Move \/ MouseSelect
  <2>1. Len(rows) \in Nat /\ cursor \in Nat /\ CursorFits
    BY LenProperties DEF ListTypeOK
  <2>2. cursor' \in Nat /\ cursor' < Len(rows) /\ UNCHANGED <<text, rows, shown>>
    BY <1>3, <2>1 DEF Move, MouseSelect, scanVars, CursorFits
  <2> QED BY <2>2 DEF ListTypeOK, CursorFits
<1>4. CASE Type \/ Unfilter
  <2>1. ResetFilter(Shown) \/ ApplyFilter(Shown)
    BY <1>4 DEF Type, Unfilter
  <2>2. text' \in BOOLEAN
    BY <1>4 DEF Type, Unfilter, ApplyFilter
  <2>3. Shown \in SUBSET Key /\ \A k \in Shown : shown'[k] # None
    BY <1>4 DEF Type, Unfilter, scanVars, Shown
  <2> QED BY <2>1, <2>2, <2>3, ListIsFiltered DEF ListTypeOK
<1>5. CASE Refresh
  BY <1>5 DEF Refresh, listVars, ListTypeOK, CursorFits
<1>6. CASE ScanEnds
  <2>1. PICK ks \in SUBSET Key, read \in [Key -> Value \cup {""}] :
          /\ shown' = [k \in Key |-> IF k \in ks THEN Credential(read[k]) ELSE None]
          /\ ApplyFilter(ks)
    BY <1>6 DEF ScanEnds
  <2>2. \A k \in ks : shown'[k] # None
    BY <2>1, ValuesAreTyped DEF Credential
  <2>3. text' \in BOOLEAN
    BY <1>6 DEF ScanEnds, ListTypeOK
  <2> QED BY <2>1, <2>2, <2>3, ListIsFiltered DEF ListTypeOK
<1>7. CASE OpenOverlay \/ ChangeMode \/ Copy \/ ConfirmRestore \/ ClearOverride \/ ToggleAutoconnect
  <2>1. UNCHANGED <<text, rows, cursor, shown>>
    BY <1>7 DEF OpenOverlay, ChangeMode, Copy, ConfirmRestore, Turn, ClearOverride,
                SetOverride, ToggleAutoconnect, listVars, scanVars
  <2> QED BY <2>1 DEF ListTypeOK, CursorFits
<1>8. ASSUME NEW v \in Value \cup {""}, Accept(v) PROVE ListTypeOK'
  <2>1. /\ UNCHANGED <<text, rows, cursor>>
        /\ shown' = [shown EXCEPT ![Selected] = IF v = "" THEN @ ELSE v]
    BY <1>8 DEF Accept, SetOverride, listVars
  <2>2. \A k \in Key : shown[k] # None => shown'[k] # None
    BY <2>1, ValuesAreTyped DEF ConfigTypeOK
  <2>3. \A i \in DOMAIN rows : rows[i] \in Key
    BY LenProperties DEF ListTypeOK
  <2> QED BY <2>1, <2>2, <2>3 DEF ListTypeOK, CursorFits
<1> QED BY <1>1, <1>2, <1>3, <1>4, <1>5, <1>6, <1>7, <1>8
        DEF SettingsNext, ListNext, OverlayNext

LEMMA RestStep ==
  ASSUME ConfigTypeOK, ListTypeOK, RestTypeOK, SettingsNext
  PROVE  RestTypeOK'
<1>0. Selected \in Key \cup {None}
  BY SelectedIsListed
<1>1. CASE Scaffold \/ EditFile
  BY <1>1 DEF Scaffold, EditFile, scanVars, choiceVars, RestTypeOK
<1>2. CASE Start
  <2>1. PICK f \in [config : Config, whole : BOOLEAN] : f = file
    BY <1>2 DEF Start, ConfigTypeOK
  <2>2. saved' \in BOOLEAN
    BY <1>2, <2>1 DEF Start
  <2> QED BY <1>2, <2>2 DEF Start, choiceVars, RestTypeOK
<1>3. CASE Stop
  BY <1>3 DEF Stop, Off, RestTypeOK
<1>4. CASE Move \/ MouseSelect \/ Type \/ Unfilter \/ Refresh
  BY <1>4 DEF Move, MouseSelect, Type, Unfilter, Refresh, fileVars, scanVars, choiceVars,
              RestTypeOK
<1>5. CASE ScanEnds
  BY <1>5 DEF ScanEnds, fileVars, RestTypeOK
<1>6. CASE OpenOverlay
  BY <1>0, <1>6 DEF OpenOverlay, fileVars, scanVars, RestTypeOK, Overlays
<1>7. CASE ChangeMode \/ Copy \/ ConfirmRestore
  <2>1. PICK m \in {"normal", "filter", "edit", "input", "copy", "pick", "confirm", "restoring"},
             n \in {"normal", "filter", "edit", "input", "pick", "confirm", "restoring"} :
          Turn(m, n)
    BY <1>7 DEF ChangeMode, Copy, ConfirmRestore
  <2> QED BY <2>1 DEF Turn, fileVars, scanVars, choiceVars, RestTypeOK, Overlays
<1>8. ASSUME NEW c, SaveConfig(c), UNCHANGED <<scanning, choiceVars>>,
             mode' = mode \/ mode' = "edit", stale' \subseteq stale
      PROVE  RestTypeOK'
  BY <1>8 DEF SaveConfig, choiceVars, RestTypeOK, Overlays
<1>9. CASE ClearOverride \/ ToggleAutoconnect
  BY <1>8, <1>9 DEF ClearOverride, SetOverride, ToggleAutoconnect, scanVars
<1>10. ASSUME NEW v \in Value \cup {""}, Accept(v) PROVE RestTypeOK'
  BY <1>8, <1>10 DEF Accept, SetOverride
<1> QED BY <1>1, <1>2, <1>3, <1>4, <1>5, <1>6, <1>7, <1>9, <1>10
        DEF SettingsNext, ListNext, OverlayNext

\* SettingsTypeOK: what is selected is an entry that is shown, or nothing where the
\* list is empty, however scans, the filter and the mouse move list and cursor.
THEOREM SettingsTyped == SettingsSpec => []SettingsTypeOK
<1> DEFINE TypeInv == SettingsInv /\ ListTypeOK /\ RestTypeOK
<1>1. SettingsInit => TypeInv
  <2> SUFFICES ASSUME SettingsInit PROVE TypeInv
    OBVIOUS
  <2>1. ListTypeOK
    <3>1. rows = <<>> /\ cursor = 0 /\ text = FALSE
      BY DEF SettingsInit
    <3>2. rows \in Seq(Key) /\ IsInjective(rows) /\ \A i \in DOMAIN rows : FALSE
      BY <3>1, EmptySeq DEF IsInjective
    <3> QED BY <3>1, <3>2 DEF ListTypeOK, CursorFits
  <2>2. RestTypeOK
    BY DEF SettingsInit, RestTypeOK
  <2> QED BY <2>1, <2>2, SettingsStart
<1>2. TypeInv /\ [SettingsNext]_settingsVars => TypeInv'
  <2> SUFFICES ASSUME TypeInv, [SettingsNext]_settingsVars PROVE TypeInv'
    OBVIOUS
  <2>1. SettingsInv'
    BY SettingsStep
  <2>2. CASE SettingsNext
    BY <2>1, <2>2, ListStep, RestStep DEF SettingsInv
  <2>3. CASE UNCHANGED settingsVars
    BY <2>1, <2>3 DEF settingsVars, fileVars, listVars, scanVars, choiceVars,
                      ListTypeOK, CursorFits, RestTypeOK
  <2> QED BY <2>2, <2>3
<1>3. TypeInv => SettingsTypeOK
  BY SettingsTypeIs DEF SettingsInv
<1> QED BY <1>1, <1>2, <1>3, PTL DEF SettingsSpec
==============================================================================
