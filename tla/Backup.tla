-------------------------------- MODULE Backup --------------------------------
(***************************************************************************)
(* Backups and restores: the jobs of backup.go, which dump a database into *)
(* a file or replace a database by a file and report their progress        *)
(* through a channel, and the overlays of ui.go from which they are        *)
(* started and watched.                                                    *)
(*                                                                         *)
(* What a database or a file holds is the key of the database whose data   *)
(* it was in the beginning, "empty", or "part" of something; a file whose  *)
(* dump has not come to its end is "torn".  The names of backup files      *)
(* carry the second of their creation and are taken to be new.             *)
(*                                                                         *)
(* As in SshPool, a definition without a comment right before another one  *)
(* is that one with a bug that a property named in PROJECT.json catches.   *)
(***************************************************************************)
EXTENDS Naturals, Sequences, FiniteSets

CONSTANTS Key,       \* entries
          File,      \* names of backup files
          Job,       \* goroutines of performBackup and performRestore
          MaxQueue,  \* capacity of a job's channel, 50 in the code
          None

ASSUME QueuesExist == MaxQueue \in Nat \ {0, 1} /\ IsFiniteSet(Job)
ASSUME DataAreApart ==
  /\ None \notin Key \cup File \cup {"empty", "part", "torn", "backup", "restore"}
  /\ Key \cap {"empty", "part", "torn"} = {}

VARIABLES mode,       \* m.mode
          chosen,     \* m.restoreSelected, while the restore is to be confirmed
          failed,     \* for either kind of job: m.backupErr, m.restoreErr
          complete,   \* m.backupMsg, m.restoreMsg contain "complete"
          timers,     \* pending backupDoneTimerMsg, restoreDoneTimerMsg
          kind,       \* what each job does
          stage,      \* how far it is
          base,       \* the database it works on
          file,       \* the file it writes or reads
          queue,      \* its messages that are still unread
          db,         \* what each database holds
          files       \* what each file holds, None where there is no file

uiVars   == <<mode, chosen, failed, complete, timers>>
jobVars  == <<kind, stage, base, file, queue>>
dataVars == <<db, files>>
bkVars   == <<uiVars, jobVars, dataVars>>

Kinds == {"backup", "restore"}
Data  == Key \cup {"empty", "part"}

BackupTypeOK ==
  /\ mode \in {"normal", "backup", "picker", "confirm", "restoring"}
  /\ chosen \in File \cup {None}
  /\ failed \in [Kinds -> BOOLEAN] /\ complete \in [Kinds -> BOOLEAN]
  /\ timers \in [Kinds -> 0 .. Cardinality(Job)]
  /\ kind \in [Job -> Kinds \cup {None}]
  /\ stage \in [Job -> {"idle", "dial", "dump", "drop", "load", "over"}]
  /\ base \in [Job -> Key \cup {None}] /\ file \in [Job -> File \cup {None}]
  /\ queue \in [Job -> Seq({"busy", "reset", "ok", "err"})]
  /\ \A j \in Job : Len(queue[j]) <= MaxQueue
  /\ db \in [Key -> Data] /\ files \in [File -> Data \cup {"torn", None}]

\* The last backup was taken of none of the databases.
BackupInit ==
  /\ mode = "normal" /\ chosen = None
  /\ failed = [a \in Kinds |-> FALSE] /\ complete = [a \in Kinds |-> FALSE]
  /\ timers = [a \in Kinds |-> 0]
  /\ kind = [j \in Job |-> None] /\ stage = [j \in Job |-> "idle"]
  /\ base = [j \in Job |-> None] /\ file = [j \in Job |-> None]
  /\ queue = [j \in Job |-> <<>>]
  /\ db = [k \in Key |-> k]
  /\ \E f \in File : files = [g \in File |-> IF g = f THEN "empty" ELSE None]

\* The mode whose overlay shows a job.
Overlay(a) == IF a = "backup" THEN "backup" ELSE "restoring"

Running(j) == stage[j] \notin {"idle", "over"}

------------------------------------------------------------------------------
(* The jobs *)

SendUnbounded(j, s, ms) ==
  /\ stage' = [stage EXCEPT ![j] = s]
  /\ queue' = [queue EXCEPT ![j] = @ \o ms]
  /\ UNCHANGED <<uiVars, kind, base>>

\* Job j goes on at s and sends the messages of ms.  It blocks on a full channel.
Send(j, s, ms) ==
  /\ Len(queue[j]) + Len(ms) <= MaxQueue
  /\ stage' = [stage EXCEPT ![j] = s]
  /\ queue' = [queue EXCEPT ![j] = @ \o ms]
  /\ UNCHANGED <<uiVars, kind, base>>

\* A directory, a connection or a file that cannot be had: nothing was done.
DialFails(j) ==
  /\ stage[j] = "dial"
  /\ Send(j, "over", <<"err">>)
  /\ UNCHANGED <<file, dataVars>>

\* The file is created, pg_dump runs.
DumpStarts(j) ==
  /\ kind[j] = "backup" /\ stage[j] = "dial"
  /\ \E f \in File :
       /\ files[f] = None /\ \A i \in Job : file[i] # f
       /\ file' = [file EXCEPT ![j] = f]
       /\ files' = [files EXCEPT ![f] = "torn"]
  /\ Send(j, "dump", <<"busy">>)
  /\ UNCHANGED db

\* The ticker tells of progress.
Tick(j) ==
  /\ stage[j] \in {"dump", "load"}
  /\ Send(j, stage[j], <<"busy">>)
  /\ UNCHANGED <<file, dataVars>>

DumpIgnored(j) ==
  /\ stage[j] = "dump"
  /\ Send(j, "over", <<"ok">>)
  /\ UNCHANGED <<file, dataVars>>

\* pg_dump has written all of the database, and the file is closed.
DumpEnds(j) ==
  /\ stage[j] = "dump"
  /\ files' = [files EXCEPT ![file[j]] = db[base[j]]]
  /\ Send(j, "over", <<"ok">>)
  /\ UNCHANGED <<file, db>>

\* pg_dump, the stream or gzip fails: the file is removed.  It stays when only
\* closing it fails.
DumpFails(j) ==
  /\ stage[j] = "dump"
  /\ files' \in {files, [files EXCEPT ![file[j]] = None]}
  /\ Send(j, "over", <<"err">>)
  /\ UNCHANGED <<file, db>>

\* Extensions are dropped as far as possible, then the schema.
DropStarts(j) ==
  /\ kind[j] = "restore" /\ stage[j] = "dial"
  /\ Send(j, "drop", <<"busy">>)
  /\ UNCHANGED <<file, dataVars>>

DropEnds(j) ==
  /\ stage[j] = "drop"
  /\ db' = [db EXCEPT ![base[j]] = "empty"]
  /\ Send(j, "load", <<"reset", "busy">>)
  /\ UNCHANGED <<file, files>>

\* The command that fails may have been carried out, and the extensions may
\* have taken data with them.
DropFails(j) ==
  /\ stage[j] = "drop"
  /\ \E d \in {db[base[j]], "part", "empty"} : db' = [db EXCEPT ![base[j]] = d]
  /\ Send(j, "over", <<"err">>)
  /\ UNCHANGED <<file, files>>

\* psql goes on after errors, so that part of the file may be missing.  Only a
\* whole file is read to its end.
LoadEnds(j) ==
  /\ stage[j] = "load" /\ files[file[j]] \notin {"torn", None}
  /\ \E d \in {files[file[j]], "part"} : db' = [db EXCEPT ![base[j]] = d]
  /\ Send(j, "over", <<"ok">>)
  /\ UNCHANGED <<file, files>>

\* The file cannot be opened or is no gzip, the stream breaks, or psql fails.
LoadFails(j) ==
  /\ stage[j] = "load"
  /\ \E d \in {"empty", "part", files[file[j]]} \cap Data : db' = [db EXCEPT ![base[j]] = d]
  /\ Send(j, "over", <<"err">>)
  /\ UNCHANGED <<file, files>>

Works(j) ==
  \/ DialFails(j)
  \/ DumpStarts(j)
  \/ DumpEnds(j)
  \/ DumpFails(j)
  \/ DropStarts(j)
  \/ DropEnds(j)
  \/ DropFails(j)
  \/ LoadEnds(j)
  \/ LoadFails(j)

------------------------------------------------------------------------------
(* Messages *)

\* A job that sent its last message, which was handled, is no more.
Over(j) ==
  /\ stage' = [stage EXCEPT ![j] = "idle"]
  /\ kind' = [kind EXCEPT ![j] = None]
  /\ base' = [base EXCEPT ![j] = None]
  /\ file' = [file EXCEPT ![j] = None]

HandledSilently(j) ==
  LET m == Head(queue[j])
      a == kind[j]
  IN /\ queue[j] # <<>>
     /\ queue' = [queue EXCEPT ![j] = Tail(@)]
     /\ failed' = [failed EXCEPT ![a] = @ \/ m = "err"]
     /\ complete' = [complete EXCEPT ![a] = m \in {"reset", "ok"}]
     /\ timers' = IF m = "ok" /\ mode = Overlay(a) THEN [timers EXCEPT ![a] = @ + 1] ELSE timers
     /\ IF m \in {"ok", "err"} THEN Over(j) ELSE UNCHANGED <<stage, kind, base, file>>
     /\ UNCHANGED <<mode, chosen, dataVars>>

\* The next message of job j.  "Schema reset complete" contains "complete".
\* The last message starts the timer that closes the overlay, if it is shown.
Handled(j) ==
  LET m == Head(queue[j])
      a == kind[j]
      last == m \in {"ok", "err"}
  IN /\ queue[j] # <<>>
     /\ queue' = [queue EXCEPT ![j] = Tail(@)]
     /\ failed' = [failed EXCEPT ![a] = @ \/ m = "err"]
     /\ complete' = [complete EXCEPT ![a] = m \in {"reset", "ok"}]
     /\ timers' = IF last /\ mode = Overlay(a) THEN [timers EXCEPT ![a] = @ + 1] ELSE timers
     /\ IF last THEN Over(j) ELSE UNCHANGED <<stage, kind, base, file>>
     /\ UNCHANGED <<mode, chosen, dataVars>>

\* backupDoneTimerMsg, restoreDoneTimerMsg
TimerFires(a) ==
  /\ timers[a] > 0
  /\ timers' = [timers EXCEPT ![a] = @ - 1]
  /\ mode' = IF mode = Overlay(a) THEN "normal" ELSE mode
  /\ UNCHANGED <<chosen, failed, complete, jobVars, dataVars>>

------------------------------------------------------------------------------
(* Keys *)

\* Job j is started on the entry selected now: in the normal mode the user
\* moves the cursor, and the end of a scan puts other entries under it in any.
Begin(j, a, f) ==
  /\ stage[j] = "idle"
  /\ kind' = [kind EXCEPT ![j] = a]
  /\ stage' = [stage EXCEPT ![j] = "dial"]
  /\ \E k \in Key : base' = [base EXCEPT ![j] = k]
  /\ file' = [file EXCEPT ![j] = f]
  /\ queue' = [queue EXCEPT ![j] = <<"busy">>]
  /\ failed' = [failed EXCEPT ![a] = FALSE]
  /\ complete' = [complete EXCEPT ![a] = FALSE]
  /\ UNCHANGED <<timers, dataVars>>

\* b
StartBackup(j) ==
  /\ mode = "normal" /\ mode' = "backup"
  /\ Begin(j, "backup", None)
  /\ UNCHANGED chosen

\* B: the picker, where there is a file to choose.
OpenPicker ==
  /\ mode = "normal" /\ mode' = "picker"
  /\ \E f \in File : files[f] # None
  /\ failed' = [failed EXCEPT !["restore"] = FALSE]
  /\ UNCHANGED <<chosen, complete, timers, jobVars, dataVars>>

Choose(f) ==
  /\ mode = "picker" /\ mode' = "confirm"
  /\ files[f] # None
  /\ chosen' = f
  /\ UNCHANGED <<failed, complete, timers, jobVars, dataVars>>

\* y: the database need not be the one for which the picker was opened.
StartRestore(j) ==
  /\ mode = "confirm" /\ mode' = "restoring"
  /\ Begin(j, "restore", chosen)
  /\ chosen' = None

EscAlways ==
  /\ mode # "normal"
  /\ mode' = IF mode = "confirm" THEN "picker" ELSE "normal"
  /\ chosen' = None
  /\ UNCHANGED <<failed, complete, timers, jobVars, dataVars>>

\* Esc, or ctrl+c: a job that has not failed and does not say "complete" is not
\* left.
Esc ==
  /\ mode # "normal"
  /\ mode = "backup"    => failed["backup"]  \/ complete["backup"]
  /\ mode = "restoring" => failed["restore"] \/ complete["restore"]
  /\ mode' = IF mode = "confirm" THEN "picker" ELSE "normal"
  /\ chosen' = None
  /\ UNCHANGED <<failed, complete, timers, jobVars, dataVars>>

------------------------------------------------------------------------------

Jobs == \E j \in Job : Works(j) \/ Tick(j) \/ Handled(j)

Keys ==
  \/ OpenPicker
  \/ \E f \in File : Choose(f)
  \/ Esc

\* The user starts no job in the two seconds after the last one of its kind.
CalmNext ==
  \/ Jobs \/ Keys
  \/ \E a \in Kinds : TimerFires(a)
  \/ \E j \in Job : \/ timers["backup"] = 0 /\ StartBackup(j)
                    \/ timers["restore"] = 0 /\ StartRestore(j)

CalmSpec == BackupInit /\ [][CalmNext]_bkVars

\* Remote commands end, messages and timers are handled.
BackupFairness ==
  /\ \A j \in Job : SF_bkVars(Works(j)) /\ WF_bkVars(Handled(j))
  /\ \A a \in Kinds : WF_bkVars(TimerFires(a))

FairCalmSpec == CalmSpec /\ BackupFairness

------------------------------------------------------------------------------

\* A running backup is watched: its overlay stays until it is over.  So there
\* is never a second one whose messages mix with its own.
BackupIsWatched ==
  \A j \in Job : kind[j] = "backup" /\ Running(j) => mode = "backup"

\* When a message says that a backup is complete its file is whole.
CompleteIsWhole ==
  \A j \in Job : kind[j] = "backup" /\ (\E i \in DOMAIN queue[j] : queue[j][i] = "ok") =>
    file[j] # None /\ files[file[j]] \notin {None, "torn"}

\* No overlay stays for ever, however its job ends.
OverlaysEnd == mode \in {"backup", "restoring"} ~> mode \notin {"backup", "restoring"}

\* What a database held is not lost to a restore: "A safety backup is created
\* first - you can always recover."
DataIsKept ==
  \A k \in Key : (\E d \in Key : db[d] = k) \/ \E f \in File : files[f] = k

==============================================================================
