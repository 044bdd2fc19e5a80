------------------------------ MODULE BackupProofs ------------------------------
(***************************************************************************)
(* Proofs about Backup, for every set of databases, files and jobs and     *)
(* every capacity of their channels: that a backup is watched while it     *)
(* runs, and that its file is whole when a message says so, however        *)
(* connections, dumps and restores fail and interleave.                    *)
(*                                                                         *)
(* Both rest on there being one backup at a time (OneBackup), which in     *)
(* turn holds because the overlay of a backup is left only after its last  *)
(* message, and by then no timer is pending that closes the next one.      *)
(***************************************************************************)
EXTENDS Backup, FiniteSetTheorems, SequenceTheorems, TLAPS

Message == {"busy", "reset", "ok", "err"}
Last    == {"ok", "err"}

\* What a job has in hand, depending on how far it is.
JobShape ==
  \A j \in Job :
    /\ stage[j] = "idle" <=> kind[j] = None
    /\ stage[j] # "idle" => base[j] \in Key
    /\ stage[j] = "dump" => kind[j] = "backup" /\ file[j] \in File
    /\ stage[j] \in {"drop", "load"} => kind[j] = "restore"
    /\ kind[j] = "restore" => file[j] \in File

\* A job's last message is its last word; only a restore speaks of a reset.
QueueShape ==
  \A j \in Job :
    /\ stage[j] = "idle" => queue[j] = <<>>
    /\ \A i \in 1 .. Len(queue[j]) :
         /\ queue[j][i] \in Last => stage[j] = "over" /\ i = Len(queue[j])
         /\ kind[j] = "backup" => queue[j][i] # "reset"

\* There is a file to restore from when the restore is to be confirmed.
PickShape == mode = "confirm" => chosen \in File

\* While there is a backup, or its last message is to come, its overlay is shown,
\* nothing lets the user leave it, no timer will close it, and there is no other.
OneBackup ==
  \A j \in Job : kind[j] = "backup" =>
    /\ mode = "backup" /\ timers["backup"] = 0
    /\ ~ failed["backup"] /\ ~ complete["backup"]
    /\ \A i \in Job : kind[i] = "backup" => i = j

\* Each timer was started by a job that is over.
Of(a) == {j \in Job : kind[j] = a}
TimersFit == \A a \in Kinds : timers[a] + Cardinality(Of(a)) <= Cardinality(Job)

BackupInv ==
  /\ BackupTypeOK /\ JobShape /\ QueueShape /\ PickShape
  /\ OneBackup /\ CompleteIsWhole /\ TimersFit

------------------------------------------------------------------------------
(* Messages *)

\* What a job appends to its queue comes after what is there.
LEMMA Appended ==
  ASSUME NEW q \in Seq(Message), NEW ms \in Seq(Message)
  PROVE  /\ q \o ms \in Seq(Message)
         /\ Len(q \o ms) = Len(q) + Len(ms)
         /\ \A i \in 1 .. Len(q \o ms) :
              (q \o ms)[i] = IF i <= Len(q) THEN q[i] ELSE ms[i - Len(q)]
BY ConcatProperties

LEMMA Tailed ==
  ASSUME NEW q \in Seq(Message), q # <<>>
  PROVE  /\ Head(q) \in Message /\ Head(q) = q[1]
         /\ Tail(q) \in Seq(Message) /\ Len(Tail(q)) = Len(q) - 1
         /\ \A i \in 1 .. Len(Tail(q)) : Tail(q)[i] = q[i + 1]
BY HeadTailProperties

LEMMA Messages ==
  /\ <<"busy">> \in Seq(Message) /\ Len(<<"busy">>) = 1 /\ <<"busy">>[1] = "busy"
  /\ <<"ok">> \in Seq(Message) /\ Len(<<"ok">>) = 1 /\ <<"ok">>[1] = "ok"
  /\ <<"err">> \in Seq(Message) /\ Len(<<"err">>) = 1 /\ <<"err">>[1] = "err"
  /\ <<"reset", "busy">> \in Seq(Message) /\ Len(<<"reset", "busy">>) = 2
  /\ <<"reset", "busy">>[1] = "reset" /\ <<"reset", "busy">>[2] = "busy"
BY DEF Message

LEMMA BackupStart == BackupInit => BackupInv
<1> SUFFICES ASSUME BackupInit PROVE BackupInv
  OBVIOUS
<1> USE DataAreApart, QueuesExist
<1>0. Cardinality(Job) \in Nat
  BY FS_CardinalityType
<1>1. BackupTypeOK
  BY <1>0 DEF BackupInit, BackupTypeOK, Kinds, Data
<1>2. JobShape /\ QueueShape /\ PickShape
  BY DEF BackupInit, JobShape, QueueShape, PickShape
<1>3. OneBackup /\ CompleteIsWhole
  BY DEF BackupInit, OneBackup, CompleteIsWhole
<1>4. TimersFit
  <2>1. \A a \in Kinds : Of(a) = {}
    BY DEF BackupInit, Of, Kinds
  <2>2. \A a \in Kinds : Cardinality(Of(a)) = 0 /\ timers[a] = 0
    BY <2>1, FS_EmptySet DEF BackupInit, Kinds
  <2> QED BY <2>2, <1>0 DEF TimersFit
<1> QED BY <1>1, <1>2, <1>3, <1>4 DEF BackupInv

------------------------------------------------------------------------------
(* The steps of a job *)

\* A job that goes on disturbs no other: its queue and stage change, and only the
\* one backup writes a file.
LEMMA SendKeeps ==
  ASSUME BackupInv, NEW j \in Job, Running(j),
         NEW s \in {"dump", "drop", "load", "over"},
         NEW ms \in Seq(Message), Send(j, s, ms),
         \A i \in 1 .. Len(ms) :
           /\ ms[i] \in Last => s = "over" /\ i = Len(ms)
           /\ kind[j] = "backup" => ms[i] # "reset"
           /\ kind[j] = "backup" /\ ms[i] = "ok" =>
                file'[j] # None /\ files'[file'[j]] \notin {None, "torn"},
         s = "dump" => kind[j] = "backup" /\ file'[j] \in File,
         s \in {"drop", "load"} => kind[j] = "restore",
         \A i \in Job : i # j \/ kind[j] = "restore" => file'[i] = file[i],
         kind[j] # "backup" => UNCHANGED files,
         file' \in [Job -> File \cup {None}],
         db' \in [Key -> Data], files' \in [File -> Data \cup {"torn", None}]
  PROVE  BackupInv'
<1>0. BackupTypeOK /\ JobShape /\ QueueShape
  BY DEF BackupInv
<1>1. /\ stage' = [stage EXCEPT ![j] = s]
      /\ UNCHANGED <<mode, chosen, failed, complete, timers, kind, base>>
      /\ Len(queue[j]) + Len(ms) <= MaxQueue
  BY DEF Send, uiVars
<1>2. PickShape' /\ OneBackup'
  BY <1>1 DEF BackupInv, PickShape, OneBackup
<1>3. TimersFit'
  <2>1. \A a : Of(a)' = Of(a)
    BY <1>1 DEF Of
  <2> QED BY <1>1, <2>1 DEF BackupInv, TimersFit
<1>4. queue \in [Job -> Seq(Message)]
  BY <1>0 DEF BackupTypeOK, Message
<1> DEFINE q == queue[j] \o ms
<1>5. /\ q \in Seq(Message) /\ Len(q) = Len(queue[j]) + Len(ms)
      /\ \A i \in 1 .. Len(q) : q[i] = IF i <= Len(queue[j]) THEN queue[j][i] ELSE ms[i - Len(queue[j])]
  BY <1>4, Appended
<1>6. queue' = [queue EXCEPT ![j] = q]
  BY DEF Send
<1> HIDE DEF q
<1>7. stage'[j] = s /\ \A i \in Job \ {j} : stage'[i] = stage[i]
  BY <1>0, <1>1 DEF BackupTypeOK
<1>8. queue'[j] = q /\ \A i \in Job \ {j} : queue'[i] = queue[i]
  BY <1>4, <1>6
<1>9. /\ queue' \in [Job -> Seq(Message)]
      /\ \A i \in Job : Len(queue'[i]) <= MaxQueue
  BY <1>0, <1>1, <1>4, <1>5, <1>6, <1>8 DEF BackupTypeOK
<1>10. stage' \in [Job -> {"idle", "dial", "dump", "drop", "load", "over"}]
  BY <1>0, <1>1 DEF BackupTypeOK
<1>11. ASSUME NEW i \in 1 .. Len(q)
       PROVE  \/ i \in 1 .. Len(queue[j]) /\ q[i] = queue[j][i]
              \/ /\ i - Len(queue[j]) \in 1 .. Len(ms) /\ q[i] = ms[i - Len(queue[j])]
                 /\ i - Len(queue[j]) = Len(ms) => i = Len(q)
  <2>1. Len(queue[j]) \in Nat /\ Len(ms) \in Nat
    BY <1>4, LenProperties
  <2> QED BY <1>5, <2>1
<1>12. \A i \in 1 .. Len(queue[j]) : queue[j][i] \notin Last /\ (kind[j] = "backup" => queue[j][i] # "reset")
  BY <1>0 DEF QueueShape, Running
<1>13. \A i \in 1 .. Len(q) : /\ q[i] \in Last => s = "over" /\ i = Len(q)
                              /\ kind[j] = "backup" => q[i] # "reset"
  BY <1>11, <1>12
<1>14. QueueShape'
  <2>1. ASSUME NEW i \in Job
        PROVE  /\ stage'[i] = "idle" => queue'[i] = <<>>
               /\ \A n \in 1 .. Len(queue'[i]) :
                    /\ queue'[i][n] \in Last => stage'[i] = "over" /\ n = Len(queue'[i])
                    /\ kind'[i] = "backup" => queue'[i][n] # "reset"
    <3>1. CASE i = j
      BY <1>1, <1>7, <1>8, <1>13, <3>1
    <3>2. CASE i # j
      BY <1>0, <1>1, <1>7, <1>8, <3>2 DEF QueueShape
    <3> QED BY <3>1, <3>2
  <2> QED BY <2>1 DEF QueueShape
<1>15. CompleteIsWhole'
  <2> SUFFICES ASSUME NEW i \in Job, kind'[i] = "backup", NEW n \in DOMAIN queue'[i], queue'[i][n] = "ok"
               PROVE  file'[i] # None /\ files'[file'[i]] \notin {None, "torn"}
    BY DEF CompleteIsWhole
  <2>1. CASE i = j
    <3>1. n \in 1 .. Len(q) /\ q[n] = "ok"
      BY <1>5, <1>8, <2>1, LenProperties
    <3>2. "ok" \in Last
      BY DEF Last
    <3> QED BY <1>1, <1>11, <1>12, <2>1, <3>1, <3>2
  <2>2. CASE i # j
    <3>1. kind[j] # "backup"
      BY <1>1, <2>2 DEF BackupInv, OneBackup
    <3> QED BY <1>1, <1>8, <2>2, <3>1 DEF BackupInv, CompleteIsWhole
  <2> QED BY <2>1, <2>2
<1>16. BackupTypeOK'
  BY <1>0, <1>1, <1>9, <1>10 DEF BackupTypeOK, Message
<1>17. JobShape'
  BY <1>0, <1>1, <1>7 DEF JobShape, Running
<1> QED BY <1>2, <1>3, <1>14, <1>15, <1>16, <1>17 DEF BackupInv

\* A step of a running job.
LEMMA JobKeeps ==
  ASSUME BackupInv, NEW j \in Job, Works(j) \/ Tick(j)
  PROVE  BackupInv'
<1>0. BackupTypeOK /\ JobShape
  BY DEF BackupInv
<1>1. CASE Tick(j)
  <2> DEFINE ms == <<"busy">>
  <2>1. Running(j) /\ Send(j, stage[j], ms) /\ UNCHANGED <<file, db, files>>
    BY <1>1 DEF Tick, Running, dataVars
  <2>2. /\ ms \in Seq(Message)
        /\ \A i \in 1 .. Len(ms) : ms[i] \notin Last /\ ms[i] # "reset" /\ ms[i] # "ok"
    BY Messages DEF Last
  <2> HIDE DEF ms
  <2>3. /\ stage[j] \in {"dump", "load"}
        /\ stage[j] = "dump" => kind[j] = "backup" /\ file'[j] \in File
        /\ stage[j] \in {"drop", "load"} => kind[j] = "restore"
    BY <1>0, <1>1, <2>1 DEF JobShape, Tick
  <2>4. /\ file' \in [Job -> File \cup {None}] /\ db' \in [Key -> Data]
        /\ files' \in [File -> Data \cup {"torn", None}]
    BY <1>0, <2>1 DEF BackupTypeOK
  <2> QED BY <2>1, <2>2, <2>3, <2>4, SendKeeps
<1>2. CASE DialFails(j)
  <2> DEFINE ms == <<"err">>
  <2>1. Running(j) /\ Send(j, "over", ms) /\ UNCHANGED <<file, db, files>>
    BY <1>2 DEF DialFails, Running, dataVars
  <2>2. /\ ms \in Seq(Message)
        /\ \A i \in 1 .. Len(ms) : i = Len(ms) /\ ms[i] # "reset" /\ ms[i] # "ok"
    BY Messages
  <2> HIDE DEF ms
  <2>3. /\ file' \in [Job -> File \cup {None}] /\ db' \in [Key -> Data]
        /\ files' \in [File -> Data \cup {"torn", None}]
    BY <1>0, <2>1 DEF BackupTypeOK
  <2> QED BY <2>1, <2>2, <2>3, SendKeeps
<1>3. CASE DumpStarts(j)
  <2> DEFINE ms == <<"busy">>
  <2>1. Running(j) /\ kind[j] = "backup" /\ Send(j, "dump", ms) /\ UNCHANGED db
    BY <1>3 DEF DumpStarts, Running
  <2>2. PICK f \in File : /\ file' = [file EXCEPT ![j] = f]
                          /\ files' = [files EXCEPT ![f] = "torn"]
    BY <1>3 DEF DumpStarts
  <2>3. /\ ms \in Seq(Message)
        /\ \A i \in 1 .. Len(ms) : ms[i] \notin Last /\ ms[i] # "reset" /\ ms[i] # "ok"
    BY Messages DEF Last
  <2> HIDE DEF ms
  <2>4. /\ file' \in [Job -> File \cup {None}] /\ db' \in [Key -> Data]
        /\ files' \in [File -> Data \cup {"torn", None}]
        /\ file'[j] \in File /\ \A i \in Job \ {j} : file'[i] = file[i]
    BY <1>0, <2>1, <2>2 DEF BackupTypeOK
  <2> QED BY <2>1, <2>3, <2>4, SendKeeps
<1>4. CASE DumpEnds(j)
  <2> DEFINE ms == <<"ok">>
  <2>1. /\ Running(j) /\ kind[j] = "backup" /\ file[j] \in File /\ base[j] \in Key
        /\ Send(j, "over", ms) /\ UNCHANGED <<file, db>>
        /\ files' = [files EXCEPT ![file[j]] = db[base[j]]]
    BY <1>0, <1>4 DEF DumpEnds, Running, JobShape
  <2>2. ms \in Seq(Message) /\ \A i \in 1 .. Len(ms) : i = Len(ms) /\ ms[i] # "reset"
    BY Messages
  <2> HIDE DEF ms
  <2>3. db[base[j]] \in Data /\ Data \cap {None, "torn"} = {} /\ None \notin File
    BY <1>0, <2>1, DataAreApart DEF BackupTypeOK, Data
  <2>4. /\ file' \in [Job -> File \cup {None}] /\ db' \in [Key -> Data]
        /\ files' \in [File -> Data \cup {"torn", None}]
        /\ file'[j] # None /\ files'[file'[j]] \notin {None, "torn"}
    BY <1>0, <2>1, <2>3 DEF BackupTypeOK
  <2> QED BY <2>1, <2>2, <2>4, SendKeeps
<1>5. CASE DumpFails(j)
  <2> DEFINE ms == <<"err">>
  <2>1. /\ Running(j) /\ kind[j] = "backup" /\ file[j] \in File
        /\ Send(j, "over", ms) /\ UNCHANGED <<file, db>>
        /\ files' \in {files, [files EXCEPT ![file[j]] = None]}
    BY <1>0, <1>5 DEF DumpFails, Running, JobShape
  <2>2. /\ ms \in Seq(Message)
        /\ \A i \in 1 .. Len(ms) : i = Len(ms) /\ ms[i] # "reset" /\ ms[i] # "ok"
    BY Messages
  <2> HIDE DEF ms
  <2>3. /\ file' \in [Job -> File \cup {None}] /\ db' \in [Key -> Data]
        /\ files' \in [File -> Data \cup {"torn", None}]
    BY <1>0, <2>1 DEF BackupTypeOK
  <2> QED BY <2>1, <2>2, <2>3, SendKeeps
<1>6. CASE DropStarts(j)
  <2> DEFINE ms == <<"busy">>
  <2>1. /\ Running(j) /\ kind[j] = "restore"
        /\ Send(j, "drop", ms) /\ UNCHANGED <<file, db, files>>
    BY <1>6 DEF DropStarts, Running, dataVars
  <2>2. /\ ms \in Seq(Message)
        /\ \A i \in 1 .. Len(ms) : ms[i] \notin Last /\ ms[i] # "reset" /\ ms[i] # "ok"
    BY Messages DEF Last
  <2> HIDE DEF ms
  <2>3. /\ file' \in [Job -> File \cup {None}] /\ db' \in [Key -> Data]
        /\ files' \in [File -> Data \cup {"torn", None}]
    BY <1>0, <2>1 DEF BackupTypeOK
  <2> QED BY <2>1, <2>2, <2>3, SendKeeps
<1>7. CASE DropEnds(j)
  <2> DEFINE ms == <<"reset", "busy">>
  <2>1. /\ Running(j) /\ kind[j] = "restore" /\ Send(j, "load", ms)
        /\ UNCHANGED <<file, files>> /\ db' = [db EXCEPT ![base[j]] = "empty"]
    BY <1>0, <1>7 DEF DropEnds, Running, JobShape
  <2>2. ms \in Seq(Message) /\ \A i \in 1 .. Len(ms) : ms[i] \notin Last
    BY Messages DEF Last
  <2> HIDE DEF ms
  <2>3. /\ file' \in [Job -> File \cup {None}] /\ db' \in [Key -> Data]
        /\ files' \in [File -> Data \cup {"torn", None}]
    BY <1>0, <2>1 DEF BackupTypeOK, Data
  <2> QED BY <2>1, <2>2, <2>3, SendKeeps
<1>8. CASE DropFails(j) \/ LoadEnds(j) \/ LoadFails(j)
  <2>1. /\ Running(j) /\ kind[j] = "restore" /\ base[j] \in Key /\ file[j] \in File
        /\ Send(j, "over", <<"err">>) \/ Send(j, "over", <<"ok">>)
        /\ UNCHANGED <<file, files>>
    BY <1>0, <1>8 DEF DropFails, LoadEnds, LoadFails, Running, JobShape
  <2>2. \E d \in Data : db' = [db EXCEPT ![base[j]] = d]
    BY <1>0, <1>8, <2>1 DEF DropFails, LoadEnds, LoadFails, BackupTypeOK, Data
  <2>3. PICK ms \in Seq(Message) :
          /\ Send(j, "over", ms)
          /\ \A i \in 1 .. Len(ms) : i = Len(ms)
    <3>1. ASSUME NEW ms \in Seq(Message), Len(ms) = 1
          PROVE  \A i \in 1 .. Len(ms) : i = Len(ms)
      BY <3>1
    <3>2. CASE Send(j, "over", <<"err">>)
      <4>1. <<"err">> \in Seq(Message)
        BY Messages
      <4> WITNESS <<"err">> \in Seq(Message)
      <4> QED BY <3>1, <3>2, Messages
    <3>3. CASE Send(j, "over", <<"ok">>)
      <4>1. <<"ok">> \in Seq(Message)
        BY Messages
      <4> WITNESS <<"ok">> \in Seq(Message)
      <4> QED BY <3>1, <3>3, Messages
    <3> QED BY <2>1, <3>2, <3>3
  <2>4. /\ file' \in [Job -> File \cup {None}] /\ db' \in [Key -> Data]
        /\ files' \in [File -> Data \cup {"torn", None}]
    BY <1>0, <2>1, <2>2 DEF BackupTypeOK
  <2> QED BY <2>1, <2>3, <2>4, SendKeeps
<1> QED BY <1>1, <1>2, <1>3, <1>4, <1>5, <1>6, <1>7, <1>8 DEF Works

------------------------------------------------------------------------------
(* Messages and timers *)

\* A message that is not a job's last one shows progress, or a schema reset; the
\* last one ends the job, and may start a timer.
LEMMA HandledKeeps == ASSUME BackupInv, NEW j \in Job, Handled(j) PROVE BackupInv'
<1> DEFINE m == Head(queue[j])
           last == m \in {"ok", "err"}
<1>0. BackupTypeOK /\ JobShape /\ QueueShape /\ OneBackup /\ TimersFit /\ CompleteIsWhole
  BY DEF BackupInv
<1>a. PICK a \in Kinds : a = kind[j]
  BY <1>0 DEF BackupTypeOK, QueueShape, JobShape, Handled
<1>1. /\ queue[j] # <<>>
      /\ queue' = [queue EXCEPT ![j] = Tail(queue[j])]
      /\ failed' = [failed EXCEPT ![a] = failed[a] \/ m = "err"]
      /\ complete' = [complete EXCEPT ![a] = m \in {"reset", "ok"}]
      /\ timers' = IF last /\ mode = Overlay(a) THEN [timers EXCEPT ![a] = timers[a] + 1] ELSE timers
      /\ IF last THEN Over(j) ELSE UNCHANGED <<stage, kind, base, file>>
      /\ UNCHANGED <<mode, chosen, db, files>>
  BY <1>a DEF Handled, dataVars
<1>2. /\ queue \in [Job -> Seq(Message)] /\ queue[j] \in Seq(Message)
      /\ stage[j] # "idle"
  BY <1>0, <1>1 DEF BackupTypeOK, Message, QueueShape, JobShape
<1>3. /\ m \in Message /\ m = queue[j][1] /\ Len(queue[j]) \in Nat /\ Len(queue[j]) >= 1
      /\ Tail(queue[j]) \in Seq(Message) /\ Len(Tail(queue[j])) = Len(queue[j]) - 1
      /\ \A i \in 1 .. Len(Tail(queue[j])) : Tail(queue[j])[i] = queue[j][i + 1]
  <2>1. Len(queue[j]) \in Nat /\ Len(queue[j]) # 0
    BY <1>1, <1>2, EmptySeq, LenProperties
  <2> QED BY <1>1, <1>2, <2>1, Tailed
<1>4. /\ queue'[j] = Tail(queue[j]) /\ \A i \in Job \ {j} : queue'[i] = queue[i]
      /\ queue' \in [Job -> Seq(Message)]
  BY <1>1, <1>2, <1>3
<1>5. \A i \in Job : Len(queue'[i]) <= MaxQueue
  <2>1. MaxQueue \in Nat /\ \A i \in Job : Len(queue[i]) <= MaxQueue
    BY <1>0, QueuesExist DEF BackupTypeOK
  <2>2. Len(queue'[j]) <= MaxQueue
    BY <1>3, <1>4, <2>1
  <2> QED BY <1>4, <2>1, <2>2
<1>6. \A i \in Job \ {j} : kind'[i] = kind[i] /\ stage'[i] = stage[i] /\ base'[i] = base[i] /\ file'[i] = file[i]
  BY <1>0, <1>1 DEF Over, BackupTypeOK
<1>7. \/ last /\ kind'[j] = None /\ stage'[j] = "idle" /\ file'[j] = None /\ base'[j] = None
      \/ ~ last /\ UNCHANGED <<stage, kind, base, file>>
  BY <1>0, <1>1 DEF Over, BackupTypeOK
<1>8. /\ stage' \in [Job -> {"idle", "dial", "dump", "drop", "load", "over"}]
      /\ kind' \in [Job -> Kinds \cup {None}]
      /\ base' \in [Job -> Key \cup {None}] /\ file' \in [Job -> File \cup {None}]
  BY <1>0, <1>1 DEF Over, BackupTypeOK
<1>9. last => Len(queue[j]) = 1
  <2>1. 1 \in 1 .. Len(queue[j]) /\ (last => queue[j][1] \in Last)
    BY <1>3 DEF Last
  <2> QED BY <1>0, <2>1 DEF QueueShape
<1> HIDE DEF last, m
<1>10. JobShape'
  BY <1>0, <1>6, <1>7, DataAreApart DEF JobShape, Kinds
<1>11. QueueShape'
  <2> SUFFICES ASSUME NEW i \in Job
               PROVE  /\ stage'[i] = "idle" => queue'[i] = <<>>
                      /\ \A n \in 1 .. Len(queue'[i]) :
                           /\ queue'[i][n] \in Last => stage'[i] = "over" /\ n = Len(queue'[i])
                           /\ kind'[i] = "backup" => queue'[i][n] # "reset"
    BY DEF QueueShape
  <2>1. CASE i # j
    BY <1>0, <1>4, <1>6, <2>1 DEF QueueShape
  <2>2. CASE i = j /\ last
    BY <1>3, <1>4, <1>9, <2>2, EmptySeq
  <2>3. CASE i = j /\ ~ last
    <3>1. \A n \in 1 .. Len(queue'[j]) : n + 1 \in 1 .. Len(queue[j]) /\ queue'[j][n] = queue[j][n + 1]
      BY <1>3, <1>4
    <3>2. stage'[j] = stage[j] /\ kind'[j] = kind[j] /\ Len(queue'[j]) = Len(queue[j]) - 1
      BY <1>3, <1>4, <1>7, <2>3
    <3>3. ASSUME NEW n \in 1 .. Len(queue'[j])
          PROVE  /\ queue'[j][n] \in Last => stage[j] = "over" /\ n = Len(queue'[j])
                 /\ kind[j] = "backup" => queue'[j][n] # "reset"
      <4>1. n + 1 = Len(queue[j]) => n = Len(queue'[j])
        BY <1>3, <3>2
      <4> QED BY <1>0, <3>1, <4>1 DEF QueueShape
    <3> QED BY <1>2, <2>3, <3>2, <3>3
  <2> QED BY <2>1, <2>2, <2>3
<1>12. PickShape'
  BY <1>1 DEF BackupInv, PickShape
<1>13. OneBackup'
  <2> SUFFICES ASSUME NEW i \in Job, kind'[i] = "backup"
               PROVE  /\ mode' = "backup" /\ timers'["backup"] = 0
                      /\ ~ failed'["backup"] /\ ~ complete'["backup"]
                      /\ \A k \in Job : kind'[k] = "backup" => k = i
    BY DEF OneBackup
  <2>1. kind[i] = "backup" /\ \A k \in Job : kind'[k] = "backup" => kind[k] = "backup"
    BY <1>6, <1>7, DataAreApart
  <2>2. /\ mode = "backup" /\ timers["backup"] = 0 /\ ~ failed["backup"] /\ ~ complete["backup"]
        /\ \A k \in Job : kind[k] = "backup" => k = i
    BY <1>0, <2>1 DEF OneBackup
  <2>3. CASE i = j
    <3>1. ~ last /\ a = "backup"
      BY <1>a, <1>7, <2>1, <2>3, DataAreApart
    <3>2. m # "reset" /\ m \notin {"ok", "err"}
      BY <1>0, <1>3, <2>1, <2>3, <3>1 DEF QueueShape, last
    <3> QED BY <1>0, <1>1, <2>1, <2>2, <3>1, <3>2 DEF BackupTypeOK
  <2>4. CASE i # j
    <3>1. a # "backup"
      BY <1>a, <2>2, <2>4
    <3> QED BY <1>0, <1>1, <2>1, <2>2, <3>1 DEF BackupTypeOK
  <2> QED BY <2>3, <2>4
<1>14. CompleteIsWhole'
  <2> SUFFICES ASSUME NEW i \in Job, kind'[i] = "backup", NEW n \in DOMAIN queue'[i], queue'[i][n] = "ok"
               PROVE  file'[i] # None /\ files'[file'[i]] \notin {None, "torn"}
    BY DEF CompleteIsWhole
  <2>1. CASE i # j
    BY <1>0, <1>1, <1>4, <1>6, <2>1 DEF CompleteIsWhole
  <2>2. CASE i = j
    <3>1. ~ last /\ UNCHANGED <<stage, kind, base, file>>
      BY <1>7, <2>2, DataAreApart
    <3>2. n \in 1 .. Len(Tail(queue[j])) /\ Tail(queue[j])[n] = "ok"
      BY <1>3, <1>4, <2>2, LenProperties
    <3>3. n + 1 \in DOMAIN queue[j] /\ queue[j][n + 1] = "ok"
      BY <1>2, <1>3, <3>2, LenProperties
    <3> QED BY <1>0, <1>1, <2>2, <3>1, <3>3 DEF CompleteIsWhole
  <2> QED BY <2>1, <2>2
<1>15. timers' \in [Kinds -> Nat] /\ TimersFit'
  <2>1. timers \in [Kinds -> Nat] /\ Cardinality(Job) \in Nat
    BY <1>0, QueuesExist, FS_CardinalityType DEF BackupTypeOK
  <2>2. CASE last
    <3>1. Of(a)' = Of(a) \ {j} /\ j \in Of(a) /\ \A b \in Kinds \ {a} : Of(b)' = Of(b)
      BY <1>a, <1>6, <1>7, <2>2, DataAreApart DEF Of, Kinds
    <3>2. \A b : IsFiniteSet(Of(b)) /\ Cardinality(Of(b)) \in Nat
      BY QueuesExist, FS_Subset, FS_CardinalityType DEF Of
    <3>3. Cardinality(Of(a)') = Cardinality(Of(a)) - 1
      BY <3>1, <3>2, FS_RemoveElement
    <3>4. timers'[a] <= timers[a] + 1 /\ \A b \in Kinds \ {a} : timers'[b] = timers[b]
      BY <1>1, <1>2, <2>1
    <3>5. timers' \in [Kinds -> Nat]
      BY <1>1, <1>2, <2>1
    <3>6. ASSUME NEW b \in Kinds PROVE timers'[b] + Cardinality(Of(b)') <= Cardinality(Job)
      <4>1. timers[b] + Cardinality(Of(b)) <= Cardinality(Job)
        BY <1>0 DEF TimersFit
      <4>2. timers[b] \in Nat /\ timers'[b] \in Nat /\ Cardinality(Of(b)) \in Nat
        BY <2>1, <3>2, <3>5
      <4>3. CASE b = a
        BY <2>1, <3>3, <3>4, <4>1, <4>2, <4>3
      <4>4. CASE b # a
        <5>1. Of(b)' = Of(b) /\ timers'[b] = timers[b]
          BY <3>1, <3>4, <4>4
        <5> QED BY <4>1, <5>1
      <4> QED BY <4>3, <4>4
    <3> QED BY <3>5, <3>6 DEF TimersFit
  <2>3. CASE ~ last
    <3>1. UNCHANGED timers /\ \A b : Of(b)' = Of(b)
      BY <1>1, <1>7, <2>3 DEF Of
    <3> QED BY <1>0, <2>1, <3>1 DEF TimersFit
  <2> QED BY <2>2, <2>3
<1>16. timers' \in [Kinds -> 0 .. Cardinality(Job)]
  <2>1. \A b \in Kinds : Cardinality(Of(b)') \in Nat
    BY QueuesExist, FS_Subset, FS_CardinalityType DEF Of
  <2> QED BY <1>15, <2>1, QueuesExist, FS_CardinalityType DEF TimersFit
<1>17. failed' \in [Kinds -> BOOLEAN] /\ complete' \in [Kinds -> BOOLEAN]
  BY <1>0, <1>1 DEF BackupTypeOK
<1>18. mode' = mode /\ chosen' = chosen /\ db' = db /\ files' = files
  BY <1>1
<1>19. BackupTypeOK'
  BY <1>0, <1>4, <1>5, <1>8, <1>16, <1>17, <1>18 DEF BackupTypeOK, Message
<1> QED BY <1>10, <1>11, <1>12, <1>13, <1>14, <1>15, <1>19 DEF BackupInv

\* No timer that closes the overlay of backups is pending while there is one.
LEMMA TimerKeeps == ASSUME BackupInv, NEW a \in Kinds, TimerFires(a) PROVE BackupInv'
<1>0. BackupTypeOK /\ JobShape /\ QueueShape /\ OneBackup /\ TimersFit /\ CompleteIsWhole
  BY DEF BackupInv
<1>1. /\ timers[a] > 0 /\ timers' = [timers EXCEPT ![a] = timers[a] - 1]
      /\ mode' = IF mode = Overlay(a) THEN "normal" ELSE mode
      /\ UNCHANGED <<chosen, failed, complete, kind, stage, base, file, queue, db, files>>
  BY DEF TimerFires, jobVars, dataVars
<1>2. BackupTypeOK'
  BY <1>0, <1>1, QueuesExist, FS_CardinalityType DEF BackupTypeOK
<1>3. JobShape' /\ QueueShape' /\ CompleteIsWhole'
  BY <1>0, <1>1 DEF JobShape, QueueShape, CompleteIsWhole
<1>4. PickShape'
  BY <1>1 DEF BackupInv, PickShape
<1>5. OneBackup'
  <2> SUFFICES ASSUME NEW j \in Job, kind[j] = "backup"
               PROVE  mode' = "backup" /\ timers'["backup"] = 0
    BY <1>0, <1>1 DEF OneBackup
  <2>1. mode = "backup" /\ timers["backup"] = 0
    BY <1>0 DEF OneBackup
  <2>2. a = "restore"
    BY <1>1, <2>1 DEF Kinds
  <2> QED BY <1>0, <1>1, <2>1, <2>2 DEF BackupTypeOK, Overlay
<1>6. TimersFit'
  <2>1. \A b : Of(b)' = Of(b) /\ Cardinality(Of(b)) \in Nat
    BY <1>1, QueuesExist, FS_Subset, FS_CardinalityType DEF Of
  <2>2. \A b \in Kinds : timers'[b] <= timers[b] /\ timers[b] \in Nat /\ timers'[b] \in Nat
    BY <1>0, <1>1, QueuesExist, FS_CardinalityType DEF BackupTypeOK
  <2>3. Cardinality(Job) \in Nat
    BY QueuesExist, FS_CardinalityType
  <2> QED BY <1>0, <2>1, <2>2, <2>3 DEF TimersFit
<1> QED BY <1>2, <1>3, <1>4, <1>5, <1>6 DEF BackupInv

------------------------------------------------------------------------------
(* Keys *)

\* A job is started where no backup runs: in the normal mode, or when a restore is
\* confirmed.
LEMMA BeginKeeps ==
  ASSUME BackupInv, NEW j \in Job,
         \/ timers["backup"] = 0 /\ StartBackup(j)
         \/ timers["restore"] = 0 /\ StartRestore(j)
  PROVE  BackupInv'
<1>0. BackupTypeOK /\ JobShape /\ QueueShape /\ OneBackup /\ TimersFit /\ CompleteIsWhole /\ PickShape
  BY DEF BackupInv
<1>1. PICK a \in Kinds, f \in File \cup {None} :
        /\ timers[a] = 0 /\ Begin(j, a, f) /\ (a = "restore" => f \in File)
        /\ mode' \in {"backup", "restoring"} /\ (a = "backup" => mode' = "backup")
        /\ chosen' \in File \cup {None}
        /\ mode # "backup"
  BY <1>0 DEF StartBackup, StartRestore, PickShape, Kinds, BackupTypeOK
<1>2. PICK k \in Key :
        /\ stage[j] = "idle" /\ kind' = [kind EXCEPT ![j] = a] /\ stage' = [stage EXCEPT ![j] = "dial"]
        /\ base' = [base EXCEPT ![j] = k] /\ file' = [file EXCEPT ![j] = f]
        /\ queue' = [queue EXCEPT ![j] = <<"busy">>]
        /\ failed' = [failed EXCEPT ![a] = FALSE] /\ complete' = [complete EXCEPT ![a] = FALSE]
        /\ UNCHANGED <<timers, db, files>>
  BY <1>1 DEF Begin, dataVars
<1>3. \A i \in Job : kind[i] # "backup"
  BY <1>0, <1>1 DEF OneBackup
<1>4. queue \in [Job -> Seq(Message)]
  BY <1>0 DEF BackupTypeOK, Message
<1>5. /\ queue' \in [Job -> Seq(Message)] /\ queue'[j] \in Seq(Message)
      /\ Len(queue'[j]) = 1 /\ queue'[j][1] = "busy"
      /\ \A i \in Job \ {j} : queue'[i] = queue[i]
  BY <1>2, <1>4, Messages
<1>6. /\ kind'[j] = a /\ stage'[j] = "dial" /\ base'[j] = k /\ file'[j] = f
      /\ \A i \in Job \ {j} : kind'[i] = kind[i] /\ stage'[i] = stage[i] /\ base'[i] = base[i] /\ file'[i] = file[i]
  BY <1>0, <1>2 DEF BackupTypeOK
<1>7. \A i \in Job : Len(queue'[i]) <= MaxQueue
  <2>1. MaxQueue \in Nat \ {0} /\ \A i \in Job : Len(queue[i]) <= MaxQueue
    BY <1>0, QueuesExist DEF BackupTypeOK
  <2>2. Len(queue'[j]) <= MaxQueue
    BY <1>5, <2>1
  <2> QED BY <1>5, <2>1, <2>2
<1>8. BackupTypeOK'
  BY <1>0, <1>1, <1>2, <1>5, <1>7 DEF BackupTypeOK, Message
<1>9. JobShape' /\ PickShape'
  <2>1. a # None
    BY DataAreApart DEF Kinds
  <2> QED BY <1>0, <1>1, <1>6, <2>1 DEF JobShape, PickShape
<1>10. QueueShape'
  <2>1. \A n \in 1 .. Len(queue'[j]) : queue'[j][n] \notin Last /\ queue'[j][n] # "reset"
    BY <1>5 DEF Last
  <2> QED BY <1>0, <1>5, <1>6, <2>1 DEF QueueShape
<1>11. OneBackup'
  <2> SUFFICES ASSUME NEW i \in Job, kind'[i] = "backup"
               PROVE  /\ mode' = "backup" /\ timers'["backup"] = 0
                      /\ ~ failed'["backup"] /\ ~ complete'["backup"]
                      /\ \A n \in Job : kind'[n] = "backup" => n = i
    BY DEF OneBackup
  <2>1. i = j /\ a = "backup"
    BY <1>3, <1>6
  <2> QED BY <1>0, <1>1, <1>2, <1>3, <1>6, <2>1 DEF BackupTypeOK
<1>12. CompleteIsWhole'
  <2>1. \A n \in DOMAIN queue'[j] : queue'[j][n] # "ok"
    BY <1>5, LenProperties
  <2> QED BY <1>3, <1>6, <2>1 DEF CompleteIsWhole
<1>13. TimersFit'
  <2>1. \A b \in Kinds \ {a} : Of(b)' = Of(b)
    <3>1. \A b \in Kinds : kind[j] # b
      BY <1>0, <1>2, DataAreApart DEF JobShape, Kinds
    <3> QED BY <1>6, <3>1 DEF Of
  <2>2. Of(a)' \subseteq Job
    BY DEF Of
  <2>3. Cardinality(Of(a)') <= Cardinality(Job) /\ Cardinality(Of(a)') \in Nat /\ Cardinality(Job) \in Nat
    BY <2>2, QueuesExist, FS_Subset, FS_CardinalityType
  <2>4. timers'[a] + Cardinality(Of(a)') <= Cardinality(Job)
    BY <1>1, <1>2, <2>3
  <2>5. ASSUME NEW b \in Kinds \ {a} PROVE timers'[b] + Cardinality(Of(b)') <= Cardinality(Job)
    <3>1. timers'[b] = timers[b] /\ Of(b)' = Of(b)
      BY <1>2, <2>1
    <3> QED BY <1>0, <3>1 DEF TimersFit
  <2> QED BY <2>4, <2>5 DEF TimersFit
<1> QED BY <1>8, <1>9, <1>10, <1>11, <1>12, <1>13 DEF BackupInv

\* The other keys leave the overlay of a backup alone while there is one.
LEMMA KeysKeep == ASSUME BackupInv, Keys PROVE BackupInv'
<1>0. BackupTypeOK /\ JobShape /\ QueueShape /\ OneBackup /\ TimersFit /\ CompleteIsWhole /\ PickShape
  BY DEF BackupInv
<1>1. /\ UNCHANGED <<complete, timers, kind, stage, base, file, queue, db, files>>
      /\ failed' \in {failed, [failed EXCEPT !["restore"] = FALSE]}
      /\ mode' \in {"normal", "picker", "confirm"} /\ chosen' \in File \cup {None}
      /\ mode' = "confirm" => chosen' \in File
      /\ mode = "backup" => failed["backup"] \/ complete["backup"]
  BY <1>0 DEF Keys, OpenPicker, Choose, Esc, jobVars, dataVars, BackupTypeOK
<1>2. BackupTypeOK'
  BY <1>0, <1>1 DEF BackupTypeOK, Kinds
<1>3. JobShape' /\ QueueShape' /\ CompleteIsWhole' /\ PickShape'
  BY <1>0, <1>1 DEF JobShape, QueueShape, CompleteIsWhole, PickShape
<1>4. OneBackup'
  BY <1>0, <1>1 DEF OneBackup
<1>5. TimersFit'
  <2>1. \A b : Of(b)' = Of(b)
    BY <1>1 DEF Of
  <2> QED BY <1>0, <1>1, <2>1 DEF TimersFit
<1> QED BY <1>2, <1>3, <1>4, <1>5 DEF BackupInv

------------------------------------------------------------------------------

\* BackupInv is inductive.
LEMMA BackupStep == BackupInv /\ [CalmNext]_bkVars => BackupInv'
<1> SUFFICES ASSUME BackupInv, [CalmNext]_bkVars PROVE BackupInv'
  OBVIOUS
<1>1. CASE Jobs
  BY <1>1, JobKeeps, HandledKeeps DEF Jobs
<1>2. CASE Keys
  BY <1>2, KeysKeep
<1>3. CASE \E a \in Kinds : TimerFires(a)
  BY <1>3, TimerKeeps
<1>4. CASE \E j \in Job : \/ timers["backup"] = 0 /\ StartBackup(j)
                          \/ timers["restore"] = 0 /\ StartRestore(j)
  BY <1>4, BeginKeeps
<1>5. CASE UNCHANGED bkVars
  <2>1. \A b : Of(b)' = Of(b)
    BY <1>5 DEF Of, bkVars, jobVars
  <2> QED BY <1>5, <2>1 DEF BackupInv, BackupTypeOK, JobShape, QueueShape, PickShape, OneBackup,
             CompleteIsWhole, TimersFit, bkVars, uiVars, jobVars, dataVars
<1> QED BY <1>1, <1>2, <1>3, <1>4, <1>5 DEF CalmNext

LEMMA BackupSafe == CalmSpec => []BackupInv
BY BackupStart, BackupStep, PTL DEF CalmSpec

\* A running backup is watched: while performBackup goes on, the overlay of the
\* backup is shown, whatever fails, is pressed or times out; it needs the two
\* seconds of the timers to pass before the next backup.
THEOREM BackupWatched == CalmSpec => []BackupIsWatched
<1>1. BackupInv => BackupIsWatched
  BY DEF BackupInv, OneBackup, BackupIsWatched
<1> QED BY <1>1, BackupSafe, PTL

\* When performBackup says that a backup is complete the file it wrote is there
\* and was closed after all of the dump.
THEOREM BackupWhole == CalmSpec => []CompleteIsWhole
<1>1. BackupInv => CompleteIsWhole
  BY DEF BackupInv
<1> QED BY <1>1, BackupSafe, PTL

\* No channel holds more than it can, and no more timers are pending than there
\* were jobs to start them.
THEOREM BackupTyped == CalmSpec => []BackupTypeOK
<1>1. BackupInv => BackupTypeOK
  BY DEF BackupInv
<1> QED BY <1>1, BackupSafe, PTL
===============================================================================
