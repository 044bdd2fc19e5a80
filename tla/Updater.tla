------------------------------- MODULE Updater -------------------------------
(***************************************************************************)
(* The self-update of updater.go: a running program asks once whether a    *)
(* newer release is there, and on a key fetches it and puts it in the      *)
(* place of its own executable, by files it creates, renames and removes   *)
(* next to it.  Several programs may run from one executable, and a        *)
(* program may be stopped between any two steps.                           *)
(*                                                                         *)
(* A file is an image: of which release, and whether it is what was built. *)
(* Renaming replaces the file of the new name, as in POSIX.                *)
(*                                                                         *)
(* As in SshPool, a definition without a comment right before another one  *)
(* is that one with a bug that a property named in PROJECT.json catches.   *)
(***************************************************************************)
EXTENDS Naturals

CONSTANTS Program,  \* processes
          Temp,     \* names of temporary files
          Release,  \* releases, and Dev
          NameOf,   \* the three numbers in the name of each release
          Signed,   \* releases with checksums and their signature
          Dev,      \* what was built without a release
          None

ASSUME ReleasesAreNamed ==
  /\ NameOf \in [Release -> [1 .. 3 -> Nat]]
  /\ Dev \in Release /\ Signed \subseteq Release
  /\ None \notin Release \cup Temp

VARIABLES latest,   \* what the server calls the latest release
          exec,     \* the executable
          bak,      \* the executable with the suffix .bak
          temp,     \* the temporary files
          version,  \* what each program was built from, None when it is not running
          asked,    \* its answer to checkForUpdate is to come
          avail,    \* m.updateAvailable
          job,      \* how far performUpdate is; m.updating is job # "none"
          got,      \* the archive it has fetched, or the binary of it
          mine,     \* its temporary file
          left,     \* ghost: temporary files nobody will remove any more
          mishaps   \* ghost: events that promises make an exception of

diskVars    == <<exec, bak, temp>>
progVars    == <<version, asked, avail, job, got, mine>>
ghostVars   == <<left, mishaps>>
updaterVars == <<latest, diskVars, progVars, ghostVars>>

Image   == [release : Release, good : BOOLEAN]

ASSUME NoneIsNoImage == None \notin Image

Swaps   == {"in", "back"}                       \* between the two renames
Writes  == {"write", "clear", "away"} \cup Swaps
Working == {"fetch", "open", "create", "clean"} \cup Writes

\* "together": two programs ran at once.  "stuck": the executable could not be
\* renamed back.  "stopped": a program was stopped between the two renames.
\* "torn": what was written was lost by the close of the file.  "bared": a backup
\* was removed while there was no executable.
Mishaps == {"together", "stuck", "stopped", "torn", "bared"}

UpdaterTypeOK ==
  /\ latest \in Release \ {Dev}
  /\ exec \in Image \cup {None} /\ bak \in Image \cup {None}
  /\ temp \in [Temp -> Image \cup {None}]
  /\ version \in [Program -> Release \cup {None}]
  /\ asked \in [Program -> BOOLEAN]
  /\ avail \in [Program -> Release \cup {None}]
  /\ job \in [Program -> Working \cup {"none", "ok", "failed"}]
  /\ got \in [Program -> Image \cup {None}]
  /\ mine \in [Program -> Temp \cup {None}]
  /\ left \subseteq Temp /\ mishaps \subseteq Mishaps
  /\ \A p \in Program :
       /\ job[p] # "none" => version[p] # None /\ avail[p] # None
       /\ mine[p] # None <=> job[p] \in Writes
       /\ job[p] \in Writes => got[p] # None

UpdaterInit ==
  /\ latest \in Release \ {Dev}
  /\ exec \in [release : Release, good : {TRUE}] /\ bak = None
  /\ temp = [t \in Temp |-> None]
  /\ version = [p \in Program |-> None]
  /\ asked = [p \in Program |-> FALSE]
  /\ avail = [p \in Program |-> None]
  /\ job = [p \in Program |-> "none"]
  /\ got = [p \in Program |-> None]
  /\ mine = [p \in Program |-> None]
  /\ left = {} /\ mishaps = {}

\* The first number in which two names differ decides.
IsNewer(c, r) ==
  \E i \in 1 .. 3 :
    /\ NameOf[c][i] > NameOf[r][i]
    /\ \A j \in 1 .. i - 1 : NameOf[c][j] = NameOf[r][j]

------------------------------------------------------------------------------
(* A program *)

Publish ==
  /\ latest' \in Release \ {Dev, latest}
  /\ UNCHANGED <<diskVars, progVars, ghostVars>>

\* The program starts and sends its question.
Start(p) ==
  /\ version[p] = None /\ exec # None /\ exec.good
  /\ version' = [version EXCEPT ![p] = exec.release]
  /\ asked' = [asked EXCEPT ![p] = exec.release # Dev]
  /\ mishaps' = mishaps \cup
       (IF \E q \in Program : version[q] # None THEN {"together"} ELSE {})
  /\ UNCHANGED <<latest, diskVars, avail, job, got, mine, left>>

\* A release that is newer is available.  There is no answer on an error.
CheckForUpdate(p) ==
  /\ asked[p]
  /\ asked' = [asked EXCEPT ![p] = FALSE]
  /\ \/ avail' = [avail EXCEPT ![p] = IF IsNewer(latest, version[p]) THEN latest ELSE @]
     \/ avail' = avail
  /\ UNCHANGED <<latest, diskVars, version, job, got, mine, ghostVars>>

UpdateUnasked(p) ==
  /\ version[p] # None /\ job[p] = "none"
  /\ job' = [job EXCEPT ![p] = "fetch"]
  /\ UNCHANGED <<latest, diskVars, version, asked, avail, got, mine, ghostVars>>

\* u
Update(p) ==
  /\ avail[p] # None /\ job[p] = "none"
  /\ job' = [job EXCEPT ![p] = "fetch"]
  /\ UNCHANGED <<latest, diskVars, version, asked, avail, got, mine, ghostVars>>

\* The program is killed, or left: nothing waits for an update.
Stop(p) ==
  /\ version[p] # None
  /\ version' = [version EXCEPT ![p] = None]
  /\ asked' = [asked EXCEPT ![p] = FALSE]
  /\ avail' = [avail EXCEPT ![p] = None]
  /\ job' = [job EXCEPT ![p] = "none"]
  /\ got' = [got EXCEPT ![p] = None]
  /\ mine' = [mine EXCEPT ![p] = None]
  /\ left' = left \cup ({mine[p]} \ {None})
  /\ mishaps' = mishaps \cup (IF job[p] \in Swaps THEN {"stopped"} ELSE {})
  /\ UNCHANGED <<latest, diskVars>>

------------------------------------------------------------------------------
(* The update *)

\* p's job goes on at s, with the temporary file t.
Step(p, s, t) ==
  /\ job' = [job EXCEPT ![p] = s]
  /\ mine' = [mine EXCEPT ![p] = t]
  /\ UNCHANGED <<latest, version, asked, avail>>

\* What verifySigstoreBundle and verifyChecksum let pass.
Trusted(image) == image.release \in Signed => image.good

\* The archive of the release that was available.
Fetched(p) ==
  /\ job[p] = "fetch"
  /\ \E image \in [release : {avail[p]}, good : BOOLEAN] :
       /\ Trusted(image)
       /\ got' = [got EXCEPT ![p] = image]
  /\ Step(p, "open", None)
  /\ UNCHANGED <<diskVars, ghostVars>>

\* The server does not answer, or what it sends is not accepted.
FetchFails(p) ==
  /\ job[p] = "fetch"
  /\ Step(p, "failed", None)
  /\ UNCHANGED <<diskVars, got, ghostVars>>

\* The binary is taken out of the archive, which may be of the wrong kind or not
\* hold it.
Open(p) ==
  /\ job[p] = "open"
  /\ Step(p, "create", None)
  /\ UNCHANGED <<diskVars, got, ghostVars>>

OpenFails(p) ==
  /\ job[p] = "open"
  /\ Step(p, "failed", None)
  /\ UNCHANGED <<diskVars, got, ghostVars>>

\* os.CreateTemp: a file that is not written yet is no good.
Create(p) ==
  /\ job[p] = "create"
  /\ \E t \in Temp :
       /\ temp[t] = None
       /\ temp' = [temp EXCEPT ![t] = [got[p] EXCEPT !.good = FALSE]]
       /\ Step(p, "write", t)
  /\ UNCHANGED <<exec, bak, got, ghostVars>>

CreateFails(p) ==
  /\ job[p] = "create"
  /\ Step(p, "failed", None)
  /\ UNCHANGED <<diskVars, got, ghostVars>>

\* The binary is written, and made executable.  That closing the file may fail,
\* and what was written be lost, is not looked at.
Write(p) ==
  /\ job[p] = "write"
  /\ \/ /\ temp' = [temp EXCEPT ![mine[p]] = got[p]]
        /\ mishaps' = mishaps
     \/ /\ temp' = [temp EXCEPT ![mine[p]] = [got[p] EXCEPT !.good = FALSE]]
        /\ mishaps' = mishaps \cup {"torn"}
  /\ Step(p, "clear", mine[p])
  /\ UNCHANGED <<exec, bak, got, left>>

RemoveNothing(p) == UNCHANGED <<temp, left>>

\* os.Remove(tmpPath), whose error is not looked at.
RemoveTemp(p) ==
  \/ temp' = [temp EXCEPT ![mine[p]] = None] /\ UNCHANGED left
  \/ left' = left \cup {mine[p]} /\ UNCHANGED temp

\* os.Remove(backupPath), of which the same is true.
RemoveBackup ==
  \/ UNCHANGED <<bak, mishaps>>
  \/ /\ bak' = None
     /\ mishaps' = mishaps \cup (IF bak # None /\ exec = None THEN {"bared"} ELSE {})

WriteFails(p) ==
  /\ job[p] = "write"
  /\ RemoveTemp(p)
  /\ Step(p, "failed", None)
  /\ UNCHANGED <<exec, bak, got, mishaps>>

\* A previous backup is removed, whatever it is the backup of.
Clear(p) ==
  /\ job[p] = "clear"
  /\ RemoveBackup
  /\ Step(p, "away", mine[p])
  /\ UNCHANGED <<exec, temp, got, left>>

\* os.Rename(execPath, backupPath)
PutAway(p) ==
  /\ job[p] = "away" /\ exec # None
  /\ bak' = exec /\ exec' = None
  /\ Step(p, "in", mine[p])
  /\ UNCHANGED <<temp, got, ghostVars>>

PutAwayFails(p) ==
  /\ job[p] = "away"
  /\ RemoveTemp(p)
  /\ Step(p, "failed", None)
  /\ UNCHANGED <<exec, bak, got, mishaps>>

\* os.Rename(tmpPath, execPath)
MoveIn(p) ==
  /\ job[p] = "in"
  /\ exec' = temp[mine[p]] /\ temp' = [temp EXCEPT ![mine[p]] = None]
  /\ Step(p, "clean", None)
  /\ UNCHANGED <<bak, got, ghostVars>>

MoveInFails(p) ==
  /\ job[p] = "in"
  /\ Step(p, "back", mine[p])
  /\ UNCHANGED <<diskVars, got, ghostVars>>

BackLazily(p) ==
  /\ job[p] = "back"
  /\ RemoveTemp(p)
  /\ Step(p, "failed", None)
  /\ UNCHANGED <<exec, bak, got, mishaps>>

BackInsists(p) ==
  /\ job[p] = "back" /\ bak # None
  /\ exec' = bak /\ bak' = None
  /\ RemoveTemp(p)
  /\ Step(p, "failed", None)
  /\ UNCHANGED <<got, mishaps>>

\* The backup is renamed to the executable, if that works, and the temporary file
\* removed.
Back(p) ==
  /\ job[p] = "back"
  /\ \/ /\ bak # None
        /\ exec' = bak /\ bak' = None
        /\ mishaps' = mishaps
     \/ /\ mishaps' = mishaps \cup {"stuck"}
        /\ UNCHANGED <<exec, bak>>
  /\ RemoveTemp(p)
  /\ Step(p, "failed", None)
  /\ UNCHANGED got

\* The backup is removed.
Clean(p) ==
  /\ job[p] = "clean"
  /\ RemoveBackup
  /\ Step(p, "ok", None)
  /\ UNCHANGED <<exec, temp, got, left>>

DoneStillAvailable(p) ==
  /\ job[p] \in {"ok", "failed"}
  /\ job' = [job EXCEPT ![p] = "none"]
  /\ got' = [got EXCEPT ![p] = None]
  /\ UNCHANGED <<latest, diskVars, version, asked, avail, mine, ghostVars>>

\* updateDoneMsg: after a failure the update may be tried again.
Done(p) ==
  /\ job[p] \in {"ok", "failed"}
  /\ job' = [job EXCEPT ![p] = "none"]
  /\ got' = [got EXCEPT ![p] = None]
  /\ avail' = [avail EXCEPT ![p] = IF job[p] = "ok" THEN None ELSE @]
  /\ UNCHANGED <<latest, diskVars, version, asked, mine, ghostVars>>

------------------------------------------------------------------------------
InstallNext(p) ==
  \/ Open(p) \/ OpenFails(p) \/ Create(p) \/ CreateFails(p) \/ Write(p) \/ WriteFails(p)
  \/ Clear(p) \/ PutAway(p) \/ PutAwayFails(p)
  \/ MoveIn(p) \/ MoveInFails(p) \/ Back(p) \/ Clean(p)

JobNext(p) == Fetched(p) \/ FetchFails(p) \/ InstallNext(p) \/ Done(p)

UserNext(p) == Start(p) \/ CheckForUpdate(p) \/ Update(p) \/ Stop(p)

UpdaterNext == Publish \/ \E p \in Program : UserNext(p) \/ JobNext(p)

UpdaterSpec == UpdaterInit /\ [][UpdaterNext]_updaterVars

\* The goroutine of an update goes on: downloads time out, the disk answers.
FairUpdaterSpec ==
  UpdaterSpec /\ \A p \in Program : WF_updaterVars(JobNext(p))

------------------------------------------------------------------------------
(* Properties *)

\* What an update may leave, however its steps fail and wherever programs stop.
\* What failed its checksum is not installed, nor kept as a backup, unless the error
\* that is not looked at, of closing the temporary file, spoiled what had passed it.
\* The executable is gone only between the two renames, unless two programs ran at
\* once, one was stopped there, or the rename back failed.  Even then its backup is
\* there until one is removed: by another program, or, when the rename back failed,
\* by the next try, whose first step that is.
ProgramKept ==
  /\ "torn" \notin mishaps => \A image \in {exec, bak} \ {None} : Trusted(image)
  /\ mishaps \subseteq {"torn"} => exec # None \/ \E p \in Program : job[p] \in Swaps
  /\ "bared" \notin mishaps => exec # None \/ bak # None
  /\ "bared" \in mishaps => mishaps \cap {"together", "stuck"} # {}

\* Every temporary file belongs to an update that is under way, which writes to
\* no other, or was left by a program that was stopped or could not remove it: no
\* way out forgets it.
TempsAreOwned ==
  \A t \in Temp :
    /\ temp[t] # None <=> t \in left \/ \E p \in Program : mine[p] = t
    /\ \A p, q \in Program : mine[p] = t /\ mine[q] = t => p = q

\* What is installed is newer than what it replaces, though the release was chosen
\* when the program started, and u may be pressed again and again.  (Of two programs
\* that run at once, one may put an older release in the place of the other's.)
OnlyUpgrades ==
  [][\A p \in Program :
       MoveIn(p) /\ "together" \notin mishaps => IsNewer(exec'.release, bak.release)]_updaterVars

\* An update ends and is reported, or its program does: u works again.
UpdateAnswered ==
  \A p \in Program : job[p] # "none" ~> job[p] = "none"
==============================================================================
