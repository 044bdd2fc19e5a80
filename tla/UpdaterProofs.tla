----------------------------- MODULE UpdaterProofs -----------------------------
(***************************************************************************)
(* Proofs about Updater, for every set of programs, temporary names and    *)
(* releases, with any of them signed: what an update may do to the program *)
(* on the disk, to its files, and to the version that is installed.        *)
(*                                                                         *)
(* The three invariants build on each other: a temporary file has one      *)
(* owner, so that what was verified is what is moved in; a program that    *)
(* runs alone finds the disk as it left it; so what it installs is newer.  *)
(***************************************************************************)
EXTENDS Updater, TLAPS

\* A temporary file that is written holds what was fetched and verified, or what
\* the close of the file made of it.
Verified ==
  /\ "torn" \notin mishaps => \A image \in {exec, bak} \ {None} : Trusted(image)
  /\ \A p \in Program :
       /\ got[p] # None => Trusted(got[p]) /\ got[p].release = avail[p]
       /\ job[p] \in {"open", "create"} => got[p] # None
       /\ job[p] \in Writes \ {"write"} =>
            /\ temp[mine[p]] # None /\ temp[mine[p]].release = got[p].release
            /\ "torn" \notin mishaps => temp[mine[p]] = got[p]

\* A program asks once, and an update needs an answer.
AskedOnce ==
  \A p \in Program :
    /\ asked[p] => version[p] # None /\ avail[p] = None
    /\ avail[p] # None => version[p] # None
    /\ got[p] # None => job[p] # "none"

\* A name of a file that was left is not used again.
LeftUnused == \A p \in Program : mine[p] \notin left

FileInv == UpdaterTypeOK /\ TempsAreOwned /\ LeftUnused /\ AskedOnce /\ Verified

LEMMA FileInit == UpdaterInit => FileInv
<1> SUFFICES ASSUME UpdaterInit PROVE FileInv
  OBVIOUS
<1> USE ReleasesAreNamed, NoneIsNoImage
<1>1. UpdaterTypeOK
  BY DEF UpdaterInit, UpdaterTypeOK, Image, Writes, Swaps, Working
<1>2. TempsAreOwned /\ LeftUnused
  BY DEF UpdaterInit, TempsAreOwned, LeftUnused
<1>3. AskedOnce /\ Verified
  BY DEF UpdaterInit, AskedOnce, Verified, Trusted, Writes, Swaps
<1> QED BY <1>1, <1>2, <1>3 DEF FileInv

\* The owner of a temporary file is the only one who removes it, or leaves it.
LEMMA TempRemoved ==
  ASSUME FileInv, NEW p \in Program, mine[p] # None, RemoveTemp(p),
         mine' = [mine EXCEPT ![p] = None]
  PROVE  TempsAreOwned' /\ LeftUnused'
<1>0. None \notin Temp /\ UpdaterTypeOK /\ TempsAreOwned /\ LeftUnused
  BY ReleasesAreNamed DEF FileInv
<1>1. mine[p] \in Temp
  BY <1>0 DEF UpdaterTypeOK
<1>2. \A q \in Program \ {p} : mine'[q] = mine[q]
  BY <1>0 DEF UpdaterTypeOK
<1>3. mine'[p] = None
  BY <1>0 DEF UpdaterTypeOK
<1>4. /\ \/ temp'[mine[p]] = None /\ left' = left
         \/ temp'[mine[p]] # None /\ left' = left \cup {mine[p]}
      /\ \A t \in Temp \ {mine[p]} : temp'[t] = temp[t]
  BY <1>0, <1>1 DEF UpdaterTypeOK, RemoveTemp, TempsAreOwned
<1>5. \A q \in Program \ {p} : mine[q] # mine[p]
  BY <1>0, <1>1 DEF TempsAreOwned
<1>6. mine[p] \notin left
  BY <1>0 DEF LeftUnused
<1>7. TempsAreOwned'
  BY <1>0, <1>1, <1>2, <1>3, <1>4, <1>5, <1>6 DEF TempsAreOwned
<1>8. LeftUnused'
  BY <1>0, <1>2, <1>3, <1>4, <1>5 DEF LeftUnused, UpdaterTypeOK
<1> QED BY <1>7, <1>8

\* What a program does besides an update.
LEMMA UserFiles ==
  ASSUME FileInv, NEW p \in Program, UserNext(p)
  PROVE  FileInv'
<1> USE NoneIsNoImage DEF FileInv
<1>0. None \notin Release \cup Temp
  BY ReleasesAreNamed
<1>1. CASE Start(p)
  <2> USE <1>0, <1>1 DEF Start, diskVars
  <2>1. UpdaterTypeOK'
    BY DEF UpdaterTypeOK, Image, Mishaps
  <2>2. TempsAreOwned' /\ LeftUnused'
    BY DEF TempsAreOwned, LeftUnused
  <2>3. AskedOnce'
    BY DEF AskedOnce, UpdaterTypeOK, Image
  <2>4. Verified'
    BY DEF Verified, UpdaterTypeOK, Trusted
  <2> QED BY <2>1, <2>2, <2>3, <2>4
<1>2. CASE CheckForUpdate(p)
  <2> USE <1>0, <1>2 DEF CheckForUpdate, diskVars, ghostVars
  <2>1. UpdaterTypeOK'
    BY DEF UpdaterTypeOK, AskedOnce
  <2>2. TempsAreOwned' /\ LeftUnused'
    BY DEF TempsAreOwned, LeftUnused
  <2>3. AskedOnce'
    BY DEF AskedOnce, UpdaterTypeOK
  <2>4. Verified'
    BY DEF Verified, UpdaterTypeOK, AskedOnce, Trusted
  <2> QED BY <2>1, <2>2, <2>3, <2>4
<1>3. CASE Update(p)
  <2> USE <1>0, <1>3 DEF Update, diskVars, ghostVars
  <2>1. UpdaterTypeOK'
    BY DEF UpdaterTypeOK, AskedOnce, Working, Writes, Swaps
  <2>2. TempsAreOwned' /\ LeftUnused'
    BY DEF TempsAreOwned, LeftUnused
  <2>3. AskedOnce'
    BY DEF AskedOnce, UpdaterTypeOK
  <2>4. Verified'
    BY DEF Verified, UpdaterTypeOK, Trusted, Writes, Swaps
  <2> QED BY <2>1, <2>2, <2>3, <2>4
<1>4. CASE Stop(p)
  <2> USE <1>0, <1>4 DEF Stop, diskVars
  <2>1. UpdaterTypeOK'
    BY DEF UpdaterTypeOK, Mishaps, Writes, Swaps
  <2>2. TempsAreOwned' /\ LeftUnused'
    BY DEF TempsAreOwned, LeftUnused, UpdaterTypeOK
  <2>3. AskedOnce'
    BY DEF AskedOnce, UpdaterTypeOK
  <2>4. Verified'
    BY DEF Verified, UpdaterTypeOK, Trusted, Writes, Swaps
  <2> QED BY <2>1, <2>2, <2>3, <2>4
<1> QED BY <1>1, <1>2, <1>3, <1>4 DEF UserNext

\* The steps of an update.
LEMMA JobFiles ==
  ASSUME FileInv, NEW p \in Program, JobNext(p)
  PROVE  FileInv'
<1> USE NoneIsNoImage DEF FileInv
<1>0. None \notin Release \cup Temp
  BY ReleasesAreNamed
<1>1. CASE Fetched(p)
  <2> USE <1>0, <1>1 DEF Fetched, Step, diskVars, ghostVars
  <2>1. UpdaterTypeOK'
    BY DEF UpdaterTypeOK, Image, Working, Writes, Swaps
  <2>2. TempsAreOwned' /\ LeftUnused'
    BY DEF TempsAreOwned, LeftUnused, UpdaterTypeOK, Writes, Swaps
  <2>3. AskedOnce'
    BY DEF AskedOnce, UpdaterTypeOK, Working, Writes, Swaps
  <2>4. Verified'
    <3>1. PICK image \in [release : {avail[p]}, good : BOOLEAN] :
            Trusted(image) /\ got' = [got EXCEPT ![p] = image]
      OBVIOUS
    <3>2. /\ got'[p] = image /\ Trusted(got'[p]) /\ got'[p].release = avail[p]
          /\ job'[p] = "open"
          /\ \A q \in Program \ {p} : got'[q] = got[q] /\ job'[q] = job[q] /\ mine'[q] = mine[q]
      BY <3>1 DEF UpdaterTypeOK
    <3>3. image # None
      BY <1>0, <3>1 DEF UpdaterTypeOK, Image
    <3> QED BY <3>2, <3>3 DEF Verified, Trusted, Writes, Swaps
  <2> QED BY <2>1, <2>2, <2>3, <2>4
<1>2. CASE FetchFails(p)
  <2> USE <1>0, <1>2 DEF FetchFails, Step, diskVars, ghostVars
  <2>1. UpdaterTypeOK'
    BY DEF UpdaterTypeOK, Working, Writes, Swaps
  <2>2. TempsAreOwned' /\ LeftUnused'
    BY DEF TempsAreOwned, LeftUnused, UpdaterTypeOK, Writes, Swaps
  <2>3. AskedOnce'
    BY DEF AskedOnce, UpdaterTypeOK, Working, Writes, Swaps
  <2>4. Verified'
    BY DEF Verified, UpdaterTypeOK, TempsAreOwned, Trusted, Writes, Swaps
  <2> QED BY <2>1, <2>2, <2>3, <2>4
<1>3. CASE Open(p)
  <2> USE <1>0, <1>3 DEF Open, Step, diskVars, ghostVars
  <2>1. UpdaterTypeOK'
    BY DEF UpdaterTypeOK, Working, Writes, Swaps
  <2>2. TempsAreOwned' /\ LeftUnused'
    BY DEF TempsAreOwned, LeftUnused, UpdaterTypeOK, Writes, Swaps
  <2>3. AskedOnce'
    BY DEF AskedOnce, UpdaterTypeOK, Working, Writes, Swaps
  <2>4. Verified'
    BY DEF Verified, UpdaterTypeOK, TempsAreOwned, Trusted, Writes, Swaps
  <2> QED BY <2>1, <2>2, <2>3, <2>4
<1>4. CASE OpenFails(p)
  <2> USE <1>0, <1>4 DEF OpenFails, Step, diskVars, ghostVars
  <2>1. UpdaterTypeOK'
    BY DEF UpdaterTypeOK, Working, Writes, Swaps
  <2>2. TempsAreOwned' /\ LeftUnused'
    BY DEF TempsAreOwned, LeftUnused, UpdaterTypeOK, Writes, Swaps
  <2>3. AskedOnce'
    BY DEF AskedOnce, UpdaterTypeOK, Working, Writes, Swaps
  <2>4. Verified'
    BY DEF Verified, UpdaterTypeOK, TempsAreOwned, Trusted, Writes, Swaps
  <2> QED BY <2>1, <2>2, <2>3, <2>4
<1>5. CASE Create(p)
  <2>1. PICK t \in Temp :
          /\ temp[t] = None
          /\ temp' = [temp EXCEPT ![t] = [got[p] EXCEPT !.good = FALSE]]
          /\ job' = [job EXCEPT ![p] = "write"] /\ mine' = [mine EXCEPT ![p] = t]
    BY <1>5 DEF Create, Step
  <2>2. /\ job[p] = "create" /\ got[p] # None /\ mine[p] = None
        /\ UNCHANGED <<latest, exec, bak, version, asked, avail, got, left, mishaps>>
    BY <1>5 DEF Create, Step, ghostVars, UpdaterTypeOK, Verified, Writes, Swaps
  <2>3. PICK image \in Image : temp' = [temp EXCEPT ![t] = image] /\ image # None
    <3>1. [got[p] EXCEPT !.good = FALSE] \in Image
      BY <2>2 DEF UpdaterTypeOK, Image
    <3> QED BY <2>1, <3>1
  <2>4. t \notin left /\ \A q \in Program : mine[q] # t
    BY <2>1 DEF TempsAreOwned
  <2>a. /\ job'[p] = "write" /\ mine'[p] = t /\ temp'[t] = image
        /\ \A q \in Program \ {p} : job'[q] = job[q] /\ mine'[q] = mine[q]
        /\ \A u \in Temp \ {t} : temp'[u] = temp[u]
    BY <2>1, <2>3 DEF UpdaterTypeOK
  <2>5. UpdaterTypeOK'
    <3>1. /\ temp' \in [Temp -> Image \cup {None}] /\ mine' \in [Program -> Temp \cup {None}]
          /\ job' \in [Program -> Working \cup {"none", "ok", "failed"}]
      <4>1. /\ temp \in [Temp -> Image \cup {None}] /\ mine \in [Program -> Temp \cup {None}]
            /\ job \in [Program -> Working \cup {"none", "ok", "failed"}]
        BY DEF UpdaterTypeOK
      <4> QED BY <2>1, <2>3, <4>1 DEF Working, Writes
    <3>2. \A q \in Program :
            /\ job'[q] # "none" => version[q] # None /\ avail[q] # None
            /\ mine'[q] # None <=> job'[q] \in Writes
            /\ job'[q] \in Writes => got[q] # None
      BY <1>0, <2>2, <2>a DEF UpdaterTypeOK, Writes
    <3> QED BY <2>2, <3>1, <3>2 DEF UpdaterTypeOK
  <2>6. TempsAreOwned' /\ LeftUnused'
    <3>1. TempsAreOwned'
      <4>1. TempsAreOwned
        OBVIOUS
      <4>2. \A u \in Temp :
              temp'[u] # None <=> u \in left' \/ \E q \in Program : mine'[q] = u
        BY <1>0, <2>2, <2>3, <2>4, <2>a, <4>1 DEF TempsAreOwned
      <4>3. \A u \in Temp, q, r \in Program : mine'[q] = u /\ mine'[r] = u => q = r
        BY <1>0, <2>2, <2>4, <2>a, <4>1 DEF TempsAreOwned
      <4> QED BY <4>2, <4>3 DEF TempsAreOwned
    <3>2. LeftUnused'
      BY <2>2, <2>4, <2>a DEF LeftUnused
    <3> QED BY <3>1, <3>2
  <2>7. AskedOnce'
    BY <2>1, <2>2 DEF AskedOnce, UpdaterTypeOK
  <2>8. Verified'
    BY <1>0, <2>1, <2>2, <2>3, <2>4 DEF Verified, UpdaterTypeOK, Trusted, Writes, Swaps
  <2> QED BY <2>5, <2>6, <2>7, <2>8
<1>6. CASE CreateFails(p)
  <2> USE <1>0, <1>6 DEF CreateFails, Step, diskVars, ghostVars
  <2>1. UpdaterTypeOK'
    BY DEF UpdaterTypeOK, Working, Writes, Swaps
  <2>2. TempsAreOwned' /\ LeftUnused'
    BY DEF TempsAreOwned, LeftUnused, UpdaterTypeOK, Writes, Swaps
  <2>3. AskedOnce'
    BY DEF AskedOnce, UpdaterTypeOK, Working, Writes, Swaps
  <2>4. Verified'
    BY DEF Verified, UpdaterTypeOK, TempsAreOwned, Trusted, Writes, Swaps
  <2> QED BY <2>1, <2>2, <2>3, <2>4
<1>7. CASE Write(p)
  <2>1. /\ job[p] = "write" /\ mine[p] \in Temp /\ got[p] \in Image
        /\ job' = [job EXCEPT ![p] = "clear"] /\ mine' = mine
        /\ UNCHANGED <<latest, exec, bak, version, asked, avail, got, left>>
    BY <1>0, <1>7 DEF Write, Step, UpdaterTypeOK, Writes
  <2>2. PICK image \in Image :
          /\ temp' = [temp EXCEPT ![mine[p]] = image] /\ image # None
          /\ image.release = got[p].release
          /\ \/ image = got[p] /\ mishaps' = mishaps
             \/ mishaps' = mishaps \cup {"torn"}
    <3>1. /\ [got[p] EXCEPT !.good = FALSE] \in Image
          /\ [got[p] EXCEPT !.good = FALSE].release = got[p].release
      BY <2>1 DEF Image
    <3> QED BY <1>7, <2>1, <3>1 DEF Write
  <2>3. /\ temp'[mine[p]] = image /\ job'[p] = "clear"
        /\ \A t \in Temp \ {mine[p]} : temp'[t] = temp[t]
        /\ \A q \in Program \ {p} : job'[q] = job[q] /\ mine[q] # mine[p]
    BY <2>1, <2>2 DEF UpdaterTypeOK, TempsAreOwned
  <2>4. UpdaterTypeOK'
    <3>1. /\ job' \in [Program -> Working \cup {"none", "ok", "failed"}]
          /\ \A q \in Program : job'[q] \in Writes <=> job[q] \in Writes
          /\ \A q \in Program : job'[q] # "none" => job[q] # "none"
      BY <2>1, <2>3 DEF UpdaterTypeOK, Working, Writes, Swaps
    <3>2. temp' \in [Temp -> Image \cup {None}] /\ mishaps' \subseteq Mishaps
      BY <2>1, <2>2 DEF UpdaterTypeOK, Mishaps
    <3> QED BY <2>1, <3>1, <3>2 DEF UpdaterTypeOK
  <2>5. TempsAreOwned' /\ LeftUnused'
    BY <2>1, <2>2, <2>3 DEF TempsAreOwned, LeftUnused
  <2>6. AskedOnce'
    BY <2>1, <2>3 DEF AskedOnce
  <2>7. Verified'
    <3>1. \A q \in Program \ {p} : job[q] \in Writes => mine[q] \in Temp \ {mine[p]}
      BY <1>0, <2>3 DEF UpdaterTypeOK
    <3> QED BY <2>1, <2>2, <2>3, <3>1 DEF Verified, Trusted, Writes, Swaps
  <2> QED BY <2>4, <2>5, <2>6, <2>7
<1>8. CASE WriteFails(p)
  <2> USE <1>0, <1>8 DEF WriteFails, Step, RemoveTemp
  <2>1. UpdaterTypeOK'
    BY DEF UpdaterTypeOK, Working, Writes, Swaps
  <2>2. TempsAreOwned' /\ LeftUnused'
    BY TempRemoved DEF UpdaterTypeOK, Writes, Swaps
  <2>3. AskedOnce'
    BY DEF AskedOnce, UpdaterTypeOK, Working, Writes, Swaps
  <2>4. Verified'
    BY DEF Verified, UpdaterTypeOK, TempsAreOwned, Trusted, Writes, Swaps
  <2> QED BY <2>1, <2>2, <2>3, <2>4
<1>9. CASE Clear(p)
  <2> USE <1>0, <1>9 DEF Clear, Step, RemoveBackup
  <2>1. UpdaterTypeOK'
    BY DEF UpdaterTypeOK, Mishaps, Image, Working, Writes, Swaps
  <2>2. TempsAreOwned' /\ LeftUnused'
    BY DEF TempsAreOwned, LeftUnused, UpdaterTypeOK, Writes, Swaps
  <2>3. AskedOnce'
    BY DEF AskedOnce, UpdaterTypeOK, Working, Writes, Swaps
  <2>4. Verified'
    BY DEF Verified, UpdaterTypeOK, TempsAreOwned, Trusted, Writes, Swaps
  <2> QED BY <2>1, <2>2, <2>3, <2>4
<1>10. CASE PutAway(p)
  <2> USE <1>0, <1>10 DEF PutAway, Step, ghostVars
  <2>1. UpdaterTypeOK'
    BY DEF UpdaterTypeOK, Working, Writes, Swaps
  <2>2. TempsAreOwned' /\ LeftUnused'
    BY DEF TempsAreOwned, LeftUnused, UpdaterTypeOK, Writes, Swaps
  <2>3. AskedOnce'
    BY DEF AskedOnce, UpdaterTypeOK, Working, Writes, Swaps
  <2>4. Verified'
    BY DEF Verified, UpdaterTypeOK, TempsAreOwned, Trusted, Writes, Swaps
  <2> QED BY <2>1, <2>2, <2>3, <2>4
<1>11. CASE PutAwayFails(p)
  <2> USE <1>0, <1>11 DEF PutAwayFails, Step, RemoveTemp
  <2>1. UpdaterTypeOK'
    BY DEF UpdaterTypeOK, Working, Writes, Swaps
  <2>2. TempsAreOwned' /\ LeftUnused'
    BY TempRemoved DEF UpdaterTypeOK, Writes, Swaps
  <2>3. AskedOnce'
    BY DEF AskedOnce, UpdaterTypeOK, Working, Writes, Swaps
  <2>4. Verified'
    BY DEF Verified, UpdaterTypeOK, TempsAreOwned, Trusted, Writes, Swaps
  <2> QED BY <2>1, <2>2, <2>3, <2>4
<1>12. CASE MoveIn(p)
  <2> USE <1>0, <1>12 DEF MoveIn, Step, ghostVars
  <2>1. UpdaterTypeOK'
    BY DEF UpdaterTypeOK, Working, Writes, Swaps
  <2>2. TempsAreOwned' /\ LeftUnused'
    <3>1. RemoveTemp(p) /\ mine' = [mine EXCEPT ![p] = None] /\ mine[p] # None
      BY DEF RemoveTemp, UpdaterTypeOK, Writes, Swaps
    <3> QED BY <3>1, TempRemoved
  <2>3. AskedOnce'
    BY DEF AskedOnce, UpdaterTypeOK, Working, Writes, Swaps
  <2>4. Verified'
    BY DEF Verified, UpdaterTypeOK, TempsAreOwned, Trusted, Writes, Swaps
  <2> QED BY <2>1, <2>2, <2>3, <2>4
<1>13. CASE MoveInFails(p)
  <2> USE <1>0, <1>13 DEF MoveInFails, Step, diskVars, ghostVars
  <2>1. UpdaterTypeOK'
    BY DEF UpdaterTypeOK, Working, Writes, Swaps
  <2>2. TempsAreOwned' /\ LeftUnused'
    BY DEF TempsAreOwned, LeftUnused, UpdaterTypeOK, Writes, Swaps
  <2>3. AskedOnce'
    BY DEF AskedOnce, UpdaterTypeOK, Working, Writes, Swaps
  <2>4. Verified'
    BY DEF Verified, UpdaterTypeOK, TempsAreOwned, Trusted, Writes, Swaps
  <2> QED BY <2>1, <2>2, <2>3, <2>4
<1>14. CASE Back(p)
  <2> USE <1>0, <1>14 DEF Back, Step, RemoveTemp
  <2>1. UpdaterTypeOK'
    BY DEF UpdaterTypeOK, Mishaps, Working, Writes, Swaps
  <2>2. TempsAreOwned' /\ LeftUnused'
    BY TempRemoved DEF UpdaterTypeOK, Writes, Swaps
  <2>3. AskedOnce'
    BY DEF AskedOnce, UpdaterTypeOK, Working, Writes, Swaps
  <2>4. Verified'
    BY DEF Verified, UpdaterTypeOK, TempsAreOwned, Trusted, Writes, Swaps
  <2> QED BY <2>1, <2>2, <2>3, <2>4
<1>15. CASE Clean(p)
  <2> USE <1>0, <1>15 DEF Clean, Step, RemoveBackup
  <2>1. UpdaterTypeOK'
    BY DEF UpdaterTypeOK, Mishaps, Image, Working, Writes, Swaps
  <2>2. TempsAreOwned' /\ LeftUnused'
    BY DEF TempsAreOwned, LeftUnused, UpdaterTypeOK, Writes, Swaps
  <2>3. AskedOnce'
    BY DEF AskedOnce, UpdaterTypeOK, Working, Writes, Swaps
  <2>4. Verified'
    BY DEF Verified, UpdaterTypeOK, TempsAreOwned, Trusted, Writes, Swaps
  <2> QED BY <2>1, <2>2, <2>3, <2>4
<1>16. CASE Done(p)
  <2> USE <1>0, <1>16 DEF Done, diskVars, ghostVars
  <2>1. UpdaterTypeOK'
    BY DEF UpdaterTypeOK, Working, Writes, Swaps
  <2>2. TempsAreOwned' /\ LeftUnused'
    BY DEF TempsAreOwned, LeftUnused, UpdaterTypeOK, Writes, Swaps
  <2>3. AskedOnce'
    BY DEF AskedOnce, UpdaterTypeOK, Working, Writes, Swaps
  <2>4. Verified'
    BY DEF Verified, UpdaterTypeOK, TempsAreOwned, Trusted, Writes, Swaps
  <2> QED BY <2>1, <2>2, <2>3, <2>4
<1> QED BY <1>1, <1>2, <1>3, <1>4, <1>5, <1>6, <1>7, <1>8, <1>9, <1>10, <1>11, <1>12, <1>13, <1>14, <1>15, <1>16
      DEF JobNext, InstallNext

LEMMA FileStep ==
  ASSUME FileInv, [UpdaterNext]_updaterVars
  PROVE  FileInv'
<1>1. CASE Publish
  <2> USE <1>1 DEF FileInv, Publish, diskVars, progVars, ghostVars
  <2>1. UpdaterTypeOK'
    BY DEF UpdaterTypeOK
  <2>2. TempsAreOwned' /\ LeftUnused' /\ AskedOnce'
    BY DEF TempsAreOwned, LeftUnused, AskedOnce
  <2>3. Verified'
    BY DEF Verified
  <2> QED BY <2>1, <2>2, <2>3
<1>2. CASE UNCHANGED updaterVars
  <2> USE <1>2 DEF FileInv, updaterVars, diskVars, progVars, ghostVars
  <2>1. UpdaterTypeOK'
    BY DEF UpdaterTypeOK
  <2>2. TempsAreOwned' /\ LeftUnused' /\ AskedOnce'
    BY DEF TempsAreOwned, LeftUnused, AskedOnce
  <2>3. Verified'
    BY DEF Verified
  <2> QED BY <2>1, <2>2, <2>3
<1> QED BY <1>1, <1>2, UserFiles, JobFiles DEF UpdaterNext

\* The types hold, and on no way out of installBinary, whatever fails and however
\* many programs update at once, is a temporary file forgotten or shared.
THEOREM UpdaterFiles == UpdaterSpec => [](UpdaterTypeOK /\ TempsAreOwned)
<1>1. FileInv /\ [UpdaterNext]_updaterVars => FileInv'
  BY FileStep
<1>2. FileInv => UpdaterTypeOK /\ TempsAreOwned
  BY DEF FileInv
<1> QED BY FileInit, <1>1, <1>2, PTL DEF UpdaterSpec

\* UpdaterTypeOK by itself.
COROLLARY UpdaterTyped == UpdaterSpec => []UpdaterTypeOK
BY UpdaterFiles, PTL

------------------------------------------------------------------------------

Alone == "together" \notin mishaps

\* A program that runs alone has put the executable away, or finds it there;
\* once a rename back failed there is none, and nothing is started any more.
AloneInv ==
  /\ Alone =>
       /\ \A p, q \in Program : version[p] # None /\ version[q] # None => p = q
       /\ \A p \in Program : job[p] \in Swaps => exec = None /\ bak # None
       /\ "stuck" \notin mishaps =>
            /\ exec # None \/ bak # None
            /\ \A p \in Program : version[p] # None => exec # None \/ job[p] \in Swaps
  /\ mishaps \subseteq {"torn"} => exec # None \/ \E p \in Program : job[p] \in Swaps

\* The last copy goes only when a backup is removed, which a program that runs alone
\* and could rename it back never does.
LastInv ==
  /\ "bared" \notin mishaps => exec # None \/ bak # None
  /\ "bared" \in mishaps => mishaps \cap {"together", "stuck"} # {}

\* What was started or put away is the version that runs, and what is available
\* to it is newer.
NewerInv ==
  Alone => \A p \in Program :
    /\ avail[p] # None => IsNewer(avail[p], version[p])
    /\ asked[p] /\ exec # None => exec.release = version[p]
    /\ avail[p] # None /\ job[p] \notin {"clean", "ok"} /\ exec # None => exec.release = version[p]
    /\ job[p] \in Swaps => bak.release = version[p]

DiskInv == AloneInv /\ LastInv /\ NewerInv

LEMMA DiskInit == UpdaterInit => DiskInv
<1> SUFFICES ASSUME UpdaterInit PROVE DiskInv
  OBVIOUS
<1>1. exec # None
  BY NoneIsNoImage DEF UpdaterInit, Image
<1> QED BY <1>1 DEF UpdaterInit, DiskInv, AloneInv, LastInv, NewerInv, Swaps

LEMMA UserDisk ==
  ASSUME FileInv, DiskInv, NEW p \in Program, UserNext(p)
  PROVE  DiskInv'
<1> USE DEF FileInv, DiskInv, Alone
<1>0. None \notin Release /\ UpdaterTypeOK /\ AskedOnce
  BY ReleasesAreNamed
<1>1. CASE Start(p)
  <2> USE <1>0, <1>1 DEF Start
  <2>1. AloneInv'
    BY DEF AloneInv, UpdaterTypeOK, Swaps, diskVars
  <2>2. NewerInv'
    BY DEF NewerInv, AskedOnce, UpdaterTypeOK, Swaps, diskVars
  <2>3. LastInv'
    BY DEF LastInv, diskVars
  <2> QED BY <2>1, <2>2, <2>3
<1>2. CASE CheckForUpdate(p)
  <2> USE <1>0, <1>2 DEF CheckForUpdate, diskVars, ghostVars
  <2>1. AloneInv'
    BY DEF AloneInv
  <2>2. NewerInv'
    BY DEF NewerInv, AskedOnce, UpdaterTypeOK
  <2>3. LastInv'
    BY DEF LastInv, diskVars
  <2> QED BY <2>1, <2>2, <2>3
<1>3. CASE Update(p)
  <2> USE <1>0, <1>3 DEF Update, diskVars, ghostVars
  <2>1. AloneInv'
    BY DEF AloneInv, UpdaterTypeOK, Swaps
  <2>2. NewerInv'
    BY DEF NewerInv, UpdaterTypeOK, Swaps
  <2>3. LastInv'
    BY DEF LastInv, diskVars
  <2> QED BY <2>1, <2>2, <2>3
<1>4. CASE Stop(p)
  <2> USE <1>0, <1>4 DEF Stop, diskVars
  <2>1. AloneInv'
    BY DEF AloneInv, UpdaterTypeOK, Swaps
  <2>2. NewerInv'
    BY DEF NewerInv, UpdaterTypeOK, Swaps
  <2>3. LastInv'
    BY DEF LastInv, diskVars
  <2> QED BY <2>1, <2>2, <2>3
<1> QED BY <1>1, <1>2, <1>3, <1>4 DEF UserNext

\* The steps of an update.
LEMMA JobDisk ==
  ASSUME FileInv, DiskInv, NEW p \in Program, JobNext(p)
  PROVE  DiskInv'
<1> USE DEF FileInv, DiskInv, Alone
<1>0. None \notin Release /\ UpdaterTypeOK /\ AskedOnce /\ Verified
  BY ReleasesAreNamed
<1>1. version[p] # None /\ avail[p] # None
  BY <1>0 DEF JobNext, InstallNext, Fetched, FetchFails, Open, OpenFails, Create, CreateFails, Write,
     WriteFails, Clear, PutAway, PutAwayFails, MoveIn, MoveInFails, Back, Clean, Done, UpdaterTypeOK
<1>a. Alone => \A q \in Program \ {p} :
        version[q] = None /\ job[q] = "none" /\ avail[q] = None /\ ~ asked[q]
  BY <1>0, <1>1 DEF AloneInv, AskedOnce, UpdaterTypeOK
<1>b. ~ asked[p]
  BY <1>0, <1>1 DEF AskedOnce
<1>2. CASE Fetched(p) \/ FetchFails(p) \/ Open(p) \/ OpenFails(p) \/ CreateFails(p)
  <2> USE <1>0, <1>1, <1>2 DEF Fetched, FetchFails, Open, OpenFails, CreateFails, Step, diskVars, ghostVars
  <2>1. AloneInv'
    BY DEF AloneInv, UpdaterTypeOK, Swaps
  <2>2. NewerInv'
    BY DEF NewerInv, UpdaterTypeOK, Swaps
  <2>3. LastInv'
    BY DEF LastInv, AloneInv, UpdaterTypeOK, Swaps, Verified, Writes
  <2> QED BY <2>1, <2>2, <2>3
<1>3. CASE Create(p) \/ Write(p) \/ WriteFails(p) \/ PutAwayFails(p)
  <2> USE <1>0, <1>1, <1>3 DEF Create, Write, WriteFails, PutAwayFails, Step, ghostVars
  <2>1. AloneInv'
    BY DEF AloneInv, UpdaterTypeOK, Swaps
  <2>2. NewerInv'
    BY DEF NewerInv, UpdaterTypeOK, Swaps
  <2>3. LastInv'
    BY DEF LastInv, AloneInv, UpdaterTypeOK, Swaps, Verified, Writes
  <2> QED BY <2>1, <2>2, <2>3
<1>4. CASE Clear(p)
  <2> USE <1>0, <1>1, <1>4 DEF Clear, Step, RemoveBackup
  <2>1. AloneInv'
    BY DEF AloneInv, UpdaterTypeOK, Swaps
  <2>2. NewerInv'
    BY <1>a, <1>b DEF NewerInv, UpdaterTypeOK, Swaps
  <2>3. LastInv'
    BY DEF LastInv, AloneInv, UpdaterTypeOK, Swaps, Verified, Writes
  <2> QED BY <2>1, <2>2, <2>3
<1>5. CASE PutAway(p)
  <2> USE <1>0, <1>1, <1>5 DEF PutAway, Step, ghostVars
  <2>1. AloneInv'
    BY DEF AloneInv, UpdaterTypeOK, Swaps
  <2>2. NewerInv'
    BY DEF NewerInv, UpdaterTypeOK, Swaps
  <2>3. LastInv'
    BY DEF LastInv, AloneInv, UpdaterTypeOK, Swaps, Verified, Writes
  <2> QED BY <2>1, <2>2, <2>3
<1>6. CASE MoveIn(p)
  <2> USE <1>0, <1>1, <1>6 DEF MoveIn, Step, ghostVars
  <2>1. AloneInv'
    BY DEF AloneInv, UpdaterTypeOK, Swaps, Verified, Writes
  <2>2. NewerInv'
    BY <1>a, <1>b DEF NewerInv, UpdaterTypeOK, Swaps, Verified, Writes
  <2>3. LastInv'
    BY DEF LastInv, AloneInv, UpdaterTypeOK, Swaps, Verified, Writes
  <2> QED BY <2>1, <2>2, <2>3
<1>7. CASE MoveInFails(p)
  <2> USE <1>0, <1>1, <1>7 DEF MoveInFails, Step, diskVars, ghostVars
  <2>1. AloneInv'
    BY DEF AloneInv, UpdaterTypeOK, Swaps
  <2>2. NewerInv'
    BY DEF NewerInv, UpdaterTypeOK, Swaps
  <2>3. LastInv'
    BY DEF LastInv, AloneInv, UpdaterTypeOK, Swaps, Verified, Writes
  <2> QED BY <2>1, <2>2, <2>3
<1>8. CASE Back(p)
  <2> USE <1>0, <1>1, <1>8 DEF Back, Step
  <2>1. AloneInv'
    BY DEF AloneInv, UpdaterTypeOK, Swaps
  <2>2. NewerInv'
    BY <1>a, <1>b DEF NewerInv, UpdaterTypeOK, Swaps
  <2>3. LastInv'
    BY DEF LastInv, AloneInv, UpdaterTypeOK, Swaps, Verified, Writes
  <2> QED BY <2>1, <2>2, <2>3
<1>9. CASE Clean(p)
  <2> USE <1>0, <1>1, <1>9 DEF Clean, Step, RemoveBackup
  <2>1. AloneInv'
    BY DEF AloneInv, UpdaterTypeOK, Swaps
  <2>2. NewerInv'
    BY <1>a, <1>b DEF NewerInv, UpdaterTypeOK, Swaps
  <2>3. LastInv'
    BY DEF LastInv, AloneInv, UpdaterTypeOK, Swaps, Verified, Writes
  <2> QED BY <2>1, <2>2, <2>3
<1>10. CASE Done(p)
  <2> USE <1>0, <1>1, <1>10 DEF Done, diskVars, ghostVars
  <2>1. AloneInv'
    BY DEF AloneInv, UpdaterTypeOK, Swaps, AskedOnce
  <2>2. NewerInv'
    BY DEF NewerInv, UpdaterTypeOK, Swaps, AskedOnce
  <2>3. LastInv'
    BY DEF LastInv, AloneInv, UpdaterTypeOK, Swaps, Verified, Writes
  <2> QED BY <2>1, <2>2, <2>3
<1> QED BY <1>2, <1>3, <1>4, <1>5, <1>6, <1>7, <1>8, <1>9, <1>10 DEF JobNext, InstallNext

LEMMA DiskStep ==
  ASSUME FileInv, DiskInv, [UpdaterNext]_updaterVars
  PROVE  DiskInv'
<1>1. CASE Publish
  BY <1>1 DEF Publish, diskVars, progVars, ghostVars, DiskInv, AloneInv, LastInv, NewerInv, Alone
<1>2. CASE UNCHANGED updaterVars
  BY <1>2 DEF updaterVars, diskVars, progVars, ghostVars, DiskInv, AloneInv, LastInv, NewerInv, Alone
<1> QED BY <1>1, <1>2, UserDisk, JobDisk DEF UpdaterNext

\* What an update may leave, however its steps fail and wherever programs stop, with
\* the exceptions that are part of the statement.  Nothing that failed its checksum is
\* installed or kept as a backup, unless the ignored error of a Close tore what was
\* written.  The executable is missing only between the two renames of installBinary,
\* unless two programs ran at once, one was stopped there or the rename back failed.
\* A missing executable has its backup until one is removed while there is none, which
\* takes another program or the try that follows a failed rename back.
THEOREM UpdaterKeeps == UpdaterSpec => []ProgramKept
<1>1. FileInv /\ [UpdaterNext]_updaterVars => FileInv'
  BY FileStep
<1>2. FileInv /\ DiskInv /\ [UpdaterNext]_updaterVars => DiskInv'
  BY DiskStep
<1>3. FileInv /\ DiskInv => ProgramKept
  BY DEF FileInv, Verified, DiskInv, AloneInv, LastInv, ProgramKept
<1> QED BY FileInit, DiskInit, <1>1, <1>2, <1>3, PTL DEF UpdaterSpec

\* A program that runs alone never installs what is not newer than what it puts
\* away, with whatever releases published in between, and u pressed again after a
\* failure or after a success.
THEOREM UpdaterUpgrades == UpdaterSpec => OnlyUpgrades
<1>1. FileInv /\ [UpdaterNext]_updaterVars => FileInv'
  BY FileStep
<1>2. FileInv /\ DiskInv /\ [UpdaterNext]_updaterVars => DiskInv'
  BY DiskStep
<1>3. ASSUME FileInv, DiskInv, NEW p \in Program, MoveIn(p), Alone
      PROVE  IsNewer(exec'.release, bak.release)
  <2>1. exec'.release = got[p].release /\ got[p] # None /\ got[p].release = avail[p]
    BY <1>3 DEF FileInv, UpdaterTypeOK, Verified, MoveIn, Writes, Swaps
  <2>2. avail[p] # None /\ bak.release = version[p]
    BY <1>3 DEF FileInv, UpdaterTypeOK, DiskInv, NewerInv, MoveIn, Swaps
  <2>3. IsNewer(avail[p], version[p])
    BY <1>3, <2>2 DEF DiskInv, NewerInv
  <2> QED BY <2>1, <2>2, <2>3
<1>4. FileInv /\ DiskInv /\ [UpdaterNext]_updaterVars =>
        [\A p \in Program : MoveIn(p) /\ "together" \notin mishaps =>
           IsNewer(exec'.release, bak.release)]_updaterVars
  BY <1>3 DEF Alone
<1> QED BY FileInit, DiskInit, <1>1, <1>2, <1>4, PTL DEF UpdaterSpec, OnlyUpgrades

==============================================================================
