# DrillBit: specifications, model checking and proofs

DrillBit is a terminal program. It scans SSH hosts for Postgres containers,
gives each database a local port, tunnels that port over SSH to the container,
opens SQL clients on it, and backs databases up and restores them. Almost all
of its logic is concurrent: a pool of shared SSH connections, tunnels with a
monitor and an accept loop each, commands that run in goroutines, and an event
loop that learns what happened from messages which arrive in any order.

This directory holds TLA+ modules that model that logic, TLC configurations
that check small instances of them, and proofs for TLAPS that hold for every
instance. `PROJECT.json` says for each definition which lines of the source it
models, which runs check what, and which change of a definition each property
catches.

    tlc -workers 2 -config tunnel.cfg MCTunnelManager     a run
    tlapm SshPoolProofs.tla                               the proofs of a module

## 1. Inventory

| component | file | state | operations |
| --- | --- | --- | --- |
| SSH connection pool | `sshclient.go` | one connection per host with a reference count and a dead channel | Acquire (dials outside the lock), Release, Dead, CloseAll; a goroutine waits for each connection to end |
| dialing | `sshclient.go` | none | config aliases, keys, agent, known hosts |
| tunnel manager | `tunnel.go` | tracked tunnels, reconnecting keys, a stop channel, listeners | Connect, Disconnect, DisconnectAll, Status; a monitor per tunnel with reconnectWithBackoff; an accept loop per tunnel |
| event loop | `ui.go` | entries and the state they show, mode, pending launch, shutdown flags | messages, keys, health checks, SQL clients, quitting |
| discovery | `discovery.go`, `ui.go` | pending entries, hosts done | a goroutine per host, one stream of results, merge with the entries shown |
| local ports | `ports.go` | none | AssignPorts: a hash, then linear probing |
| backup and restore | `backup.go`, `ui.go` | running jobs, progress channel, overlays | dump to a file, drop the schema and load a file, progress, timers |
| configuration | `config.go`, `main.go`, `ui.go` | a YAML file, its copy in memory, the entries made from it | scaffold, load, edit, save |
| list, filter, overlays | `ui.go` | rows, cursor, mode | move, filter, edit or clear an override, copy credentials, choose and confirm a restore |
| self-update | `updater.go`, `ui.go` | the executable, its backup, temporary files, the release that is available | check, download, verify, replace |
| rendering, help, styles, taglines, clipboard | the rest | none | pure output |

How they interact. A key in the event loop starts a goroutine that calls
Connect or Disconnect of the manager; its result comes back as a message. The
manager calls Acquire and Release of the pool; monitors and accept loops learn
of a lost connection from the pool's dead channel or from a failed dial through
it. A timer makes the event loop compare what it shows with the manager's
Status. A scan replaces the entries and starts Connect for those with
autoconnect. Backups and restores use connections of their own and talk to the
event loop through a channel. The overlays act on the entry under the cursor,
which the end of a scan may move. Scans read the overrides of the configuration
while the event loop edits and saves it. An update runs in a goroutine and
works on files which other programs that run from the same executable share.
Quitting calls DisconnectAll, which closes the
stop channel, the listeners and the pool.

What is hard in it, and what makes each part correct:

* Pool. Two Acquires of one host dial at once; connections are lost while they
  are shared, dialed or released. Correct when no connection is leaked, when
  leases whose connection works share the pooled one, and when the count
  reaches zero exactly with the last lease.
* Manager. Connect, Disconnect, reconnection and DisconnectAll race on one
  key, with waits between every decision and the action on it. Correct when
  every tunnel has one owner who will release it, every live tunnel has a
  monitor, what was disconnected is not revived, and everything ends at
  shutdown.
* Event loop. Messages are old news, come out of order, and are not handled
  while an SQL client runs. Correct when an entry at rest does not hide a
  tunnel, a lost tunnel does not show Connected for good, a client is started
  only when asked for, and quitting waits for the shutdown and ends.
* Discovery and ports. Scans overlap, hosts fail, entries known and new are
  merged. Correct when a scan is whole, lists nothing twice, and agrees with
  the ports of live tunnels.
* Backup and restore. Any remote step may fail. Correct when a file called
  complete is whole, overlays do not stay, and data is not lost.
* Configuration and overlays. Saves fail or are cut short, editors write the same
  file, scans read what is being edited and move the cursor under an open
  overlay. Correct when the file holds what was set unless an error said
  otherwise, entries show their overrides, and an overlay acts on the entry it was
  opened for.
* Self-update. The executable is replaced by two renames, each of which may fail,
  and the program may stop between any two steps. Correct when no step that fails
  leaves the program without its executable or a backup of it, nothing unverified
  is installed, nothing older, no way out forgets its temporary file, and every
  update is answered. (Where the code falls short of this is in section 6.)

## 2. Modules

| module | models | role |
| --- | --- | --- |
| `SshPool` | `sshPool` | component |
| `TunnelService` | what callers of the manager may rely on | abstract specification |
| `TunnelManager` | `TunnelManager`, extends `SshPool` | composition with the pool; implements `TunnelService` |
| `TunnelUi` | the part of `ui.go` about tunnels, extends `TunnelService` | composition with the abstract manager |
| `Discovery` | `discovery.go`, `ports.go`, the merge in `ui.go` | component |
| `Backup` | `backup.go` and its modes in `ui.go` | component |
| `Settings` | `config.go`, the start in `main.go`, the list, filter, edit, copy and confirm modes of `ui.go` | component |
| `Updater` | `updater.go` and its messages in `ui.go` | component |
| `MC...` | | instances for TLC |
| `SshPoolProofs`, `TunnelManagerProofs`, `TunnelOwnerProofs`, `TunnelUiProofs`, `DiscoveryProofs`, `BackupProofs`, `SettingsProofs`, `UpdaterProofs` | | theorems and proofs |

The layering is the point: `TunnelManager` (hundreds of thousands of states for
one key) is shown to implement the small `TunnelService`, and the event loop is
then checked over `TunnelService` only.

**SshPool.** `conns`, `refs` and `link` are the map, the counts and the fate of
each connection ("down": over, but the Wait goroutine has not closed the dead
channel; "dead": it has). A `Lease` is one span from Acquire to Release. Acquire
is up to three steps, because it gives up the lock to dial: `AcquireShared` or
`AcquireMiss`, then `DialOk` or `DialFails`, then `AcquireLost` or `AcquireWon`.
`Release` is paid by host, as in the code. Connections and leases are recycled.

**TunnelManager.** A lease is also the tunnel built on it. `pc` says where each
goroutine is; the steps are what it does between two points where others can be
seen. `Connect` is `ConnectCall`, the set-up steps `AcquireStep`, `DialStep`,
`ListenStep` or `SetupFails`, and `ConnectWins` or `ConnectLoses`; `Disconnect`
is `DisconnectCall` and `DrainStep`, which waits for the accept loop; a monitor
goes `Look`, `Arm`, one of three `Watch...`, `Check`, `ReleaseStep`, then `Retry`
and the set-up steps until `ReviveWins`, `ReviveLoses` or `Forget`.
`DisconnectAll` is `StopAll`, `TakeAll`, `CloseListeners`, `FinishAll`. The close
of a listener belongs to the step that decides it: an accept in between could
have come before the decision, and a listen that finds the port still taken is
one of the ways `SetupFails`.

**TunnelService.** A status for each key (None, Alive, Reconnecting), a call in
progress for each command. It promises, among others, that only a Connect or a
reconnection brings a tunnel up, that a reconnection is not carried out after a
Disconnect, and that a tunnel goes from Alive to None only by Disconnect or End.

**TunnelUi.** `shown` is the state of each entry, `job` and `target` what each
command goroutine was started for, `checks` the chains of health-check timers,
`asked`, `running` and `failures` the SQL clients, `mode`, `quit`, `dissolve` and
`faded` the ways out. While `running` the loop handles nothing. `rushed` is the
only variable that is not in the code: it records that the user gave a second
command about an entry before the first was answered. Modes in which no key
concerns a tunnel (edit, filter, help, copy, backup) are left out here; messages
are handled the same in them, and `Settings` and `Backup` have what they do.

**Discovery.** A key is the number of its place in the sorted order that
AssignPorts uses. `hash` is arbitrary, so every collision pattern is tried. Port
arithmetic is modulo `PortMax + 1`, as 65535 is the greatest uint16. Each scan
has its own channel; all fill the same `pending` and `hostsDone`.

**Backup.** Jobs of `performBackup` and `performRestore`, their progress channel
with its capacity (a full one blocks the job), the overlays, picker, confirmation
and the timers that close overlays. What a database or a file holds is the name
of the database it came from, "empty", "part" or, for a file whose dump did not
end, "torn". A restore may start on any entry, since a scan may have put another
one under the cursor since the picker was opened. The progress ticker stops
before the last message.

**Settings.** `file` is the configuration file, whole or torn; `config` is the
copy in memory. `SaveConfig` is what `os.WriteFile` does: it fails before it
opens the file, or empties it and fails, or writes all. What a torn file loads as
is `Loaded`: the overrides before the place where it breaks off. `Stop` ends the
program anywhere, `Start` loads again, `EditFile` is an editor or another program.
`rows` and `cursor` are the list with its filter: the order of matches is
arbitrary, as scores are data. `ScanEnds` is the merge as far as it concerns
credentials: for each key the scan has read one of the values the override had
(`had`) since it began, since it works on a copy of the slice whose elements the
event loop changes. One field stands for user, password and database, which
are treated alike. Ghosts: `foreign` (another writer has written since),
`stale` (overrides that changed during the last scan), `chosen` and `shifted`
(what was selected when an overlay was opened, and whether a scan moved it).

**Updater.** A file is an image: of which release, and whether it is what was
built. `exec`, `bak` and `temp` are the files; `version`, `asked`, `avail`, `job`,
`got` and `mine` belong to each program. Every system call of `installBinary` is
an action of its own, with one for its failure. `Stop` ends a program between any
two of them; `Start` runs whatever the executable is then. `Trusted` is what the
signature and the checksum let pass: for a release that has both, only what was
built; for one without, anything, as in the code. The errors that the code does
not look at are outcomes of the steps: closing the temporary file may lose what was
written (`Write`), and removing it or the backup may do nothing (`RemoveTemp`,
`RemoveBackup`). `left` and `mishaps` are ghosts. `left` has the temporary files of
stopped programs and those whose removal failed. `mishaps` has which of the events
have happened that a promise is not made for: two programs at once ("together"), a
program stopped between the two renames ("stopped"), a rename back that failed
("stuck"), a file that closing tore ("torn"), and a backup removed while there was
no executable ("bared").

In every module a definition without a comment, right before a commented one of
almost its name, is that one with a plausible bug. No specification uses these;
`PROJECT.json` pairs each with the property that catches it.

## 3. Runs

| run | instance | shows |
| --- | --- | --- |
| `tunnel` | 1 key, 2 commands, 2 monitors, 3 leases, 2 connections, 1 attempt, symmetric | the pool inside the manager: no connection leaked (`LiveIsOwned`), working leases share the pooled one (`HeldLiveIsPooled`), counts are positive and covered (`RefsCovered`); the manager: `OneOwner`, `BoundIsHeld`, `EveryTunnelMonitored`, `ReconnectingIsServed` until shutdown |
| `tunnel_live` | 1 key, 1 command, 1 monitor, 2 attempts, with DisconnectAll, fair | maps disjoint, a quiet manager is empty, the manager implements `TunnelService` (`Implements`); commands are answered, reconnections settle, DisconnectAll and all monitors end |
| `ui` | 1 entry with autoconnect, 1 command, 1 SQL client, fair | a pending launch waits no longer than its Connect, but for one case (`LaunchIsServed`), a lost tunnel does not stay Connected, the animation does not outrun the shutdown, quitting ends |
| `ui_stable` | 2 entries, 2 commands, 2 SQL clients, symmetric | `RestIsHonest` while `rushed` is false |
| `scan` | 3 keys on 2 hosts, 3 ports, all hashes, fair | scans are whole and end, list nothing twice, agree with live tunnels; first ports are unique |
| `backup` | 1 database, 2 files, 2 jobs, channel of 2, fair | a running backup keeps its overlay, "complete" means whole, overlays end |
| `update` | 2 programs, 2 temporary names, 2 releases (one without a signature) and a development build, fair | what an update may leave of the executable and its backup, with every exception named (`ProgramKept`), temporary files have owners, updates only go up, each is answered |
| `settings` | 2 keys, one with an override in the file an editor writes, one with autoconnect, 1 value | file and memory agree, entries show their overrides, overlays act on what was chosen |
| `pool_release`, `ui_stuck`, `scan_overlap`, `restore` | small | violated: see section 6 |

Bounds and why they are enough. The pool's invariants are checked where the pool
is used, inside the manager, with two connections so that one replaces another;
for several hosts and any number of leases they are proved (`PoolSafe`,
`TunnelPoolSafe`). `tunnel` leaves out DisconnectAll and `tunnel_live` has one
command and one monitor; every safety property of both, and `Implements`, is
proved for every size with DisconnectAll (section 5), so the runs are the
small end of the theorems. So are all others: each invariant and each action
property that a passing run checks is also proved for every instance, under the
specification of that run without its fairness. In the manager the shared state is per key except for the pool and
the stop channel, so one key with two commands and two monitors has every race
between a Connect, a Disconnect, the old monitor and the new one; the third lease
lets a loser of a race exist beside a tracked and a draining tunnel. With
`MaxAttempts` 1 a reconnection fails after one try, which is enough for its last
try to race everything; runs with 2 have the loop, too. In the event loop two
entries and two commands give answers in any order. Three keys and three ports
suffice for a collision that pushes a second one and for running past the end
of the range. Two jobs suffice for one that was left early beside a new one.
`MaxClients` bounds SQL clients that are wanted, running or ended; timers of one
kind are never more than jobs. Two programs and two names are what it takes for one update
to get in the way of another; the names of the releases (1.0.9, 1.1.0) are
in an order that the last number alone gets wrong. In `settings` two keys are
enough for a cursor on the wrong one; `Toggled` says whose autoconnect is toggled,
since the flag matters only as one more thing that is saved. One scan runs at a
time there; `Discovery` has several.

Deadlock is checked for `tunnel`, `scan`, `backup`, `update`, `settings` and
`pool_release`; in the others the program may come to its end.

## 4. Fairness and assumptions

* `Fairness` of TunnelManager: goroutines that can go on do so; every dial,
  listen and remote command answers somehow, and a lost connection is noticed.
  The TCP connection has a timeout of ten seconds; the SSH handshake after it,
  keepalives and dials through a connection have none, so this is an assumption
  about the network and the operating system, not something the code ensures. Nobody
  needs to call, to connect to a port or to quit. Commands are strongly fair
  because the bound on monitors could otherwise starve one; in the code a
  Connect never waits for a monitor.
* `UiFairness`: goroutines run and answer (the property `CommandsReturn` of the
  manager), messages and timers are handled, and the user leaves an SQL client
  at last. Handling is strongly fair: clients may stop the loop again and again.
* `FairSteadySpec`: each host answers or fails, and messages are read. That a host
  answers or fails is an assumption: the code has a timeout for the TCP connection
  (sshclient.go:253) but none for the SSH handshake after it (sshclient.go:264), so
  that a host which accepts a connection and then says nothing holds the scan up. `SteadySpec` assumes that no scan is
  started during another and that a known database is found again; section 6
  says what happens otherwise.
* `StableSpec`: scans find known entries again, and an answer is handled before
  a health check that comes later.
* `CalmSpec`: a job is not started in the two seconds in which the timer of the
  last one of its kind is pending.
* `BackupFairness`: jobs go on, messages and timers are handled.
* `FairUpdaterSpec`: the goroutine of an update goes on. Downloads have a timeout
  of two minutes or less, and the disk answers. A rename replaces the file of the
  new name, as in POSIX, and the path of the executable stays the same.

## 5. Proofs

All theorems hold for any sets of hosts, connections, leases, keys, commands,
monitors, jobs and files and any bounds, from the assumptions named in the modules
(leases, jobs and scans are finite, the model values are apart, key maps are total,
there are ports for all entries). Every invariant and every action property that
a passing run checks is a theorem.

`SshPoolProofs`

* `PoolSafe`: the type invariant, `LiveIsOwned`, `HeldLiveIsPooled` and
  `RefsCovered`. None of them is inductive alone: `RefsCovered` needs that a host
  without a connection has count zero and that a lease has the host and client
  that its stage demands (`StageShape`); `HeldLiveIsPooled` needs `LiveIsOwned`
  and that a fresh connection is not referred to. `PoolInv` is their conjunction,
  preserved step by step in `PoolStepInv`. The counting rests on lemmas about
  the cardinality of `Holders` when a lease comes or goes.
* `CountExact`, `ReleaseSafe`: while only the pool itself ends connections, the
  count is the number of leases, and a Release never disturbs another lease.
  These are the positive side of the run `pool_release`.

`TunnelManagerProofs`

* `TunnelSafe`: the type invariant and `AliveXorReconnecting`, through
  `TunnelInv`, which adds what each place of a goroutine says about the tunnel
  and key it has in hand (`ProcShape`).
* `TunnelUsesPool`: every step of the manager is a step of the pool or leaves it
  alone.
* `TunnelPoolSafe`: therefore the pool's invariants hold inside the manager;
  `TunnelTyped`, `TunnelPoolOwned` and `TunnelServed` name the parts that a run checks.
* `TunnelWatched`: `EveryTunnelMonitored` and `ReconnectingIsServed`, again with
  DisconnectAll. Their conjunction is inductive relative to `TunnelInv`:
  `WatchFrame` says that only goroutines that move and keys that change have to be
  looked at, so each step is about one monitor. A monitor that loses the last
  check (`ReviveLoses`) may leave the key because, by `AliveXorReconnecting`, it
  is not reconnecting any more.
* `TunnelImplements`: `Implements`. The mapping reads a status off the two maps of
  the manager and a call off the place of a command. Each action is shown to be
  one of the abstract ones or a stutter from `TunnelInv` alone (`StatusMap`,
  `CallMap`, `ArgMap` and `EndedMap` say what becomes of each mapped variable). So
  what is checked of the event loop over `TunnelService` may be relied on for
  the manager as far as safety goes.

`TunnelOwnerProofs`

* `TunnelOwners`: `OneOwner`, with DisconnectAll at any time (the run `tunnel` has
  none). `OwnerInv` says of keys, goroutines and DisconnectAll that what they have
  to release is out there (`OwnersUse`), that no two have the same
  (`OwnersApart`) and that everything out there is somebody's (`UsedOwned`); each
  needs the other two. The steps are first shown to be one of a few moves of
  leases between owners, then the moves to keep `OwnerInv`.
* `TunnelPorts`: `BoundIsHeld`. A bound port is served by an accept loop of the
  tunnel that bound it, a serving tunnel is still held, and what is to be torn
  down has its loop told so; these (`PortInv`) need each other and `OwnerInv`,
  since only the owner of a tunnel ends its loop.
* `TunnelQuiet`: `QuietIsEmpty`. Everything the pool has belongs to a lease, every
  lease to an owner, and a quiet manager has none. What it takes in addition is
  `CountInv`: once the tunnels DisconnectAll took are released, the counts are
  covered by the leases besides them, so none stays pooled with nobody's lease.

`UpdaterProofs`, for any programs, names and releases, with any of them signed

* `UpdaterFiles`: the type invariant and `TempsAreOwned`. `FileInv` adds that names
  which were left are not used again, that an update has an answer to act on, and
  that a written temporary file, if closing did not tear it, holds what was verified
  (`Verified`): that is why what `MoveIn` installs is trusted.
* `UpdaterKeeps`, `UpdaterUpgrades`: `ProgramKept` and `OnlyUpgrades`. `DiskInv`
  says that, while one program runs, the executable is where it was or put away by
  that program between its two renames (`AloneInv`), that it or the backup is of the
  version which runs until the update is done, and that what is available is newer
  than that (`NewerInv`). `LastInv` is about the last copy: while the executable is
  missing and no backup was removed then, the backup is there. `OnlyUpgrades` follows for `MoveIn`, since what it installs is
  the release that was available (`Verified`).

`SettingsProofs`, for any number of containers, values and foreign writers

* `SettingsKept`: `FileIsMemory` and `ShownIsOverride`; `SettingsActs`:
  `ActsOnChosen`. `SettingsInv` adds `ChoiceKept`: while an overlay is open, what is
  selected is what was chosen or a scan has ended. What the filter makes of the
  rows does not matter for any of it.
* `SettingsTyped`: `SettingsTypeOK`, whose point is that the cursor is on an entry
  that is shown or at the top of an empty list. The orders that sorting and
  filtering may give are sets (`InOrder`, and the orders of the matches); their
  elements hold each entry at most once (`RowsOf`, `ListIsFiltered`), so a
  cursor below the length is on an entry (`SelectedIsListed`).

`BackupProofs`, for any jobs, databases, files and capacity of the channels

* `BackupWatched`: `BackupIsWatched`. It is not inductive: what a timer or a key
  does to the overlay depends on flags and on timers that other jobs left. The
  strengthening `OneBackup` says that while there is a backup, or its last message
  is still in the channel, its overlay is shown, nothing lets the user leave it, no
  timer will close it, and there is no second one; `QueueShape`, that "ok" and "err"
  are the last word of a job that is over, is what makes the overlay outlive it.
* `BackupWhole`: `CompleteIsWhole`. It rests on the same: with one backup at a time
  nothing else writes the file between the end of a dump and its message.
* `BackupTyped`: `BackupTypeOK`. `TimersFit` counts for each pending timer a job
  that is over. All three are under `CalmSpec`, as the run `backup` is: without
  it the first is false (section 6).

`TunnelUiProofs`, for any entries, goroutines and clients

* `UiTyped`, `GraceIsKept`, `LaunchServed`: `UiTypeOK`, `GraceBeforeQuit` and
  `LaunchIsServed`, of the event loop as it is, with scans that drop
  entries and answers in any order. `UiInv` adds what a goroutine was started for
  (`JobShape`), that clients wanted, running and ended are counted once each
  (`ClientsFit`), and that shutdownDoneMsg comes after DisconnectAll
  (`ClosedIsEnded`), from which the action properties follow. For `LaunchServed` each
  kind of step is shown not to end the wait, as it keeps the goroutines there are
  (`SpawnedOnes`) or starts the one that is waited for, until only the answer is
  left; the case in which the answer leaves the launch pending is in the statement.
* `RestHonest`: `RestIsHonest`, under `StableSpec`. An entry at rest is honest only because of what was true while its
  command was under way: `Steady` says that there is one goroutine for a key, that a
  Connect finds no tunnel and is shown until it is answered, and that a Disconnect is
  shown at once and leaves none.
* `UiUsesService`: every step of the event loop is a step of TunnelService or leaves
  the manager alone. It is the other side of `TunnelImplements`: the loop asks of
  the manager only what TunnelService promises, and the manager keeps that.

`DiscoveryProofs`, for any keys, hosts, scans, hashes and range of ports

* `PortsAssigned`: AssignPorts gives every entry a port and no port twice, as long
  as there are no more entries than port numbers (`PortsSuffice`; the Go loop would
  not end otherwise). `FreePortIsFree` is the probing, with the wrap around in
  `NextIs` and `WalkIs`; `PortsAreLeft` is the counting argument.
* `SortedFits`, `SortedOnce`, `MergedIs`: the list that the merge sorts has no more
  than is pending, each key that is pending once if none is pending twice, and
  the merged entries keep the known ports.
* `DiscoveryTyped`, `PortsUnique`: `DiscTypeOK` and `FirstPortsUnique`, with scans
  that overlap in any way. The number of entries is bounded by who has sent what
  (`PendingFits`, `DoneFits`), which is what `PortsAssigned` needs.
* `DiscoveryOnce`, `PortsKept`, `ScansWhole`: `ListedOnce`, `PortsAgree` and
  `FinalizesWhole`, under `SteadySpec`. `SteadyInv` adds that one scan is read at
  a time, that every host is still to come or counted, that a key is pending once its
  host has reported and not before, and that tunnels are listed.

The recursive functions here (AssignPorts, the probing, the sorting) are chosen by
the equation that defines them. The library's induction theorems cannot be used, since
they take an operator; `Iterated` shows that such a function exists, and `Upwards`
what it computes at each number, by the well-foundedness of < on Nat
(`NatLessThanWellFounded`). Both need the set of numbers that have the property as a
set and not as an operator, which is enough here.

Only model-checked is liveness (`CommandsReturn`, `ReconnectSettles`, `ShutdownEnds`,
`MonitorsEnd`, `ConnectedIsCorrected`, `QuitEnds`, `DiscoveryEnds`, `OverlaysEnd`,
`UpdateAnswered`), as ENABLED and fairness are out of the prover's reach.
`Implements` is the safety part of the refinement.

## 6. What the models also show

Runs that end in a violation, each against a line of the code or its texts:

* `pool_release`: Release takes a host. After a lost connection was replaced, the
  release of a lease on the lost one counts against the replacement and may
  close it under another tunnel (the monitor then reconnects it).
* `ui_stuck`: a health check during a reconnection turns the entry to Connecting;
  if the monitor then gives up nothing starts a Connect, and no key acts on a
  Connecting entry.
* `scan_overlap`: r during a scan; the end of the older scan finalizes the results
  of the newer one while hosts are missing.
* `restore`: the safety backup that the confirmation promises is not made.

Behaviours the models contain and that no property forbids:

* A monitor that gives up deletes the reconnecting flag without looking whose it
  is (`Forget`); a newer monitor of the same key then stops, too. A health check
  brings the tunnel back if the entry shows Connected.
* A monitor asks the pool for the dead channel by host (`Arm`) and may get that of
  another connection than its tunnel's; the death is then noticed only when a
  client of the tunnel fails.
* A Connect that ends after DisconnectAll took the tunnels registers one that
  nobody tears down; the program exits then.
* A Connect that Enter started may succeed after a scan has dropped its entry;
  `findEntry` is nil then (ui.go:260) and `pendingLaunch` stays set (`Connected`).
  When a later scan finds the database again, the next Connect of it, by Space for
  instance, opens an SQL client that nobody asked for. `LaunchIsServed` says that
  this is the only way to it.
* Space twice before the first answer: the answers may come in the other order
  and leave Ready over a live tunnel, which no health check looks at (`Checked`).
* A second Esc before the program has quit calls DisconnectAll again, which closes
  a closed channel: `mode` "panic" is reachable.
* Each SQL client that exits well adds a health-check chain that never ends.
* Past the end of the range a port is 0, not `portRangeMin`; the merge may give a
  new database the port a known one has; a port depends on which other databases
  were found.
* A database lost by one scan and found by the next comes back as Ready, maybe
  with another port than the one its live tunnel has.
* A restore says "Schema reset complete" before it loads, so that Esc leaves it
  while it runs.
* A dump whose file cannot be closed reports an error and leaves the torn file
  (backup.go:283), which the list of backups then shows like any other (`DumpFails`).
* Without `CalmSpec`, the timer of one backup closes the overlay of the next.
* A program that is stopped between the two renames of an update leaves no
  executable, only its backup: the program has to be renamed by hand. After a
  failed rename and a failed rename back u may be pressed again, and the first
  thing the next try does is to remove the backup, the only copy (`Clear`).
* Of two programs that update at once, one removes the backup that is all the
  other has left; and one that has been up for long installs the release that was
  the latest when it started over a newer one the other has installed.
* A program that is stopped during an update leaves its temporary file for good.
* A temporary file whose removal fails stays, too, and nothing says so (`RemoveTemp`).
* A release without a signature is installed unverified (`Trusted`). An error on
  closing the temporary file is ignored (updater.go:245), and a file that lost part
  of what was written is installed (`Write`, `mishaps` "torn").
* `d` clears an override, but the entry shows the old value until the next scan;
  a scan that began before an edit may bring the old credentials back until the
  next one (`stale`).
* A scan that ends while an overlay is open moves what the overlay acts on: the
  override of another container is set, its password copied, or its database
  overwritten by the restore that was confirmed (`shifted`).
* A save that is cut short leaves part of the file, which may load as a
  configuration with fewer overrides. A save overwrites what an editor wrote since
  the program started.

## 7. Not modelled, and the plan

Not modelled: the parsing of docker output and of YAML, and the arithmetic of
signatures and checksums (data); rendering, help, styles and taglines (pure
output); the clipboard (formats a string and runs a program); flags and usage;
config aliases, keys, agents and known_hosts, of which a dial is one step that
answers with a connection or an error. A restart is modelled for the two parts that
persist something the program reads again by itself, the configuration and the
executable; backup files are only listed.

Left, in this order:

1. Overlapping scans in `TunnelUi`, composed with `Discovery`.
2. known_hosts with dials of several hosts at once.
