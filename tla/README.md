# Formal models of the BitBoxBase

TLA+ models of the software that runs on the BitBoxBase: the middleware that
the BitBoxApp talks to, the scripts that update and configure the system, and
the tools that supervise and configure its services.
Each module is translated from the Go code or the shell scripts it names; the
correspondence, definition by definition, is in `PROJECT.json` ("map").

1. [The system](#1-the-system)
2. [Modules](#2-modules)
3. [Runs](#3-runs)
4. [Fairness](#4-fairness)
5. [Proofs](#5-proofs)
6. [Disagreements between code and documentation](#6-disagreements-between-code-and-documentation)
7. [What is not modelled](#7-what-is-not-modelled)
8. [Plan](#8-plan)

To repeat a check: `tlc -config <name>.cfg <module>` for a run,
`tlapm <module>_proofs.tla` for the proofs.

## 1. The system

The Base is a single-board computer that runs a Bitcoin full node (bitcoind,
electrs, lightningd) and is controlled by the BitBoxApp over the local network.

| Component | State it keeps | Operations | What makes it correct |
|---|---|---|---|
| Websocket handlers (`middleware/src/handlers`) | `clientsMap`, `nClients`, `eventQueue` under `mu`; per client a write channel and a close channel | accept a connection, relay an event, replay queued events, read and write messages, drop a client | no send to a client that has left; every client gets every event in order; the relay never stops |
| RPC transport (`rpcserver`) | per client a `net/rpc` server, calls in goroutines of their own | read a request, run it, write the response | a client that leaves takes its server with it |
| Middleware (`middleware.go`, `util.go`) | update progress, setup flags, service info, all without a lock | about 40 RPCs, three polling loops, IPC loop | what the app is shown is what is true; one update at a time; setup survives restarts |
| Authentication and setup wizard (`authentication`, parts of `middleware.go`) | password hash and flags in Redis, copies of the flags and the token key in memory | authenticate, change password, finalize the wizard, `bbb-cmd.sh reset auth` | a confirmed change lasts; nobody is locked out |
| Image update (`bbb-cmd.sh mender-update`, `systemd-update-checks.sh`) | Redis key `base:updating`, two root filesystems, the bootloader's upgrade flag | install, boot on trial, reconfigure, verify, commit, fall back | an image is committed only after it was verified, otherwise left again; the announced outcome is true |
| Redis client (`redis`) | a connection pool | get, set, add unique entries | a call fails only if Redis is away or the pool is empty (connections are never given back, section 6) |
| IPC notifications (`ipcnotification`) | a named pipe | scripts and supervisor write JSON lines, the middleware reads them | bad lines are dropped, the reader goes on |
| Flashdrive backup and restore (`middleware.go`, `bbb-cmd.sh`) | one mount point | check, mount, copy, unmount | never left mounted, never two at once |
| bbbsupervisor (`tools/bbbsupervisor`) | last state of the initial block download, last execution of each trigger | follow journals and Prometheus, restart services, switch services on and off | one reaction per cause, no restart loops |
| Noise pairing (`noise`) | one configuration for all connections: ciphers, client key, channel hash, "pairing required"; the paired clients in `base.json` | handshake, pairing, encryption, read-modify-write of the file | only accepted clients are paired or can use a connection; what was stored stays |
| HSM (`hsm`) | serial connection | wait for the firmware at start, show the pairing code | the start ends, with or without an HSM |
| Service info and update check (`middleware.go`, `util.go`, `prometheus`) | last service info, last known update | poll, compare, notify; the app fetches | a connected app comes to know what is true |
| bbbfancontrol | whether the fan is cooling down | PWM from temperature, every cycle | on when hot, off only when cool |
| bbbconfgen | the file being written | file from template and Redis | the file its help text promises |
| `bbb-config.sh`, `bbb-systemctl.sh` | Redis keys, systemd units | enable, disable, set, verify | Redis and the generated files agree |

Interactions. Apps connect over a websocket (with noise encryption) and make
RPCs; each RPC runs in its own goroutine and calls scripts, Redis and systemd.
The middleware notifies apps through one unbuffered channel (`events`), which
`handlers.listenEvents` drains. Scripts notify the middleware through a named
pipe. The update crosses reboots: the middleware starts the install, the boot
script finishes it, and both share one Redis key.

Hard behaviour. Shared state without locks (progress, setup flags, noise
configuration, service info); a lock held across channel sends (handlers);
processes that share a Redis key (update, block download), a file (base.json,
generated files) or a mount point (flashdrive); power loss and restarts between
two writes (update, setup, settings, pairing); partial failure under `set -e`;
retries with a bound (verification, HSM); a pool that runs empty. `PROJECT.json` ("hazards")
lists each at its line, with the properties that watch it.

## 2. Modules

### Handlers, MCHandlers, Handlers_proofs

`handlers.go` and `websocket.go` with the ends of `rpcserver.go` that touch
them. Goroutines: producers that block on `events <- e` (`Emit`, `Accept`),
`listenEvents` (`ListenQueue`, `ListenBroadcast`), `wsHandler` per connection
(`WsRegister`, `WsReplay`), `readLoop` and `writeLoop` per connection. `mu` is
modelled with its owner where it is held across sends (listenEvents and the
replay in wsHandler); both sending loops share `batch`, `left`, `target` and
the rendezvous `Deliver`. Critical sections that cannot block are single steps.
The order in which Go ranges over `clientsMap` is nondeterministic. The
histories `live`, `joined`, `got`, `replayed` record what was broadcast and what
each client was handed.

### UpdateBase, UpdateBase_proofs

The `UpdateBase` RPC: the test for an update in progress, the start of the
script, the scanner of its output, the goroutine that reads stderr, `cmd.Wait`,
the reboot. Each write of `baseUpdateProgress` and the event after it are two
steps, as in `setBaseUpdateStateAndNotify`; calls interleave between them.
`appView` is what the app fetches when it is notified.

### AtomicUpdate, UpdateLifecycle, UpdateLifecycle_proofs

`AtomicUpdate` is the promise of docs/update: try, test, then accept or reject.
`UpdateLifecycle` is what implements it: `bbb-cmd.sh mender-update`, the boot
script `systemd-update-checks.sh` line by line as far as it reads or writes
`base:updating`, the reboots, and the two root filesystems. The script's
program counter is named after the code it tests next (`at10` ... `at40`). The
Mender client and the bootloader are external: an install is refused while an
update is uncommitted, a commit needs an image on trial, an image that was not
committed when the Base reboots is left again. What can go wrong in a behaviour
is chosen once, at its start (`faults`, a subset of the constant `Faults`), so
that one run checks every combination and a property can say which failures it
excepts. Both images are taken to contain the same scripts.

### Setup, Setup_proofs

Password, setup flags, their copies in memory, the RPCs `UserAuthenticate`,
`UserChangePassword` and `FinalizeSetupWizard` with a step for every access to
Redis, `bbb-cmd.sh reset auth`, restarts of the middleware, errors of its writes
to Redis, and power losses, after which Redis has its last snapshot. A password
stands for its hash. Two histories (`acked`, `lost`) say whether a change was
confirmed and whether Redis failed to keep something since the last reset.

### Supervisor, Supervisor_proofs

`bbbsupervisor` beside the systems it watches. Goroutines: one per journal and
one that polls Prometheus, all blocked on unbuffered channels (`LogLine`,
`Measure`, `QueryFails`, `JournalEnds`), and the event loop with its handlers
(`Receive` and a step per command where another process can see the
difference). `last` is `PrometheusLastStateIBD`, `recent` the triggers executed
within the flood interval. Around it: bitcoind, whose download begins and ends;
`bbb-cmd.sh bitcoind resync`, which stops the services and bitcoind, sets the key
and starts bitcoind; systemd, which retries electrs. The commands of
`bitcoin_ibd` change `bitcoin_dbcache` on the way, and the end of a download
`bitcoin_ibd_clearnet`; each restarts bitcoind if something changed (left open:
`EnableDbcache`, `UnsetClearnet`, `DisableDbcache`) and waits until it is up
(`BitcoindRestarted`) or a resync stops it (`RestartCancelled`). A unit whose
startpre script finds bitcoind inactive or `bitcoind:ibd` set does not start. A
watcher holds one line at most, as its channel has no buffer; further lines wait
in the journal. The history `drift` holds the reasons for which the recorded
state and Redis may differ (a resync, a handler that failed half way, a write
Redis refused) and whether a handler failed when it had stopped the services
("halted"). A download is taken to last until it was noticed: it runs for days,
the poll for seconds.

### Hsm, Pairing, Pairing_proofs

`Hsm` is `WaitForFirmware`: probes with a timeout, then exchanges without one.
`Pairing` extends it with `InitializeNoise` and `CheckVerification`, run by one
goroutine per connection on one `NoiseConfig`: every assignment to a shared
field that another goroutine can see is a step. `base.json` is read, modified,
truncated and written in separate steps. A client stands for its static key and
for the channel hash of its handshake. Histories: `cleared` (clients that the
user accepted, or whose handshake overlapped with another one), `kept` (what was
stored with success), `clash` (two stores overlapped, or one was interrupted).

### Sysconfig, MCSysconfig, Sysconfig_proofs

The RPCs that change a setting (`bbb-config.sh enable/disable`), back up to and
restore from a flashdrive, back up and restore the Lightning secret, and reboot.
Each command of a script that touches Redis, its dump, a generated file, the
drive or `hsm_secret` is a step, and every one of them can fail.

A setting is a key with two values. Settings share configuration files:
`Generates` lists the files that a setting's command generates, `Mentions` the
settings that a file's template looks up. bbbconfgen reads all keys of a template
(`ReadKeys`) and then writes the whole file (`WriteConfig`), so that a command
writes the values of other settings too. Enabling `bitcoin_ibd_clearnet` runs the
whole command `enable tor` first if Tor is off (`EnableTorFirst`); `job` says
which of the two commands, and which of its files, a call is at. The Tor switch
is set again at the end (`SetKeyAgain`).

Mounting is check, `umount` of a mountpoint in use, `mount`; a backup is check
and `cp`; releasing is check and `umount`. Another call can come between any two
of these: `umount` and `mount` then fail, and `cp` writes to the directory below
the mountpoint (`under`), where a later restore would find it.

Histories: `first` error of a call; calls that were `disturbed` by others, which
are those that write a key the other one writes or copies to a file
(`InTheWay`), and all calls beside a restore; what is `sure`ly confirmed; `stale`
files, not generated since a restore; `left` (a call was cut off with the drive
mounted, or its `umount` failed); `gambled` (the secret was restored without a
confirmed backup). `MCSysconfig` adds the symmetry of calls.

### Notifications, ServiceInfo, BaseInfo, FanControl, Confgen, MCParts, Parts_proofs

Parts that share no state with one another. `Notifications`: lines in the named
pipe (outcomes, foreign versions and topics, bad payloads, too long ones,
garbage), the scanner and `ipcNotificationLoop`; the histories `scanned` and
`relayed` hold the outcomes of the supported version that were read and those
that were sent on, `unsupported` whether one of another version was. `ServiceInfo`: `rpcLoop` and
`updateCheckLoop` with the unlocked assignments in two halves, and an app that
connects, is notified and asks; two metrics stand for all, one whose failed
query counts as 0 and one whose failure makes the answer an error. `BaseInfo`:
RPCs that read one key after the other while Tor, Redis and Prometheus change,
and the pool of Redis connections. `FanControl`: one cycle per step, integer
PWM, kickstart, restarts. `Confgen`: two processes that write the same file at
their own offsets; `Promised` is what the help text of bbbconfgen says the file
contains, defined apart from the code's control flow. `MCParts` puts them side
by side; in a behaviour one of them moves, which is enough as none can see
another.

## 3. Runs

Passing runs:

| Run | Instance | What it shows |
|---|---|---|
| `handlers_faulty` | 2 connections, 2 events, 1 RPC call at a time per client, one producer of queued events, every connection may fail at any step | a send goes to a registered client whose writeLoop has not returned (`TargetIsRegistered`); a registered client has every event since it joined, in order (`LiveEventsComplete`); the deadlock of section 6 is final (`WedgedForever`) |
| `handlers_steady` | 2 connections, 2 producers (one queues), 2 events, no failures | events reach registered clients (`BroadcastReachesClients`) and queued ones the next to connect (`QueuedReachesNextClient`) |
| `update_calls` | 2 concurrent calls, 2 percentages, on either side of the switch from Downloading to Applying | the app is never left with outdated progress (`AppSeesCurrentProgress`); no lockout (`RefusalIsJustified`); reboot only after a successful install (`RebootAfterInstall`); calls return (`CallReturns`) |
| `lifecycle` | 4 installs, 3 tries, every set of faults without "torn" and "overlap": power losses, failing commands, Redis errors, images that do not boot or fail verification | the scripts implement `AtomicUpdate` (`ImplementsAtomicUpdate`); only verified images are committed (`CommittedWasVerified`); success is announced only when true (`SuccessIsReal`), failure only for an image that is not kept or whose commit could not be recorded (`FailureIsReal`); an image on trial is recorded as such (`TrialIsKnown`); the outcome of every install is announced while the script is not cut off (`OutcomeIsAnnounced`) |
| `setup_all` | 2 clients, 3 passwords, every failure | confirmed changes last unless Redis lost a write (`ConfirmedChangeLasts`); the status is never ahead of Redis (`StatusIsSafe`); the initial password works while the wizard needs it (`InitialPasswordWorks`); the flag is only set when the initial password is gone (`FlagIsEarned`) |
| `supervisor_ibd` | one journal, one log trigger, Prometheus, two services, one fault | the recorded state of the download agrees with Redis (`RecordedIsApplied`); no service runs while a download is recorded and in force (`DownloadKeepsServicesDown`); the end of a download starts the services (`EndStartsServices`); a begin is put into force (`DownloadIsNoticed`) |
| `pairing` | 2 connections, 2 apps, 2 keypairs, 2 probes, one fault or restart | who is stored as paired (`PairedWasAccepted`); who can use a connection (`UsableIsPaired`); what base.json keeps (`StoredIsKept`); that the middleware starts (`StartDecides`) |
| `sysconfig` | 2 calls at a time of 3 in all; Tor and clearnet, which share two files and of which one runs the other's command, and a setting without files; one fault | confirmed results last (`ConfirmedLasts`); the drive is released (`DriveIsReleased`); the first error is returned (`FirstErrorIsReturned`); the Lightning secret is kept (`SecretIsKept`) |
| `parts` | 3 lines and a restart; 3 changes around the polling loops; 2 readers and 8 connections; 4 sets of fan arguments and 12 temperatures; 2 processes, templates with every option of bbbconfgen | outcomes are relayed once and in order (`RelayedInOrder`) and lines worked off (`LinesAreWorkedOff`); the app comes to know (`AppComesToKnow`); reading RPCs fail only for a reason (`ErrorIsExplained`); the fan (`RunsUntilCool`, `FanFollowsTemperature`); the generated file (`GeneratedAsPromised`); types |

Runs that end in a violation (section 6): `handlers_wedge`, `sysconfig_secret`,
`notifications_version`.
The type invariants of the other modules are proved (section 5) instead of run.

Bounds. `MaxClients`, `MaxEvents`, `MaxCalls` bound connections, events and
calls over the life of the process; two connections are enough for a client to
join, leave or fail while the relay is sending to another, two events for
reordering and repetition. Two calls are enough for every pair of accesses to
the shared progress record. `MaxInstalls` bounds updates: the key one update
leaves behind is met by the next, and three allow a success after a rollback
after a success. `MaxTries` stands for the 100 tries of the script; three has a
first, a repeated and a last try. Three passwords: the initial one and two that
replace one another. `MaxFaults` bounds failing commands, restarts and lost
writes together; one is enough for a failure at every step, and the proofs hold
for any number. `LogTriggers` holds a trigger for electrs; the one for the
middleware restarts a unit that nothing else in the model depends on, and the
proofs hold for all triggers. `MaxCalls` of Sysconfig lets a call follow two
others that ran at once, so that it meets what they left; the settings are those
with the most in common, and the proofs hold for all. `BootTimeout` stands for
the 30 probes: a first and a last one. `MaxActive` = 8 stands for the 12000
connections of the Redis pool: the longest RPC takes seven, so the pool runs
empty within a second call. Three lines or changes allow a failure between two
successes. All safety invariants and the refinement are proved without these
bounds (section 5).

Deadlock checking is off where the model may stop: when the bounded events,
calls, lines, keypairs and installs are used up, and, in Pairing, when the
start of the middleware blocks on the HSM.

## 4. Fairness

* Handlers: goroutines that can run do (weak fairness of each loop). Taking
  `mu` and channel communication are strongly fair: Go's mutex hands over in
  FIFO order once a waiter is starving, and the senders waiting on a channel
  are queued. No fairness is assumed of producers, apps or failures.
* UpdateBase: every call proceeds, the install script ends (Mender downloads
  with timeouts), and the events channel is served, which `handlers_steady`
  shows while no connection fails and `handlers_wedge` refutes otherwise.
* UpdateLifecycle: the boot script and an install that was begun proceed, and
  the reboot that was scheduled happens. Nothing is assumed of the start of
  installs or of power cycles.
* Supervisor: a handler that has begun and a resync that has stopped the
  services go on, systemd starts bitcoind and retries a unit (weak). The poll of Prometheus and the
  receipt of its event are strongly fair: both are disabled and enabled again as
  handlers run and queries fail, the poll is repeated after an interval, and `select`
  chooses at random among the ready channels, each of which queues its senders.
* Pairing: `WaitForFirmware` goes on, being a sequential loop.
* Parts: each goroutine's loop and the app that was notified go on; the events
  channel is served, as above; systemd restarts the fan control.
* Setup and Sysconfig have no liveness properties.

## 5. Proofs

All theorems hold for every value of the constants, under the assumptions on
constants declared in the modules (`HandlersAssumption`,
`UpdateBaseAssumption`, `LifecycleAssumption`, `SetupAssumption`,
`SupervisorAssumption`, `HsmAssumption`, `PairingAssumption`,
`SysconfigAssumption`, `NotificationsAssumption`, `ServiceInfoAssumption`,
`BaseInfoAssumption`, `FanControlAssumption`, `ConfgenAssumption`): bounds are
natural numbers, the flags of the fan are integers with a positive minimum PWM
value not above the maximum, and the option `#check`, which the help text of
bbbconfgen does not mention, is not used. Each module with proofs has
`TypeCorrect`, the type invariant (`PartsTypeCorrect` for the parts).

* `Handlers_proofs`. The inductive invariant `IInv` adds to types,
  `MutualExclusion`, `TargetIsRegistered` and `ClosedIsUnregistered` the
  predicate `Lifecycle`: how the program counters of the goroutines of one
  client, its membership in `clientsMap` and its close channel go together. It
  gives `SendersAreSafe`, `OneSender`, `CloseAfterRemove`, and
  `WedgeIsPermanent`: the step
  that would resolve the deadlock needs `mu`, whose owner waits for it.
  `SteadyIsLive` needs one more invariant (`Steady`): without failures no
  goroutine of a connected client leaves its loop. `NoGapsInTheRelay` is about
  sequences: `Relayed` says of every client that what it was handed live is what
  was broadcast since it joined, less the event that is being sent to the
  clients still left in the batch (`Due`).
* `UpdateBase_proofs`. `RefusalIsJustified` is not inductive: that the busy
  states Downloading and Applying always have an unfinished call that will
  reset them (`Owned`) and how a call's position restricts its script
  (`Control`) make it so.
* `UpdateLifecycle_proofs`. `TypeCorrect` and `OnlyTrialsAreCommitted` hold
  whatever fails. The others assume `Sound`: no torn and no overlapping install
  (both counterexamples are real). The invariant says that the installer and
  the script exclude each other (`Exclusive`), that a freshly installed image
  is unverified and recorded as 10 (`Fresh`), what the key may be for an image
  on trial (`Trial`), and that 30 or more is only reached with the running
  image verified (`Tested`). `Refinement` shows initial states and every step of
  the scripts to be initial states and steps, or stutters, of `AtomicUpdate`.
  `FailureIsTrue` rests on `Announced`: while an update is under way the
  committed image is older than the one being installed (`Older`), when a
  failure can have been announced before it ends (`Unfinished`), and once the
  installed image is permanent the key is 0, 30 or 40 and the script has no way
  to announce a failure but with 30, a commit that was not recorded (`Settled`).
* `Setup_proofs`. `FlagAfterPassword` rests on `Earned`: a call that has written
  the password finds no initial password, and NewMiddleware decides while no
  call is under way. `ChangesLast` and `StatusAndWizard` rest on `Remembered`:
  outside a reset, what is remembered in memory is in Redis, as long as Redis
  lost nothing. `WizardCanBegin` needs no such exception.
* `Supervisor_proofs`. `RecordIsTrue` and `ServicesStayDown` speak of the moments
  between two handlers; `Inv` says what holds inside one: record and Redis differ
  only between the last two commands of the handler that ends a download
  (`RecordedOrStarting`), and the services are down from the first command of the
  handler that begins a download until it has set the key, restarts of bitcoind
  included (`StoppedFirst`).
* `Pairing_proofs`. `PairInv`: the shared values a handshake works with are its
  own, unless it overlapped with another one (`OwnValues`); what is about to be
  stored is accepted (`OnlyCleared`); the holder of the ciphers, while not
  accepted, is alone in its handshake and must still be verified (`Unverified`).
  It gives `PairedClientsWereAccepted` and `UsableConnectionsArePaired`.
  `StoredStays` needs `OneStore`: without a clash one goroutine stores at a time,
  and what it read contains all that was stored before.
* `Sysconfig_proofs`. `DriveReleased` and `FirstErrorCounts` are close to
  inductive once the operation of a call is tied to its position (`OpAtPc`).
  `ConfirmedResultsLast` and `SecretKept` rest on `SureInv`: calls in each
  other's way are both marked (`Marked`), nothing a call still has to write is
  promised (`Unpromised`), nothing at all while Redis is stopped (`AwayInv`), and
  an undisturbed call has come as far as its position and file say (`SetInv`,
  `RestoreInv`). Files are shared, so that a call may write a promised setting
  that is not its own: `CopyInv` says that what a call has read and not yet
  written agrees with every promise about a setting that the file mentions.

* `Parts_proofs`. Every part has a specification of its own (`NotifSpec`, ...),
  which the composition implements (`PartsRunOnTheirOwn`).
  `OutcomesAreRelayed` needs who holds a line or an outcome at each position of
  the two loops (`HandOver`): the channels between them have no buffer.
  `FanRunsUntilCool` needs what the program remembers of the last cycle
  (`FanMemory`) and that the slope, an integer division, loses less than one
  step per degree (`Slope`). `ErrorsAreExplained` needs that every reason present
  while an RPC runs has been noted, a missing onion address also when Tor was
  switched off after it had been read as on (`InCall`).
  `FileIsGeneratedAsPromised` rests on
  `Steady`: as long as Redis does not change, a process at a line of the
  template writes at the place which that line has in the promised file
  (`Place`), and there is a process that has lost none of its lines, the one
  that truncated the file last (`Prefix`).

Only model-checked, because liveness under fairness is out of the prover's reach:
`BroadcastReachesClients`, `QueuedReachesNextClient`, `CallReturns`,
`OutcomeIsAnnounced`, `EndStartsServices`, `DownloadIsNoticed`, `StartDecides`,
`LinesAreWorkedOff`, `AppComesToKnow`, `FanFollowsTemperature`. Every other
property that a passing run checks is stated by a theorem.

## 6. Disagreements between code and documentation

Three are runs that TLC ends with a counterexample; quotations are in
`PROJECT.json` ("findings").

* `handlers_wedge`: listenEvents sends to a client under `mu`; if the client's
  writeLoop has failed it waits for `mu` and receives no more. Events stop for
  all clients although the relay "listens indefinitely".
* `sysconfig_secret`: the restore of the Lightning secret pipes redis-cli into
  base64; while Redis is stopped it succeeds and leaves an empty file, where the
  comment says that the script terminates.
* `notifications_version`: a notification of an unsupported version is logged as
  dropped and processed all the same; the app is told its outcome.

Met while modelling, and visible in the models without a run of their own:

* Update. The test for an update in progress and the first progress line are
  apart, so two calls can install at once, where the comment at
  middleware.go:784 allows no other update meanwhile. An install that ends while the boot
  script is at work has its key overwritten by 30 and is committed unverified
  (fault "overlap"), as is one cut off between `mender -install` and the write
  of 10 with a 30 left from before ("torn"): add them to `Faults` of
  `lifecycle`. A power loss between commit and the write of 40 makes a
  committed update be announced as failed, which `FailureIsReal` excepts by the
  key that stays at 30; `set -e` can end the boot script with the image neither
  committed nor left ("abort"). `UpdateBase` closes stderr at the end of stdout,
  so that the error code may be lost (middleware.go:902 against the comment at
  851). The boot script compares an unset key with the empty string while
  `redis_get` gives -1 (line 37).
* Setup. A confirmed password change is undone by a power loss within a minute,
  because the middleware does not save Redis. `FinalizeSetupWizard` does not
  update `isBaseSetupDone`. Two concurrent changes with the same current
  password both succeed.
* Events. The queue of events is replayed at every connection and never emptied.
* Notifications. A line longer than the scanner's buffer ends the reader for good.
* Settings. Two commands that generate the same file (torrc, sshd_config,
  bitcoin.conf, iptables.rules) at the same time can undo one another's change in
  it, and both calls report success; so can a restore and any other call. A
  restore generates no files. A backup can miss the drive: if another call
  unmounts it after the check, `cp` writes below the mountpoint; the call then
  reports that nothing is mounted, or success if yet another call mounted again.
* Redis. A connection is taken for every access and never closed; when the pool
  is empty every reading RPC fails until the middleware is restarted.
* Pairing. Overlapping handshakes replace one another's ciphers and client key;
  overlapping stores lose a pairing or the keypair. A failed third message
  leaves no ciphers, and the next message of another open connection panics.
  The start blocks on an HSM that falls silent after its probe.
* Supervisor. A write that Redis refuses is recorded as done. Clearnet can be
  switched on after a download, and nothing switches it off. A handler that fails
  after it stopped the services and before it set the key leaves them stopped if
  the download ends before the next attempt, as nothing is recorded that would be
  undone ("halted").
* Tools. bbbfancontrol divides by zero for equal minimum and maximum
  temperatures, which its check lets pass. Its help text says "max fan above" the
  maximum temperature (bbbfancontrol.go:53), but the slope is an integer division
  and the fan stays up to one step per degree below its maximum; `RunsUntilCool`
  grants that.

## 7. What is not modelled

* Contents: RPC arguments and results, message encoding, encryption, wording;
  the parsing of Prometheus' JSON, of IP addresses and versions.
* The expiry of tokens, the keys of sshd, the login password, Wi-Fi, and the
  settings that the boot script resets at the end of an update.
* `setHSMConfig` and the heartbeat of the HSM, whose errors are only logged, and
  `waitForBootloader`, which nothing calls.
* The sorted sets of the Redis client, which nothing uses, and its failure to
  save after a successful `SET` in the scripts of Setup and UpdateLifecycle.
* A missing `base:version`, for which `Start` uses a nil pointer: the factory
  settings set it.
* The generation of bitcoin.conf by the supervisor's and the resync's commands
  beside the RPCs of Sysconfig; the second copy of a backup with its date, the
  reset token, and a backup file that a power loss leaves half written.
* The image build: it runs once and keeps no state.

## 8. Plan

Done: event relay (Handlers), update RPC (UpdateBase), update across reboots
(UpdateLifecycle with AtomicUpdate), setup (Setup), supervisor (Supervisor),
pairing and HSM (Pairing, Hsm), settings, backup and restore (Sysconfig), and
the independent parts (MCParts), with proofs of every safety invariant that a
passing run checks.

Left, in this order:

1. An abstract specification of the event relay, implemented by Handlers, and of
   a one-at-a-time store for `base.json`, implemented by Pairing without clashes.
2. The heartbeat and the configuration of the HSM; token expiry; the login
   password.

The project keeps to a dozen runs, one per question; a violation keeps a run of
its own where no passing run with the matching exception tells what the code
guarantees.
