# waired-agent in TLA+

This directory holds TLA+ specifications of `waired-agent`, the daemon that
joins a device to a Waired mesh and routes inference requests over it: TLC
configurations that check them on small instances, and theorems about them
with proofs TLAPS checks for every value of the constants. Every definition
is translated from the Go code; `PROJECT.json` maps each one to its lines (for
a component that spans whole packages it names their largest files).

Contents: [inventory](#inventory), [what is modelled](#what-is-modelled),
[runs](#runs), [fairness](#fairness), [proofs](#proofs),
[findings](#findings), [what is not modelled](#what-is-not-modelled),
[plan](#plan).

## Inventory

`cmd/waired-agent` is the daemon and holds the program's control logic;
`internal/` holds its subsystems, `proto/` what it shares with the control
plane; `cmd/waired` and `cmd/waired-tray` are clients of its management API.

| Component | State it keeps | Operations | Interacts with | Hard because | Correct when |
|---|---|---|---|---|---|
| Node Key rotation (`node_key_rotator.go`) | `secrets/node.key`, `node.key.next`, the rotation clock | rotate, recover a staged key, promote, trigger a re-activation | control plane (POST, map), sign-in and sign-out through the key files | a commit at the control plane and a rename on disk are two steps; crashes, lost answers, late commits | whatever key the control plane holds is on the device's disk; only such a key is promoted; the two agree again |
| Session lifecycle (`session.go`, `login.go`, `logout.go`, `activation.go`, `main.go`) | the switchboard, `loginController.session`, `reactivateMu`, the listener's handler | boot activation, sign-in, replacement of a sign-in, re-auth, re-activation, sign-out | the enrollment on disk; every session-scoped goroutine | five actors, two locks that do not cover the same steps, publishes by compare-and-swap | one live session, built from its own sign-in's credentials; sign-out leaves none; sign-ins and sign-outs end |
| Device token refresh (`token_refresher.go`, `auth_state.go`, `controlclient/refresh.go`) | refresh token, access token and expiry in memory and in three files; the pending rotation | wake, rotate, replay, persist, publish, give up; the pre-flight refresh of an activation | control plane, activation and teardown | a one-time-use token whose reuse revokes the device; lost answers, failed writes, a memory that goes with the process | a retry is a replay, never a reuse; nothing is live before it is durable; only a final refusal ends it |
| Disco probe rounds (`internal/network/disco`) | pending probes, open rounds, round counter, peers | a pass of the prober, pongs, the sweep, the map | reconciler (events), relay and UDP sockets | three goroutines count the same round; the entry is made lazily and swept twice | a round is reported at most once, when all its probes are accounted for |
| Path selection (`reconcile.go`) | the map, one path state per peer | map, disco events, the fallback ticker, recompute | disco, WireGuard engine, call-me-maybe | three goroutines recompute without a common lock; several clocks and counters decide one switch | states are the map's; switches respect the dwell; a dead path is left; the engine has what the states say |
| Call-me-maybe (`disco/cmm.go`, `inbound.go`, `reconcile.go`) | hints, cadence, fail streak | emit, receive, punch | relay, disco | both sides have to punch in one window | backs off, is bounded |
| Relay sessions (`wgnet/bind.go`, `relay/client`) | one session per URL, its redial backoff, its fingerprint | ensure, evict, drop, reopen | reconciler, network map, engine | a session's end races its replacement; a fingerprint is read under one lock and used under another | one session per URL, none with a fingerprint that was replaced; a relay that answers is reached again |
| Map subscription (`main.go`, `controlclient/network_map.go`) | the stream, its backoff | subscribe, deliver a frame, reconnect | reconciler, aggregator, peer directory, setup | frames against errors; a frame updates four consumers in turn | the consumers converge on the last frame |
| Mesh aggregator (`inferencemesh`) | the peers' last states, frame time | update, snapshot | disco (liveness), router, tray | three notions of stale | no dead peer is offered |
| Router (`internal/router`) | in-flight counts, sticky bindings, error window | rank, assign, commit, abandon, release | gateway, aggregator | a slot is taken before the probe and given back on six paths; each request reads capacities from its own snapshot | admission never exceeds what was advertised; counts are exact; a pin is kept; own computers before public ones |
| Gateway (`internal/gateway`) | the probe round of a request; the watch on a leg's first byte | probe, walk, retry; wait, trip, disarm | router, peers | four parties may end a wait at once | one verdict; a real answer wins; every request ends |
| Overlay inference server (`internal/inference`) | in-flight count, nonce cache | authorize, admit, serve | peers, engine | two limits with eviction | no replay inside the limits |
| Engine control (`engine_*.go`, `runtime/ollama.go`, `pause.go`) | the process and its generation, strikes, latch, parked flag, desired phase | start, crash recovery, drain, bounce, park, pause | engine adapters, gateway | a start, a bounce, the operator and the supervisor act on one process | one engine at a time; a stop holds; our own stops are no crashes; every start ends |
| Model choice (`inference*.go`, `setup_desired.go`, `*_switch.go`) | the preference (file and process), catalog rows, downloads, what they defer | choose, pull, cancel, delete, switch, repair at boot | control plane, engine control | minutes between a check and its use; a choice is written, published and served in three places | a choice is served or still asked for; what a download asks is asked once it has ended; records stand by what they record |
| Public sharing (`public_*.go`) | grants, the usage table | record, flush, requeue | control plane, inference server | a push whose outcome is unknown | never counted twice |
| Enrollment, identity, keys (`setup`, `identity`, `devicekeys`, `deauth`) | files under the state dir | enroll, wipe | session lifecycle, key rotation | several files, several writers | see the first three rows |
| Adapters, installers, hardware, catalog, integrations, CLI, UI, wire formats | little of their own | | | effects, arithmetic or text | tested as such |

How they interact: the control plane hands the daemon a network map; the map
loop gives it to the reconciler, the aggregator and the peer directory. Disco
probes the map's peers and reports rounds to the reconciler, which alone
decides each peer's endpoint and hands it to the WireGuard engine. The token
refresher and the key rotator are goroutines of the live session; a promoted
Node Key asks for a re-activation, which tears the session down and builds
the next from disk, the same path a re-authentication takes. Sign-in and
sign-out reach the session through the switchboard and the disk. The gateway
asks the router, which asks the aggregator, for a place to run a request.

`PROJECT.json` lists the main hazards of each part at the line where they
bite; the properties are there for them. Others, kept here for the modules of
the plan: a sign-in over a live session saves its tokens while the old
session's refresher may save older ones (`enroll.go:157`); the leak guard of
disco (`inbound.go:445`); a peer without a home relay is downgraded by missed
rounds and cannot be upgraded (`reconcile.go:595`); the disco service drops
events when its channel is full (`service.go:664`); a refused peer set is not
pushed again (`reconcile.go:1184`); call-me-maybe's backoff
(`reconcile.go:1096`); two writers of `node_key_meta.json`
(`token_refresher.go:453`); the relay's inbound queue drops when full
(`relay/client/client.go:303`); GC drops the rows the second chance of a
sticky binding reads (`sticky.go:132`); the step arithmetic of the error
window (`error_window.go:133`); the nonce cache evicts live nonces at its
limits (`nonce_bound.go:78`); an out-of-memory park that is checked and then
noted (`ollama.go:1029`) and a start that reports after a stop
(`ollama.go:648`); the drain's count reads zero and the bounce follows, with no
hold on new turns between (`engine_drain.go:101`); a restart that fires after
the engine was parked (`engine_power.go:282`); a pause writes the desired
phase, the flag and the state file without a lock (`pause.go:75`); a push of
usage whose outcome is unknown (`public_usage.go:310`) and a requeued chunk
that meets a full table (`public_usage.go:177`); the hold of the boot download
against an instruction that arrives (`inference_prepull_hold.go:155`); the
aggregator's two clocks (`aggregator.go:254`); a frame against the stream's
error (`main.go:2409`).

## What is modelled

Ten components, each in a module of its own (the router and the gateway's
probe round share one). They meet in the state each one shares with its
neighbours, which is in the neighbour's module as an action: sign-in and
sign-out are writers of the key files in `NodeKeyRotation`, a rotation is an
actor of `SessionLifecycle`, a teardown is a fault of `TokenRefresh`, the
verdicts of `DiscoRounds` are the round events of `PathSelect`, a network map's
fingerprints are an action of `RelaySessions`, a leg that ends (`PeerWait`) is
`Done` in `RequestRouting`, and the switch a `ModelSwitch` asks of the engine
is `Switch` in `EngineControl`.

A module holds one type invariant. It is part of the inductive invariant proved
of the module, and in some runs the first conjunct of a stronger invariant.

### NodeKeyRotation

| State | Code |
|---|---|
| `nodeKey`, `stagedKey` | `secrets/node.key`, `secrets/node.key.next` |
| `cpKey`, `committed` | the key the control plane holds; every key it has held |
| `published`, `sessKey` | the key the last map names for this device; the session's `CurrentNodeKey` |
| `pc` | where `Run` is: recovery first (`recover` ... `recApply`), then the loop (`loop` ... `rotApply`), then the re-activation |
| `req`, `reply`, `orphans` | the POST being waited on, its answer, and POSTs nobody waits on |

`StageNew`, `Send`, `RotateAccepted/Mismatch/Error` and `ApplyRotated` are
`rotateTo`; `RecoverNone/Accepted/Mismatch/Error` and `AdoptStaged` are the
recovery. `EnrollStart/Finish/Fail` and `SignOut` are the other writers of
the files. What may go wrong (crash, lost answer, teardown, sign-in, failed
file operation) is `faults`, a set fixed at the start, so that a property can
say under which faults it holds.

### SessionLifecycle

Actors are the boot activation, the sign-ins, the rotator and the sign-out,
each with a program counter for `activate` / `rebuildSession` /
`deactivateSession` (`apc`) and, for sign-ins and sign-out, one of its own
(`lpc`, `opc`). A build is one run of `activate`; `cur` is the one the
switchboard published, `running` those with goroutines and an engine,
`proxy` the one the Claude listener dispatches to. `mu` is `reactivateMu`;
`lc.mu` is held by the sign-out from its first step to its last, which is
what the guard `LcFree` says. Credentials are the number of the sign-in that
obtained them, so a session built from someone else's tokens shows.

### TokenRefresh

Tokens are generations. `cp` is the control plane's current one and the nonce
that burned the one before; presenting the burned one with that nonce is a
replay, with another it is theft. `pend` is `tokenRefresher.pending`, `disk`
and `mem` are the two copies with their expiry. `Load` and `StartRun` are the
activation with its pre-flight refresh, `Wake` to `Publish` are `Run`,
`refreshOnce` and `rotate`. The eight faults split in two: those after which
the agent still knows what to repeat (`Remembered`), and those after which it
does not. Time is counted for the pending rotation: `age` since its first
attempt, of which each attempt takes any part of its timeout (`Accepted`,
`OutcomeUnknown`), and the waits of `refreshOnce` and `Run` take theirs; past
`Window` the next `Send` draws a new nonce for the same token, as
`rotationNonce` does. So the faults themselves make a rotation outlive its
window; `late` records that one did, and `failed` counts the faults it met.
`Expire` lets a refresh point pass only when no rotation is pending
and nothing is on the wire: an access token outlives one exchange and its
replay. A sign-in over a running daemon is left out, and so is the development
client whose requests have no timeout (`main.go:2465`). The control plane is
taken to answer a replay however late it comes.

### ProbeRounds and DiscoRounds

`ProbeRounds` is what the disco service promises the reconciler: a round is
reported at most once, only when each of its probes was answered or missed,
and as a success exactly if one was answered; it may be lost. `DiscoRounds`
is the code: the prober's pass over the peers, the pongs, the sweep with its
two steps (misses, leak guard), the lazily made round entries. `Promise` in
it instantiates the abstract module through the mapping `RoundState`, and
`KeepsPromise` is checked as a property. A round is lost from the step at which
less is known of it (`Known`: counted or pending) than was sent, which is also
what becomes of a round whose entry the leak guard drops during its own pass.

### PathSelect

The reconciler with its three callers (map loop, disco events, ticker). Each
changes the path states under `r.mu`, lets go, recomputes a peer set under
`r.mu`, and pushes it outside: three actions per goroutine, which is where
the interleavings are. Round-trip averages are kept as the band their ratio
is in, the ring of pongs as its trailing run, and ages stop at the threshold
they are compared with. An event is dated when the sweep or the pass that emits
it begins, and handled later, after a wait in a channel and perhaps a POST of
another event: it comes with an age of up to `MaxLag`, and what it dates (a
switch, the evidence of a path) is dated by that age; one without a time is
`Undated`. `since` is the time since the real switch plus what the event that
made it had been under way, to compare with the date the code keeps. `Block` makes a direct path dead for
good.

### RelaySessions

The bind's relay map (`relays`), its retry state (`fails`, `wait`) and the
provider's fingerprints (`pins`), under two locks: `dialing` is the sender
that holds `relayMu` and reads the fingerprint in between under `p.mu`; `rp`
is `replacePeers`, which swaps the fingerprints under `p.mu` and drops the
sessions that used the old ones after it let go. `run` is each session's
goroutine: its handshake, its pump, its end, `Judge` (the `ctx.Err()` read
before the lock) and `Evict`. A relay presents a certificate, numbered by its
restarts. `CloseStart`, `CloseSessions` and `Open` are BindUpdate. Session ids
stand for pointers and are used again once nothing refers to them.

### RequestRouting

| State | Code |
|---|---|
| `inflight`, `local`, `sticky` | `InFlightTracker`, `Assignments.local`, `StickyInFlight` |
| `bound` | the sticky table |
| `cands`, `held`, `spread` | a round's candidates, whether the first holds its assigned slot, the peer it is spread from |
| `res`, `winner`, `at` | what the probes said, the index decided on, where the walk is |
| `served`, `engine` | the committed candidate; who has a slot of this device's engine |

`Rank` is the ranking under Assignments' lock, from an arbitrary order of the
offered places (the scores), said by what the code's moves leave: a pin alone
(`PinAlone`), whoever the admission filter lets by (`HasRoom`), the bound peer
ahead of its tier and own before public (`Orders`), and a busy bound peer moved
to the end of its tier in the window (`Demotes`, `Moved`). `Assign` takes the slot and releases the lock. `Probe` is
`ParallelProbe`, one step, since nothing of the round shows meanwhile; its
result is any set of answers on which the decision can fall. `Walk`, `Return`,
`Again` and `GiveUp` are `tryProbeAndCommit` and the loop around it, `Release`
is the handler's deferred closure.

### PeerWait

One streamed turn that waits for its peer: `request` is the call, `loop` the
watch goroutine with its misses, `timer` the flat budget's or the ceiling's
timer, `reason` and `disarmed` the two fields of `preCommitWatch` under its
lock. `heard` keeps the last two verdicts of the watch to compare its count
with. Headers may come after the cancel, timers may be late, and the client
may hang up at any time.

### EngineControl

`state`, `parked`, `giveUp`, `proc` and `fresh` (the child of the current
`procGen`) are the ollama adapter; `lead` is the goroutine of the start in
flight, which everybody else joins; `stop` is each caller's `Stop`; `bounce`
is `reconcileEngineServe` with its flag and its loop; `watchers` and `seen`
are `superviseChild` before and after it has read the generation; `deaths`,
`failures`, `latching` and `timers` are handlers under way. A child has a
process tree of its own: it may leave runners behind, may not be collected in
time (`Jams`), and an engine of a previous run of the agent may hold the port
(`orphan`). `Unreadable` is the sweep that cannot read a retired child's tree:
it drops the child from the record and the start goes on without waiting for it,
so that the child may still be there beside the next one (`unread`), hold its
port and answer its probe.

### ModelSwitch

Two goroutines choose a model: setup for the control plane, and the management
API for a person. `file` is `preferred-model.json`, `override` the choice
published in the process, `cfg` what the process read at its start. `row` and
`active` are the catalog, `job` is `pullsInFlight`, `deferred` what finished
downloads asked of the engine, `firing` the jobs that left last and have yet to
ask. `rc` is the reconcile goroutine as far as it reads and activates a choice,
or returns because the catalog cannot be read, with the switch consumed.
`DeleteLoads` to `DeleteErases` are `DeleteModel`, with the catalog it loaded in
`del`; the choice and the file are each read in one step and cleared in the next,
whatever they hold by then. `Restart` keeps the two files, and `BootLooks` to
`BootPulls` are `bootstrapPreferredModel` after it: the row is read, the engine
asked whether it has the tag (`engineServesTag`), and the choice is activated, or
its download begun or refused. The first process has no choice to boot with.
History: `wanted`, the choice published last; `reached`, it has been active
since; `hindered`, it met one of four things the code does not get past before
a restart or another choice; `torn`, a deletion wrote back a catalog that had
changed under it. The four: the catalog could not be read when the reconcile had
the switch in hand, or at the start; it could not be written when the switch was
due; the engine did not show the model at the start; a deletion that had looked
at the choice before this one was about to wipe it. `ChoiceNotForgotten` claims
nothing for a hindered choice, and that it is in force and served or on its way
for every other.

## Runs

`tlc -config X.cfg M` runs each; twelve in all, ten that check what holds and
two that exhibit a claim of the code's own comments that does not.

| Run | Bounds | Distinct states | Shows |
|---|---|---|---|
| `rotation_faults` | 3 keys, 2 crashes; crashes only, and all five faults | 279,528 | promotes only what the control plane held, whatever fails; with crashes alone no committed key is lost, none is staged over, and the two sides agree again |
| `rotation_lost` | lost answers only | violation | `CommittedKeyOnDisk`: a timed-out POST that committed loses the key |
| `session_lifecycle` | three instances: 2 sign-ins and sign-outs with 2 failures; boot, re-auth, rotation, wiped state dir; 2 sign-ins with rotations | 23,883 | one live session, built by the current sign-in from its own credentials; sign-outs leave nothing; every sign-in, sign-out and boot activation gets to its end |
| `session_rotate_logout` | 1 sign-in, a rotation, a sign-out | violation | `SignedOutStaysOut`: a session outlives the sign-out |
| `token_refresh` | 4 faults, 3 refresh points, time in tens of seconds; remembered faults only, and all | 251,177 | lost answers and failed writes read as theft only after a rotation was open for a whole replay window; one fault always fits the window; nothing live before durable; only a final refusal ends it; a stale access token is renewed or given up |
| `disco_rounds` | 1 peer, 2 targets, 2 rounds, passes of up to 2 units | 41,582 | the code implements `ProbeRounds`; the counts balance; a timely round is reported |
| `path_select` | 1 peer with a relay, a dwell of 2, events up to 1 old, every other threshold 1 | 594,398 | states match the map; a switch waits for the dwell from the date of the last one, however old the events are; a dead path is left |
| `relay_sessions` | 1 URL, 3 session goroutines, one each of restart, omitting map, broken session and Close/Open | 277,389 | one session per relay; none outlives the fingerprint it was pinned to; a relay that is up is connected again |
| `request_routing` | 2 requests, 3 peers, 2 candidates a round, 1 engine slot; four instances | 148,402 | counts are exact, admission is kept, a pin is honoured, own computers come first, every request ends |
| `peer_wait` | four policies, 7 instants | 37,994 | a cut is clean (one reason, told truly, never after the headers); the watch cuts only on two misses in a row; every turn ends |
| `engine_process` | 2 children, 1 strike, 1 waiting death, 4 events | 247,815 | never two engines, but for one whose tree could not be read; a parked engine holds no process; our own stops are not counted as crashes; every start ends |
| `model_switch` | 2 models, 3 events | 318,805 | a running download has its row; what downloads deferred is carried out; a choice is not forgotten unless hindered; a ready row stays |

### Why the bounds are enough

- Three keys are the current, the staged and one more, which is what it takes
  to stage over a staged key or to rotate away from a committed one; two
  crashes let a recovery be interrupted by a crash. The safety part is proved
  for any number.
- Two sign-ins make every pair (a replacement and what it replaces, a re-auth
  over a session); chains of three are under the observations below. The safety
  part is proved for any number, under the hypotheses its theorems name.
  The builds bound leaves one to each sign-in, failure and boot attempt;
  `RotateTrigger` respects that, so no sign-in fails for want of a build.
- Four faults are two lost answers and two failures of another kind in one
  token's life, and three refresh points let the second rotation after them
  go wrong. A unit of time is ten seconds: the window 6, the back-off and the
  client's timeout 3, the pre-flight's deadline 1, and `RetryDelay`, two seconds
  in the code, rounded up to 1. The safety part is proved without the bounds,
  for any times with an attempt and a wait inside the window (`TimeAssumption`).
- Two rounds of one peer overlap: probes of the first are in flight while the
  second is sent. `Late` = 3 units is the first age over twice the interval,
  which is where the code's two horizons are. A pass of up to 2 units lets the
  sweeper run at any age of a round still being sent; of 3 or more the leak guard
  reaches it and `RoundBalance` fails (see the observations). The refinement is
  proved for passes of any length.
- With the thresholds 1 in `PathSelect`, each guard is crossed by one event,
  and every sequence of up to the threshold's length is a sequence of the model
  up to repetition; the dwell is 2 and an event up to 1 old, so that an event
  from before a switch, one from after it and an undated one meet each age of
  it; the proofs of its safety properties hold for any
  thresholds, peers and relays. Peers do not interact but through the engine's
  peer set, which is pushed as a whole.
- `RelaySessions`: one URL, since URLs share only the two locks and the bind's
  `closed` flag. Three goroutines are a session, its successor and one that a
  drop left to end; one restart, one omitting map, one broken session and one
  Close/Open cycle combine in every order. `RedialMax` is twice `RedialBase`,
  so that the doubling is capped.
- `RequestRouting`: two requests contend for one slot; four instances keep the
  questions apart (turns of one conversation with a pin; warm and cold; a
  capacity that changes; rounds that are tried again).
- `PeerWait`: four policies, whose last check falls before, at and after the
  ceiling, up to the instant 7. The safety part is proved for any policy.
- `EngineControl`: two children, since a third can only be spawned when one is
  forgotten; a budget of one strike, so that the second is over it; four events
  (a demand, a command, a death, a jam, an unreadable tree, a stable spell) are
  a stop and a start around two deaths. The safety part is proved for any number.
- `ModelSwitch`: two models and three events: two choices and a cancel, a
  choice against a deletion and a restart, a download, a retune and a choice, a
  choice, its catalog failing and a restart. A fourth event is over the time of
  a run; the four properties are proved for any number. The models are symmetric (no property names one).

`CHECK_DEADLOCK FALSE` stands where a behaviour may end: the bounded supply
of keys, sign-ins, faults, rounds or events is used up, the refresher has given
up, the turn is over. `PathSelect` never stops and has deadlock checked.

## Fairness

Weak fairness is put on steps a goroutine takes by itself and on the control
plane answering what has reached it; nothing makes a fault, a sign-in, a
pong, a handshake or a rotation happen.

- `NodeKeyRotation`: the rotator's goroutine, the restart of the daemon by
  its service manager, the map subscription (it reconnects for ever), and the
  teardown that `reactivate` starts once a key is promoted.
- `SessionLifecycle`: each goroutine; strong fairness for taking
  `reactivateMu` (Go's `sync.Mutex` hands over to a waiter after a
  millisecond) and for a sign-in's steps, which take `lc.mu` between other
  holders. A sign-in's wait for the browser ends since the control plane
  closes the window.
- `TokenRefresh`: the refresher and the control plane.
- `DiscoRounds`: prober, sweeper and time; a pong never has to come.
- `PathSelect`: the ticker, time and each goroutine's way through recompute.
- `RelaySessions`: senders (WireGuard retransmits, disco probes every pass),
  session goroutines, `replacePeers`, the reopening of a bind, time, and a
  control plane that sends a complete map when the last is out of date.
- `RequestRouting`: each handler's steps; strong fairness for the selection
  lock (as above) and for the engine's slot (its queue is first come first
  served).
- `PeerWait`: time, the timer, the watch, the handler once its call has
  returned; a call ends for certain only when its context is done.
- `EngineControl`: every goroutine of the agent; a stopped child exits or is
  given up on. No child ever has to become ready.
- `ModelSwitch` states none: its properties are safety.

## Proofs

Eight modules hold theorems. Each theorem is of `Spec`, needs no fairness, and
assumes only the named `ASSUME`s of its module (which say what sort of values
the constants are). `BalanceAlways` and four theorems about sessions have a
hypothesis of their own, named in their statement; it says where the property
holds at all. Two modules hold the proofs of two components each; there the
second component's behaviour has names of its own (`WaitInit`, `WaitNext`,
`WaitSpec` in `PeerWait`, `SwitchInit` and so on in `ModelSwitch`), so that one
module can extend both.

**NodeKeyRotationProofs.** `IInv` is type correctness, `PostIsStaged` (the
key posted is the staged one), `AnswerIsCommitted` (an accepted answer and a
published key stand for keys the control plane has held) and
`EnrolledHasKey`. `TypeOK` and `PromotesOnlyCommitted` alone are not
inductive: that a rename promotes a committed key depends on what the answer
or the map said steps before. From it: `TypeCorrect`, and `PromotionSafe`
under every fault. `CrashInv` adds, for crashes alone, where the control
plane's key is at each place of the rotator (`CommittedWhere`) and what a POST
left behind by a crash may still do (`OrphansStaged`: commit the key that is
staged now, nothing else). From it: `CrashSafe` (no committed key is lost by
any number of crashes) and `NeverStagesOver`.

**SessionLifecycleProofs.** `IInv` is type correctness, `Numbered` (sign-ins are
numbered as they start), `Current` and `Placed` (which actor may be where in
its run and in `activate`; from them `OnlyCurrentAlways`), `Fresh` (builds are
numbered as they begin), and one part or more per property.

- `OneLiveSession`: who tears down holds `reactivateMu` until what it builds is
  published (`Locked`). Publishing does not ask for the mutex unless it rebuilds,
  so this alone does not keep the others out: between a teardown and the reset
  after it somebody may publish, and the reset then drops a running session.
  `Undisturbed` is where nobody can: `Lone` (no boot, no rotation), `NoClash` (no
  sign-out, and not both rotations and re-authentications; whoever rebuilds has a
  session to replace, `Replaces`, so nobody else publishes), `FewSources` (no
  sign-out and at most two sign-ins and boots, of which one is over once a session
  has been up, `OneLeft`) or `OneSource` (one sign-in and no boot, whatever follows
  it). Then `TornDown` holds in between and `OneLive` follows: a running build is
  the session's or in an actor's hands. The first instance of `session_lifecycle`
  is `Lone`, the other two are `FewSources`. Outside the four it can fail, as TLC
  finds with two sign-ins, a rotation and a sign-out.
- `SignedOutOfSignIns`: `Enrolled`, with what the current sign-in has written by
  where it is, and no session from a sign-out's reset to its wipe.
- `ListenerServesLive`: `Listens`, which follows the handler through a build, and
  `BuildsCounted` (each sign-in builds once), which with `Enrolled` shows that no
  activation fails for want of an enrollment or of a build. `ListenerAlways` asks
  that the bound on builds leaves one to every sign-in.
- `SignInUsesItsCredentials`: `Handover` (whoever has started is the current
  sign-in, or over, or the one the current sign-in waits for) and `Own` (past its
  last write the tokens on disk are the current sign-in's, and so are those of its
  build). They are inductive given `NoQueue`: no sign-in that still waits for
  another is cancelled. `CredentialsAlways` assumes it at every moment; `CredentialsOfTwo` needs no hypothesis but the number of sign-ins,
  since the third is the first that can find one waiting (`Ordered`).

**TokenRefreshProofs.** `IInv` is type correctness, `Generations` (wire and
memory never ahead of disk, disk at most one behind the control plane),
`OneRequest` and `RefusedForGood`. From it: `TypeCorrect`, `DurableFirst`,
`EndsForGood`. `RememberInv` says, for faults that leave the agent its
memory and as long as no rotation has been open for a whole window, that no
theft was seen and, on a device in good standing, that the
burned token is the pending one with the nonce that burned it
(`BurnedIsPending`) and that everything on the wire is that same request
(`WireIsPending`). From it: `NeverStolen`, for any number of faults and
generations. `FitsInv` follows a rotation's age against the faults it has met:
with none it is no older than the attempt it is in, with one it has an attempt
and a wait behind it. From it: `OneFaultFits`, for any times that
`TimeAssumption` admits.

**DiscoRoundsProofs.** A step does one of seven things to a given round:
leave it but for its age, begin it, send a probe of it, end its sends, count an
answer, count misses, or drop its entry (`Effect`). `EveryMove` shows this of every action
once, and everything after is said per effect instead of per action. `IInv` is
type correctness, where the prober is (`Pass`), `Single` (a target of a round is
probed once) and `Entry` for each round: no more is counted and pending than was
sent, a finalized entry still in the table is incomplete and its prober gone,
nothing is pending of a round that was reported. From it `PromiseKept`: the
initial state maps to `ProbeRounds`' and every step to a step of it or a stutter,
for passes of any length. `RoundBalance` needs the converse, that nothing is
forgotten (`Exact`), and it does not follow from the code: the leak guard
measures from the start of the pass, so a prober that sits in a relay write until
the guard's horizon comes back to an entry that was dropped with the counts it
had. `BalanceAlways` therefore has `MaxPass < Late` for a hypothesis, which is when
that cannot happen, and is otherwise for any peers, targets and rounds.

**PathSelectProofs.** `IInv` is type correctness, `StatesMatchMap` and
`DatesAgree` (a path state's date is that of its last switch: the time since it
and what its event had been under way; without it
nothing relates the guard the code tests with the time that passed). From it:
`TypeCorrect`, `StatesMatch`, `SwitchesWait`, for any peers, relays and
thresholds.

**RelaySessionsProofs.** `IInv` is type correctness without the clocks, and
`DialIsFirst` (a sender that is dialling finds no session for its URL, since it
holds `relayMu` from that look on), `MapIsLive` (a session in the bind's
map runs, under its own URL), `SessionsKnown` (a session that nothing has cancelled is in the
map) and `PinsFit` (a session's fingerprint is the map's, or there is none to
compare with, or its URL is still on `replacePeers`' list). The last is what
`NoStalePin` lacks to be inductive: between the swap of the fingerprints and
the drop of the sessions a stale one is there, and a dial under way may add
another. `Clocks` adds the rest of `TypeOK`. From them: `OneKnownSession` and
`NoPinOutlivesItsMap`, for any relays, sessions and bounds.

**RequestProofs.** Of the routing, the invariant has layers, each inductive given those
before it. `Typed`, `Where` (at which point of its way a request has candidates,
answers, a slot) and `Ordered` (a round's candidates are distinct, the own ahead
of the public) say what the ranking leaves; their lemmas about orders, the
sticky peer's move and the cut at K take the place of an induction over the list.
`Chosen` adds that a pin is all a request has (`Pins`), that it does not hold a
second slot where it is served (`Apart`), and `OwnBeforePublic`. A request has
two slots at most, the one its first candidate holds and the one it is served
with; `Counts` says that each place's count is the number of slots on it and, for
every m, that the slots that read a capacity of m or less are m at most.
`AdmissionKept` itself is not inductive: a release can take away the request that
read the largest capacity, and then only the bound on the others helps. `Tallied`
says the same of the turns of each conversation. From them: `CountsAlways`,
`AdmissionAlways`, `PinAlways` and `OwnAlways`, for any number of requests and
peers and any sequence of maps.

Of the wait for a peer, `WaitInv` is type correctness, `TurnDecided` (a cancel,
done or on its way, follows a reason; the turn's end disarms the watch and is
what the reason says), `MissesCounted` (the count of misses is that of the answers lost last)
and `AfterGrace` (the watch first looks after the grace, and its next look and
its ceiling are no earlier). `SilentTwice` alone is not inductive: the reason
is taken steps after the second miss, when nothing but `MissesCounted` ties the count
to the answers. From it: `CutsClean` and `SilentTwiceAlways`, for any policies
and any horizon.

**EngineProofs.** Of the engine, `IInv` is type correctness and four parts. `Owned`: a
child with anything left of it is the adapter's, the one a start is about to
record, one recorded for the next spawn to wait for, or one dropped from that
record because its tree could not be read; at the spawn there is
none but of the last kind. `OneEngine` alone is not inductive, since a spawn looks at what is recorded
and not at processes. `Leads`: what the start holds at each of its points, and
that a retired child is not the current generation. `Held`: a child that still
runs is held by someone or the system does not let go of it. `ParkHolds`: while
the latch is on, a running child has the operator's stop still to come, is the one
that stop waits for, or belongs to a start that has yet to read the latch; this is
what `ParkedIsFree` lacks, which speaks only of the moment when both are over.
From them: `OneEngineAlways`, `ParkedAlways`, and `NoFalseCrashAlways` (a death is
noticed only of the current generation, and a retired child is not it), for any
number of children, strikes and events.

Of the model the engine serves, `ModelInv` is type correctness, two of the
properties and three helpers. A job that nobody cancelled keeps its row with the
types alone (`Shown`, which is what `RunningHasRow` says beyond them), and so does
the carrier of what downloads deferred. `ChoiceNotForgotten` falls into two.
`InForce`: the preference is the choice published last unless that one was
hindered, and a deletion about to wipe the choice is about to wipe one of its own
model; without the second half a wipe could take any. `OnTheWay`: such a choice,
once on disk, was made active or has a way to be. The latter needs `Copied`: the
catalog a deletion holds at its save shows nothing ready that has since lost its
record. Without it a stale save could bring back the weights of a choice that
nobody is switching to any more. `ReadyKept` is what every other step does to a
ready row. From them: `DeferredAlways`, `RunningShown`, `ChoiceAlways` and
`ReadyAlways`, for any models and any number of changes and restarts.

Model-checked only: everything temporal (`KeysReconverge`, `OperationsEnd`,
`RenewedOrGivenUp`, `TimelyRoundsReported`, `DeadPathLeft`, `Reconnects`,
`RequestsEnd`, `TurnEnds`, `StartsEnd`), since liveness under fairness and
ENABLED are out of the prover's reach. Every invariant and action property of a
passing run is proved. RECURSIVE operators are out of the prover's reach as
well; the modules use none.

## Findings

Each is a run that ends in a counterexample to a sentence of the code's own
comments; `PROJECT.json` quotes the sentence.

1. `rotation_lost`: `rotateTo` removes `node.key.next` after a timeout too
   (`node_key_rotator.go:181`).
2. `session_rotate_logout`: sign-out releases `reactivateMu` before it wipes
   the enrollment; a waiting re-activation builds a session in between
   (`main.go:2073`).

Observations made on the way that no run rests on. Of sessions and keys:

- With three sign-ins, a cancelled one that is still waiting reports done
  before the one it waits for is, and two enrolments write at once
  (`login.go:393`); `NoQueue` is the hypothesis that excludes it.
- A failed promote returns to the loop, and the next rotation stages over the
  key it left (`node_key_rotator.go:107`; file failures are outside the
  antecedent of `StagedNeverOverwritten`).
- `RemoveEnrollment` leaves `node.key.next` (`internal/identity/identity.go:149`).
- With a rotation and a sign-out among two sign-ins, the reset of the
  switchboard can drop a session published meanwhile without tearing it down
  (`main.go:2049`, `2073`); the instances of `session_lifecycle` keep the two
  apart, and `Undisturbed` says when it cannot happen.
- A boot activation takes no `reactivateMu` and can publish after a sign-out
  wiped the files (`activation.go:51`).
- A build that loses the publish, and a rebuild that fails, leave the Claude
  listener on a dead build (`main.go:1239`, `2050`); hence the antecedent of
  `ListenerServesLive`.
- A teardown and a crash forget a pending rotation, and so does any definite
  error such as a 503 to the replay (`token_refresher.go:419`); hence
  `Remembered`.
- The replay window is 60 s from the first attempt, an attempt may take 30 and
  the back-off is 30 (`token_refresher.go:214`, `333`, `412`): one fault just
  fits (`OneFailureFits`), two time-outs, two failed writes or one of each need
  not, and the next attempt then presents the burned token with a new nonce,
  which the control plane takes for theft. Hence `late` in `ReplayedNotStolen`,
  where the comment at `token_refresher.go:395` speaks of every case.
- The terminal check in `auth_state.go:52` is not reached from the pre-flight
  refresh, which reports nothing to the gate.

Of the network:

- The leak guard of disco measures from the start of the pass, so that a slow
  pass loses a live round (`inbound.go:445`).
- A round that a pong or the sweep completes, which is the usual way, is reported
  by `recordRoundResultLocked` without a time (`prober.go:217`); a switch it
  causes is dated zero and its dwell is void.
- A dwell is counted from the date of the event that made the switch
  (`reconcile.go:597`, `627`): the start of a prober's pass (`prober.go:52`,
  `184`), before a wait in the channel behind a POST of up to five seconds
  (`main.go:2543`). The peer really stays for `MinDwell` less that.
- Two goroutines can push their peer sets in the other order
  (`reconcile.go:1142`); nothing pushes again before the next change.
- The header of `reconcile.go` (line 27) says `Apply` resets the current path
  to direct; the code keeps it.
- A map that leaves a relay out erases its previous fingerprint, so that the
  next one with another fingerprint is no change (`main.go:3358`): the session
  pinned to the old one stays until it fails. Hence `omitted` in `NoStalePin`.

Of requests:

- The sticky count rises at the commit, the slot's at the assignment
  (`endpoint_router.go:2411`): between them a conversation's second turn does
  not see the first.
- A walk never comes back to a ready peer that the decision passed over for a
  warmer one of its tier, although every candidate before the winner is taken
  to have answered not ready (`probe.go:1001`).
- The ceiling reports `peer_ttfb_timeout` for a peer that is known to be busy
  (`peerwait.go:382`).

Of the engine and its model:

- A recovery or switch asked for while the reconcile is about to return sets
  its flag and starts nothing (`inference.go:2864`); the next request of any
  kind carries it out. `RcExit` and `Return` are that window.
- A retired child whose tree cannot be read is dropped from the record and the
  engine started "anyway" (`process_tree.go:185`), as
  `TestPendingExits_UnreadableTreeDoesNotBlock` asks: two engines can then run
  at once, and TLC finds it when `OneEngine` does not leave such a child out. The
  start still waits for the children whose trees can be read, which is what
  `OneEngine` says.
- A child that dies a second time within the debounce of two seconds leaves
  the adapter ready over nothing until a request fails.
- A start that a bounce's `Stop` cuts short is charged as a strike; a latch
  decided before an operator's start may be set after it; an adopted engine
  keeps `adopted` after a `Stop`.
- A bootstrap that loses its compare-and-swap stores its wish only then, and
  the attempt that was under way may have looked already
  (`engine_bootstrap.go:172`).
- `DeleteModel` loads the catalog outside the store's lock and saves that copy
  after the weights are gone (`inference.go:6069`, `6180`): a download that
  lands in between goes back from ready, and one that starts loses its row.
  Hence `torn`, and the deletion in `ReadyKept`.
- `forgetDeletedModel` looks at the published choice and then stores "none"
  (`inference.go:6209`, `6212`), and reads the file before it writes it (`6217`,
  `6227`): a choice of another model that comes in between is wiped, where the
  comment at `6197` says that only a record naming this model is touched. A
  preference read at boot that names the deleted model stays in force.
- The reconcile takes `swapPending` before it loads the catalog, and returns
  when it cannot (`inference.go:2697`, `2708`): the switch is lost until somebody
  asks for another or the daemon restarts. So it is when the catalog cannot be
  written (`5789`).
- A preferred model whose row is ready and whose tag the engine does not show at
  the start is downloaded again, and is not active when that is refused or fails
  (`inference.go:5849`, `5878`).
- Setup writes the file, measures the host for minutes and publishes then: a
  choice a person makes meanwhile is overridden in the process while the file
  names it.
- A pull that joins a job asked to stop downloads nothing
  (`inference.go:4581`).

## What is not modelled

- Arithmetic over measurements (hardware fit, model rank, host speed), text
  (gateway dialects, CLI, UI, integrations), encodings and cryptography:
  functions without state, or with state a unit test reaches. They are most of
  the repository's lines, which is why the share of lines the map covers is
  small.
- Operating system effects: installers, process spawning, archive extraction.
- `SessionLifecycle`: a sign-in fails where it enrols, where it saves the identity
  or in its activation; that a later file of the enrolment cannot be written is
  left out.
- `SessionLifecycle`, `NodeKeyRotation`: the ids of replaced sign-ins, which
  only word a status; the device certificate, saved together with a promoted
  key.
- `PathSelect`: call-me-maybe and `ForceRelay`. `DiscoRounds`: STUN and inbound
  probe handling; `lastProbeAt` is implied by the spacing of passes.
- `RelaySessions`: frames, the fan-in, queues that drop when full.
- `RequestRouting`: scores and the figures behind them, the error window, the
  filters of the public policy, metering, the keepalive of a local leg.
- `EngineControl`: what a bounce serves with, the drain before it, parks for
  another reason than the operator's, the residency respawn, the tail of the
  bootstrap, vLLM.
- `ModelSwitch`: what makes the setup reconciler admit an instruction, the hold
  of the boot download, builds of one model, the vLLM route, the sizing. A
  refusal is a free choice of the model. The catalog's writes can fail where a
  switch or a deletion is due; that a download's own record cannot be written is
  left out.
- The engine accepts every peer set; the control plane is external, modelled
  from how the agent uses it.

Everything else is in the plan.

## Plan

In order; done first.

1. `NodeKeyRotation`, `SessionLifecycle`, `TokenRefresh`: done and proved.
2. `DiscoRounds` / `ProbeRounds`, `PathSelect`: done and proved.
3. `RelaySessions`, `RequestRouting`, `PeerWait`: done and proved.
4. `EngineControl`, `ModelSwitch`: done and proved.
5. `SetupModel`: the setup reconciler that admits the control plane's
   instruction and calls `ModelSwitch`'s `Choose`; every instruction is applied,
   refused with a reason, or superseded.
6. `PublicUsage`: the table, its flush, requeue and shutdown. Abstract
   specification: each request is credited at most once. To prove: credited
   plus pending plus dropped is served.
7. `MapStream`: subscription, reconciler, aggregator and directory composed;
   convergence on the last frame, no dead peer offered. With it the pause and
   the drain.
8. Compositions: sign-in with the refresher over the token files
   (`SessionLifecycle` with `TokenRefresh`); `ProbeRounds` in place of the
   free round events of `PathSelect`; call-me-maybe in both; `ModelSwitch` over
   the start and stop of `EngineControl`.
9. Pure algorithms as operators against references: the error window, the
   bounded nonce cache.

Runs stay few: a new module's run is joined to an existing one where the
question is the same (several instances in one configuration, as
`SessionLifecycle` and `RequestRouting` do).
