---------------------------- MODULE TokenRefresh ----------------------------
(***************************************************************************)
(* The rotation of a device's one-time-use refresh token: tokenRefresher   *)
(* (cmd/waired-agent/token_refresher.go), the activation that creates it   *)
(* and refreshes before first use (main.go), the token files, and the      *)
(* control plane that answers a token presented twice with the             *)
(* revocation of the device.                                               *)
(*                                                                         *)
(* Tokens are generations: the control plane's current one is cp.cur, and  *)
(* a rotation of generation g hands out g + 1. The one before it, burned   *)
(* by the request with nonce cp.by, may be presented again with that nonce *)
(* only. The access token and its expiry share their refresh token's       *)
(* generation; g is at its refresh point when g <= expired.                *)
(*                                                                         *)
(* What the environment may do wrong is faults, one of FaultCases:         *)
(*   "lost"      an attempt times out, whatever became of the request;     *)
(*   "busy"      the answer is a definite error that says nothing about    *)
(*               the token (a 503, device_suspended);                      *)
(*   "write"     a token file cannot be written;                           *)
(*   "revoke"    the control plane wants the owner to sign in again;       *)
(*   "slow"      an activation is still at work, long after its pre-flight *)
(*               refresh, when a replay window closes;                     *)
(*   "teardown"  the session is rebuilt (a Node Key rotation);             *)
(*   "build"     an activation fails after its pre-flight refresh;         *)
(*   "crash"     the process dies.                                         *)
(* Time is counted for the pending rotation alone: an attempt may take any *)
(* time up to its timeout, and the waits between attempts are the code's.  *)
(* A sign-in over the running daemon is not in this model.                 *)
(***************************************************************************)
EXTENDS Naturals

CONSTANTS FaultCases, \* the sets of faults to start from
          MaxFaults,  \* bound: faults in a behaviour
          MaxGen,     \* bound: generations that reach their refresh point
          Window,     \* replayWindow, 60 s
          Backoff,    \* minSleep, 30 s
          RetryDelay, \* 2 s
          Timeout,    \* of the HTTP client, 30 s
          Preflight   \* bootRefreshTimeout, 10 s

(* Faults after which the agent still knows which request to repeat, until *)
(* the window closes, and those after which it does not.                   *)
Remembered == {"lost", "write", "revoke", "slow"}
Forgetting == {"busy", "teardown", "build", "crash"}

ASSUME FaultsAssumption == FaultCases \subseteq SUBSET (Remembered \cup Forgetting)
ASSUME BoundAssumption == MaxFaults \in Nat /\ MaxGen \in Nat
ASSUME TimeAssumption ==
  /\ Window \in Nat /\ Backoff \in Nat /\ RetryDelay \in Nat
  /\ Timeout \in Nat \ {0} /\ Preflight \in 0..Timeout
  /\ Timeout + Backoff <= Window /\ Timeout + RetryDelay < Window

VARIABLES
  cp,       \* the control plane's current generation, the nonce that burned
            \* the one before, and the device's standing
  wire,     \* refresh requests the control plane may still see
  expired,  \* the last generation whose refresh point has passed
  disk,     \* the generations in secrets/ and in cache/token_meta.json
  mem,      \* the generations in the refresher's atomics
  pend,     \* tokenRefresher.pending, with the time since its first attempt
            \* and the faults it has met; or NoPend
  late,     \* history: a rotation was pending for a whole window
  stage,    \* how far the activation is
  pc,       \* where refreshOnce is
  attempt,  \* 1, or 2 for the replay
  reply,    \* the answer to the request being waited on
  got,      \* the generation that answer hands out
  nonces,   \* nonces drawn so far
  nfaults,  \* faults so far
  faults    \* what the environment may do in this behaviour

vars == <<cp, wire, expired, disk, mem, pend, late, stage, pc, attempt, reply, got,
          nonces, nfaults, faults>>

server == <<cp, expired>>
answer == <<reply, got>>
env    == <<nfaults, faults, late>>

NoPend == [nonce |-> 0, token |-> 0, age |-> 0, failed |-> 0]

Saving == {"save", "meta", "publish"}
PCs    == {"idle", "send", "wait", "ended"} \cup Saving

TypeOK ==
  /\ cp \in [cur : Nat, by : Nat, standing : {"ok", "revoked", "theft"}]
  /\ wire \subseteq [token : Nat, nonce : Nat, live : BOOLEAN]
  /\ expired \in Nat
  /\ disk \in [refresh : Nat, meta : Nat]
  /\ mem \in [refresh : Nat, meta : Nat]
  /\ pend \in [nonce : Nat, token : Nat, age : Nat, failed : Nat]
  /\ late \in BOOLEAN
  /\ stage \in {"down", "preflight", "build", "run"}
  /\ pc \in PCs
  /\ attempt \in {1, 2}
  /\ reply \in {"none", "ok", "busy", "terminal"}
  /\ got \in Nat
  /\ nonces \in Nat
  /\ nfaults \in 0..MaxFaults
  /\ faults \in FaultCases

(* An enrolled device whose daemon starts, its access token fresh or due.  *)
Init ==
  /\ cp = [cur |-> 1, by |-> 0, standing |-> "ok"]
  /\ wire = {} /\ expired \in {0, 1}
  /\ disk = [refresh |-> 1, meta |-> 1] /\ mem = disk
  /\ pend = NoPend /\ late = FALSE
  /\ stage = "down" /\ pc = "idle" /\ attempt = 1
  /\ reply = "none" /\ got = 0
  /\ nonces = 0 /\ nfaults = 0
  /\ faults \in FaultCases

(* A fault happens, as far as the bound allows. *)
Fault(f) ==
  /\ f \in faults /\ nfaults < MaxFaults
  /\ nfaults' = nfaults + 1 /\ UNCHANGED <<faults, late>>

-----------------------------------------------------------------------------
(* Time, and the control plane *)

(* The access token reaches its refresh point. Its lifetime is hours: far  *)
(* longer than a request's life and the replay window, so none is open.    *)
Expire ==
  /\ cp.cur <= MaxGen /\ pend = NoPend /\ wire = {}
  /\ expired' = cp.cur
  /\ UNCHANGED <<cp, wire, disk, mem, pend, stage, pc, attempt, answer,
                 nonces, env>>

(* The device authorization expires, or the device is no longer approved.  *)
Revoke ==
  /\ Fault("revoke") /\ cp.standing = "ok"
  /\ cp' = [cp EXCEPT !.standing = "revoked"]
  /\ UNCHANGED <<wire, expired, disk, mem, pend, stage, pc, attempt, answer,
                 nonces>>

Replies(r, kind, gen) ==
  /\ wire' = wire \ {r}
  /\ IF r.live THEN reply' = kind /\ got' = gen ELSE UNCHANGED answer

IsReplay(r) == r.token + 1 = cp.cur /\ r.nonce = cp.by

(* POST /v1/auth/device-token/refresh: rotate the current generation,      *)
(* repeat the last rotation for the request that made it, and take any     *)
(* other token for a stolen one.                                           *)
CPHandle(r) ==
  /\ \/ /\ cp.standing = "ok" /\ r.token = cp.cur
        /\ cp' = [cp EXCEPT !.cur = @ + 1, !.by = r.nonce]
        /\ Replies(r, "ok", cp.cur + 1)
     \/ /\ cp.standing = "ok" /\ IsReplay(r)
        /\ UNCHANGED cp /\ Replies(r, "ok", cp.cur)
     \/ /\ cp.standing = "ok" /\ r.token # cp.cur /\ ~IsReplay(r)
        /\ cp' = [cp EXCEPT !.standing = "theft"] /\ Replies(r, "terminal", 0)
     \/ /\ cp.standing # "ok"
        /\ UNCHANGED cp /\ Replies(r, "terminal", 0)
  /\ UNCHANGED <<expired, disk, mem, pend, stage, pc, attempt, nonces, env>>

CPBusy(r) ==
  /\ Fault("busy") /\ Replies(r, "busy", 0)
  /\ UNCHANGED <<server, disk, mem, pend, stage, pc, attempt, nonces>>

-----------------------------------------------------------------------------
(* The activation *)

(* accessTokenStale and nextSleep = 0: the refresh point has passed. *)
Due(meta) == meta <= expired

(* activate loads the token files into a new refresher, and refreshes      *)
(* before first use when the access token is stale.                        *)
Load ==
  /\ stage = "down"
  /\ mem' = disk /\ pend' = NoPend
  /\ IF Due(disk.meta) THEN stage' = "preflight" /\ pc' = "send"
                       ELSE stage' = "build" /\ UNCHANGED pc
  /\ UNCHANGED <<server, wire, disk, attempt, answer, nonces, env>>

(* The pending rotation grows older, if there is one. *)
Ages(t) == pend' = IF pend = NoPend THEN NoPend ELSE [pend EXCEPT !.age = @ + t]

(* It meets a fault that lasts t, and stays. *)
Fails(t) ==
  pend' = IF pend = NoPend THEN NoPend
          ELSE [pend EXCEPT !.age = @ + t, !.failed = @ + 1]

(* Mutant: an activation waits until its pre-flight refresh succeeds. *)
StartRunFresh ==
  /\ stage = "build" /\ ~Due(mem.meta) /\ stage' = "run"
  /\ \/ UNCHANGED <<pend, env>>
     \/ Fault("slow") /\ Fails(Window)
  /\ UNCHANGED <<server, wire, disk, mem, pc, attempt, answer, nonces>>

(* The rest of the activation; tokens.Run starts with the session. *)
StartRun ==
  /\ stage = "build" /\ stage' = "run"
  /\ \/ UNCHANGED <<pend, env>>
     \/ Fault("slow") /\ Fails(Window)
  /\ UNCHANGED <<server, wire, disk, mem, pc, attempt, answer, nonces>>

(* The requests nobody waits on: on their way, or gone. *)
Abandon ==
  /\ \E gone \in BOOLEAN :
       wire' = {r \in wire : ~r.live} \cup
               IF gone THEN {} ELSE {[r EXCEPT !.live = FALSE] : r \in wire}
  /\ reply' = "none" /\ UNCHANGED got

(* The refresher's memory goes with the activation, or with the process.   *)
Down ==
  /\ stage' = "down" /\ pc' = "idle" /\ attempt' = 1 /\ pend' = NoPend
  /\ Abandon
  /\ UNCHANGED <<server, disk, mem, nonces>>

BuildFails == Fault("build") /\ stage = "build" /\ Down

(* session.teardown cancels the request and waits for what is being saved. *)
Teardown ==
  /\ Fault("teardown") /\ stage = "run" /\ pc \in {"idle", "send", "wait"}
  /\ Down

Crash == Fault("crash") /\ stage # "down" /\ Down

-----------------------------------------------------------------------------
(* tokenRefresher.Run and refreshOnce *)

(* Run's sleep is over. *)
Wake ==
  /\ stage = "run" /\ pc = "idle" /\ Due(mem.meta)
  /\ pc' = "send"
  /\ UNCHANGED <<server, wire, disk, mem, pend, stage, attempt, answer,
                 nonces, env>>

(* rotationNonce: the pending rotation is the one to repeat. *)
Replayable == pend.token = mem.refresh /\ pend.age < Window

(* Whether the window is over, whatever rotationNonce makes of it. *)
Outlives == late' = (late \/ pend.age >= Window)

Posted(nonce) ==
  /\ wire' = wire \cup {[token |-> mem.refresh, nonce |-> nonce, live |-> TRUE]}
  /\ reply' = "none" /\ got' = 0 /\ pc' = "wait"

Remembers(nonce) ==
  pend' = [nonce |-> nonce, token |-> mem.refresh, age |-> 0, failed |-> 0]

(* Mutant: every attempt draws a nonce of its own. *)
SendFresh ==
  /\ pc = "send"
  /\ nonces' = nonces + 1 /\ Remembers(nonces') /\ Posted(nonces')
  /\ Outlives
  /\ UNCHANGED <<server, disk, mem, stage, attempt, nfaults, faults>>

(* rotate: the attempt is remembered before it is made. *)
Send ==
  /\ pc = "send"
  /\ \/ Replayable /\ UNCHANGED <<nonces, pend>> /\ Posted(pend.nonce)
     \/ /\ ~Replayable /\ nonces' = nonces + 1
        /\ Remembers(nonces') /\ Posted(nonces')
  /\ Outlives
  /\ UNCHANGED <<server, disk, mem, stage, attempt, nfaults, faults>>

(* refreshOnce returns an error: the pre-flight's is only logged; Run      *)
(* backs off and goes on.                                                  *)
GiveUp ==
  /\ pc' = "idle" /\ attempt' = 1
  /\ stage' = IF stage = "preflight" THEN "build" ELSE stage

(* How long Run rests after an error; the activation just goes on.         *)
Rest == IF stage = "run" THEN Backoff ELSE 0

(* The pre-flight refresh has a deadline for all it does. *)
InTime(t) == stage = "preflight" => pend.age + t <= Preflight
DeadlineAt(t) == stage = "preflight" /\ pend.age + t = Preflight

(* Mutant: the repeated attempt waits for Run's back-off too. *)
OutcomeUnknownSlow ==
  /\ Fault("lost") /\ pc = "wait" /\ Abandon
  /\ \E t \in 0..Timeout :
       /\ InTime(t)
       /\ \/ /\ attempt = 1 /\ attempt' = 2 /\ InTime(t + Backoff)
             /\ pc' = "send" /\ Fails(t + Backoff) /\ UNCHANGED stage
          \/ (attempt = 2 \/ DeadlineAt(t)) /\ GiveUp /\ Fails(t + Rest)
  /\ UNCHANGED <<server, disk, mem, nonces>>

(* ErrRefreshOutcomeUnknown, after t: the attempt is kept, and repeated    *)
(* once after a short wait unless the pre-flight's deadline comes first.   *)
OutcomeUnknown ==
  /\ Fault("lost") /\ pc = "wait" /\ Abandon
  /\ \E t \in 0..Timeout :
       /\ InTime(t)
       /\ \/ /\ attempt = 1 /\ attempt' = 2 /\ InTime(t + RetryDelay)
             /\ pc' = "send" /\ Fails(t + RetryDelay) /\ UNCHANGED stage
          \/ (attempt = 2 \/ DeadlineAt(t)) /\ GiveUp /\ Fails(t + Rest)
  /\ UNCHANGED <<server, disk, mem, nonces>>

(* Mutant: every definite error ends the refresh for good. *)
VerdictAllTerminal ==
  /\ pc = "wait" /\ reply \in {"busy", "terminal"}
  /\ pend' = NoPend /\ reply' = "none"
  /\ IF stage = "run" THEN pc' = "ended" /\ attempt' = 1 /\ UNCHANGED stage
                      ELSE GiveUp
  /\ UNCHANGED <<server, wire, disk, mem, got, nonces, env>>

(* A definite error drops the pending rotation. A terminal one, by         *)
(* isTerminalRefreshError, ends Run: markReauthRequired writes the flag    *)
(* with the expiry in memory, onTerminal stops the control-plane loops.    *)
Verdict ==
  /\ pc = "wait" /\ reply \in {"busy", "terminal"}
  /\ pend' = NoPend /\ reply' = "none"
  /\ \/ /\ reply = "terminal" /\ stage = "run"
        /\ pc' = "ended" /\ attempt' = 1 /\ UNCHANGED stage
        /\ disk' = [disk EXCEPT !.meta = mem.meta]
     \/ /\ reply = "busy" \/ stage = "preflight"
        /\ GiveUp /\ UNCHANGED disk
  /\ UNCHANGED <<server, wire, mem, got, nonces, env>>

(* The answer is there before the attempt times out. *)
Accepted ==
  /\ pc = "wait" /\ reply = "ok" /\ pc' = "save" /\ reply' = "none"
  /\ \E t \in 0..(Timeout - 1) : InTime(t) /\ Ages(t)
  /\ UNCHANGED <<server, wire, disk, mem, stage, attempt, got, nonces, env>>

(* Mutant: the new pair is published before it is saved. *)
SaveTokensLate ==
  /\ pc = "save" /\ pc' = "meta"
  /\ mem' = [mem EXCEPT !.refresh = got]
  /\ UNCHANGED <<server, wire, disk, pend, stage, attempt, answer, nonces, env>>

(* SaveAccessToken, SaveRefreshToken. *)
SaveTokens ==
  /\ pc = "save" /\ pc' = "meta"
  /\ disk' = [disk EXCEPT !.refresh = got]
  /\ UNCHANGED <<server, wire, mem, pend, stage, attempt, answer, nonces, env>>

(* SaveTokenMeta, and the certificate and Node Key expiry as they come. *)
SaveMeta ==
  /\ pc = "meta" /\ pc' = "publish"
  /\ disk' = [disk EXCEPT !.meta = got]
  /\ UNCHANGED <<server, wire, mem, pend, stage, attempt, answer, nonces, env>>

(* A failed write leaves the rotation pending. *)
WriteFails ==
  /\ Fault("write") /\ pc \in {"save", "meta"} /\ GiveUp /\ Fails(Rest)
  /\ UNCHANGED <<server, wire, disk, mem, answer, nonces>>

(* The new pair is durable; now it is live, and no longer pending. *)
Publish ==
  /\ pc = "publish" /\ GiveUp
  /\ mem' = [refresh |-> got, meta |-> got] /\ pend' = NoPend
  /\ UNCHANGED <<server, wire, disk, answer, nonces, env>>

-----------------------------------------------------------------------------
ControlPlane == \E r \in wire : CPHandle(r)
Refresher ==
  \/ Load \/ StartRun \/ Wake \/ Send \/ Verdict \/ Accepted \/ SaveTokens
  \/ SaveMeta \/ Publish
Failures ==
  \/ Revoke \/ OutcomeUnknown \/ WriteFails \/ BuildFails \/ Teardown
  \/ Crash \/ \E r \in wire : CPBusy(r)

Next == Expire \/ ControlPlane \/ Refresher \/ Failures

Spec == Init /\ [][Next]_vars

(* The daemon's goroutines run and the control plane answers what it gets. *)
Fairness == WF_vars(Refresher) /\ WF_vars(ControlPlane)

FairSpec == Spec /\ Fairness

-----------------------------------------------------------------------------
(* Properties *)

(* Lost answers and failed writes are survived, as long as the replay      *)
(* window lasts: "in every one of those cases the recovery is to replay    *)
(* this same request" (token_refresher.go:395). Only a rotation that was   *)
(* left open for the whole window, by attempts that took too long, can be  *)
(* presented in a way the control plane takes for theft.                   *)
ReplayedNotStolen ==
  faults \subseteq Remembered /\ cp.standing = "theft" => late

(* Before that happens, the window is wide enough for one fault: an        *)
(* attempt that times out, or an answer at the last moment, a failed write *)
(* and Run's back-off, leaves the next attempt inside it (rotationNonce:   *)
(* 30 s and 30 s, against 60 s).                                           *)
OneFailureFits ==
  pc = "send" /\ ~late /\ pend.failed <= 1 => pend.age < Window

(* "Persist before publishing" (token_refresher.go:424): whatever fails,   *)
(* the token on disk is the control plane's, or the one before it, which   *)
(* can still be replayed; and none is live that is not durable.            *)
DurableBeforeLive == mem.refresh <= disk.refresh /\ cp.cur <= disk.refresh + 1

(* Run gives up only on a device the control plane will never serve again  *)
(* without a sign-in (isTerminalRefreshError): not on a suspended device,  *)
(* a busy control plane or a lost answer.                                  *)
GivesUpOnlyForGood == pc = "ended" => cp.standing # "ok"

(* An access token at its refresh point is renewed, or the refresher gives *)
(* up, whatever fails on the way.                                          *)
RenewedOrGivenUp == []<>(stage = "run" /\ (pc = "ended" \/ ~Due(mem.meta)))
=============================================================================
