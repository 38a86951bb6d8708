-------------------------- MODULE SessionLifecycle --------------------------
(***************************************************************************)
(* The daemon's at-most-one live session: who builds, publishes, replaces  *)
(* and removes it. The actors are the boot activation (activation.go), the *)
(* sign-ins of the login controller (login.go), the re-activation after a  *)
(* Node Key rotation (main.go) and the sign-out (logout.go); the shared    *)
(* state is the switchboard (session.go), the Claude listener's handler    *)
(* (proxy.go) and the enrollment on disk.                                  *)
(*                                                                         *)
(* Credentials are the number of the sign-in that obtained them, 0 for the *)
(* enrollment found at boot. A build is one run of activate; the build     *)
(* that wins the publish is the session. Which actors there are, and the   *)
(* bounds on what they do, is inst: one of Instances, chosen at the start  *)
(* and never changed. The ids of replaced sign-ins, which only word the    *)
(* answers of Status, are left out.                                        *)
(***************************************************************************)
EXTENDS Naturals, FiniteSets

CONSTANTS URLs,       \* control planes a sign-in can name
          DefaultURL, \* what resolveControlURL answers
          NoURL,      \* a request that names none
          NoCred,     \* no such file
          MaxLogins,  \* bound: sign-ins started
          MaxBuilds,  \* bound: activations that got past loading the identity
          MaxFails,   \* bound: activations and wipes that fail for outside reasons
          Instances   \* the actors and bounds to start from

AllFeatures == {"boot", "enrolled", "login", "reauth", "rotate", "logout",
                "vanish"}

ASSUME URLAssumption == DefaultURL \in URLs /\ NoURL \notin URLs
ASSUME BoundAssumption == MaxLogins \in Nat /\ MaxBuilds \in Nat /\ MaxFails \in Nat
ASSUME InstanceAssumption ==
  Instances \subseteq [features : SUBSET AllFeatures, logins : 0..MaxLogins,
                       builds : 0..MaxBuilds, fails : 0..MaxFails]
ASSUME CredAssumption == NoCred \notin Nat

Logins  == 1..MaxLogins
Boot    == 0
Rotator == MaxLogins + 1
Out     == MaxLogins + 2
Procs   == 0..(MaxLogins + 2)
Nobody  == MaxLogins + 3
Creds   == 0..MaxLogins
Builds  == 1..MaxBuilds

VARIABLES
  identity,   \* whose identity.json is on disk
  secrets,    \* whose tokens are on disk
  cur,        \* switchboard.cur: the build published as the session, 0 for nil
  running,    \* the builds whose goroutines and engine are up
  credOf,     \* the credentials each build loaded
  nbuilds,    \* builds so far
  proxy,      \* the build whose handler the Claude listener dispatches to, or 0
  apc,        \* where each actor is in activate, rebuildSession, deactivateSession
  abuild,     \* the build each actor works on, or has published
  mu,         \* who holds reactivateMu
  boot,       \* runBootActivation's loop
  lsess,      \* loginController.session: its number, 0 for nil
  phase,      \* each sign-in's phase
  url,        \* each sign-in's control plane
  prev,       \* the sign-in whose done a replacement waits for, or 0
  cancelled,  \* the sign-ins whose context is cancelled
  reauth,     \* the sign-ins started over a live session
  lpc,        \* where each sign-in's run is
  opc,        \* where Logout is; it holds lc.mu unless "idle"
  fails,      \* outside failures so far
  inst        \* the actors and bounds of this behaviour

vars == <<identity, secrets, cur, running, credOf, nbuilds, proxy, apc, abuild,
          mu, boot, lsess, phase, url, prev, cancelled, reauth, lpc, opc, fails,
          inst>>

disk     == <<identity, secrets>>
builds   == <<credOf, nbuilds>>
session  == <<cur, running, proxy>>
acts     == <<apc, abuild, mu>>
env      == <<fails, inst>>
signins  == <<lsess, phase, url, prev, cancelled, reauth, lpc>>

APCs == {"idle", "lock", "read", "reset", "load", "wire", "publish", "ok", "err"}
LPCs == {"none", "wait", "enroll", "saveIdentity", "saveSecrets", "gate",
         "activate", "done"}

TypeOK ==
  /\ identity \in Creds \cup {NoCred} /\ secrets \in Creds \cup {NoCred}
  /\ cur \in 0..MaxBuilds /\ proxy \in 0..MaxBuilds
  /\ running \subseteq Builds /\ nbuilds \in 0..MaxBuilds
  /\ credOf \in [Builds -> Creds]
  /\ apc \in [Procs -> APCs] /\ abuild \in [Procs -> 0..MaxBuilds]
  /\ mu \in Procs \cup {Nobody}
  /\ boot \in {"check", "activating", "done"}
  /\ lsess \in 0..MaxLogins
  /\ phase \in [Logins -> {"none", "logging_in", "activating", "active", "error"}]
  /\ url \in [Logins -> URLs] /\ prev \in [Logins -> 0..MaxLogins]
  /\ cancelled \subseteq Logins /\ reauth \subseteq Logins
  /\ lpc \in [Logins -> LPCs]
  /\ opc \in {"idle", "deauth", "deactivate", "wipe"}
  /\ fails \in 0..MaxFails
  /\ inst \in Instances

(* The daemon starts, over an enrollment or over an empty state dir. *)
Init ==
  /\ inst \in Instances
  /\ identity = (IF "enrolled" \in inst.features THEN 0 ELSE NoCred)
  /\ secrets = identity
  /\ cur = 0 /\ running = {} /\ proxy = 0 /\ nbuilds = 0
  /\ credOf = [b \in Builds |-> 0]
  /\ apc = [p \in Procs |-> "idle"] /\ abuild = [p \in Procs |-> 0]
  /\ mu = Nobody
  /\ boot = (IF {"boot", "enrolled"} \subseteq inst.features THEN "check" ELSE "done")
  /\ lsess = 0 /\ cancelled = {} /\ reauth = {}
  /\ phase = [i \in Logins |-> "none"] /\ lpc = [i \in Logins |-> "none"]
  /\ url = [i \in Logins |-> DefaultURL] /\ prev = [i \in Logins |-> 0]
  /\ opc = "idle" /\ fails = 0

-----------------------------------------------------------------------------
(* Something outside fails, as far as the bound allows. *)
Fails == fails < inst.fails /\ fails' = fails + 1 /\ UNCHANGED inst

(* activate, rebuildSession and deactivateSession, run by any actor p *)

Go(p, where) == apc' = [apc EXCEPT ![p] = where]

(* Returning releases reactivateMu if p holds it. *)
Return(p, result) ==
  /\ Go(p, result)
  /\ mu' = IF mu = p THEN Nobody ELSE mu

(* Mutant: the sign-out leaves the listener's handler published. *)
LockKeepsHandler(p) ==
  /\ apc[p] = "lock" /\ mu = Nobody
  /\ mu' = p /\ Go(p, "read")
  /\ UNCHANGED <<disk, session, builds, abuild, boot, signins, opc, env>>

(* rebuildSession and deactivateSession take reactivateMu; the latter      *)
(* clears the Claude listener's handler first.                             *)
LockRebuild(p) ==
  /\ apc[p] = "lock" /\ mu = Nobody
  /\ mu' = p /\ Go(p, "read")
  /\ proxy' = IF p = Out THEN 0 ELSE proxy
  /\ UNCHANGED <<disk, cur, running, builds, abuild, boot, signins, opc, env>>

(* Mutant: the old session is dropped without a teardown. *)
ReadOnly(p) ==
  /\ apc[p] = "read" /\ Go(p, "reset")
  /\ UNCHANGED <<disk, session, builds, abuild, mu, boot, signins, opc, env>>

(* sb.current, and the teardown of what it answers. *)
ReadAndTeardown(p) ==
  /\ apc[p] = "read"
  /\ running' = running \ {cur}
  /\ Go(p, "reset")
  /\ UNCHANGED <<disk, cur, proxy, builds, abuild, mu, boot, signins, opc, env>>

(* sb.reset, or sb.signedOut for the sign-out. *)
Reset(p) ==
  /\ apc[p] = "reset"
  /\ cur' = 0
  /\ IF p = Out THEN Return(p, "ok") ELSE Go(p, "load") /\ UNCHANGED mu
  /\ UNCHANGED <<disk, running, proxy, builds, abuild, boot, signins, opc, env>>

(* activate loads the identity and the tokens and starts building. *)
Load(p) ==
  /\ apc[p] = "load" /\ NoCred \notin {identity, secrets} /\ nbuilds < inst.builds
  /\ nbuilds' = nbuilds + 1
  /\ credOf' = [credOf EXCEPT ![nbuilds'] = secrets]
  /\ abuild' = [abuild EXCEPT ![p] = nbuilds']
  /\ running' = running \cup {nbuilds'}
  /\ Go(p, "wire")
  /\ UNCHANGED <<disk, cur, proxy, mu, boot, signins, opc, env>>

(* No identity or no access token on disk: an error. Past the bound on     *)
(* builds every activation ends this way too.                              *)
LoadNothing(p) ==
  /\ apc[p] = "load"
  /\ NoCred \in {identity, secrets} \/ nbuilds = inst.builds
  /\ Return(p, "err")
  /\ UNCHANGED <<disk, session, builds, abuild, boot, signins, opc, env>>

(* proxyH.SetLocalInference, well before the publish. *)
Wire(p) ==
  /\ apc[p] = "wire"
  /\ proxy' = abuild[p] /\ Go(p, "publish")
  /\ UNCHANGED <<disk, cur, running, builds, abuild, mu, boot, signins, opc, env>>

(* A step of the build fails, all of them before SetLocalInference; the    *)
(* guarded defers release it.                                              *)
BuildFails(p) ==
  /\ Fails
  /\ apc[p] = "wire"
  /\ running' = running \ {abuild[p]}
  /\ abuild' = [abuild EXCEPT ![p] = 0]
  /\ Return(p, "err")
  /\ UNCHANGED <<disk, cur, proxy, builds, boot, signins, opc>>

(* sb.publish: a compare-and-swap; the loser's build is released. *)
Publish(p) ==
  /\ apc[p] = "publish"
  /\ \/ cur = 0 /\ cur' = abuild[p] /\ Return(p, "ok") /\ UNCHANGED <<running, abuild>>
     \/ /\ cur # 0 /\ running' = running \ {abuild[p]} /\ Return(p, "err")
        /\ abuild' = [abuild EXCEPT ![p] = 0] /\ UNCHANGED cur
  /\ UNCHANGED <<disk, proxy, builds, boot, signins, opc, env>>

Activation(p) ==
  \/ LockRebuild(p) \/ ReadAndTeardown(p) \/ Reset(p) \/ Load(p)
  \/ LoadNothing(p) \/ Wire(p) \/ BuildFails(p) \/ Publish(p)

-----------------------------------------------------------------------------
(* runBootActivation: activate until a session is live. *)

BootTry ==
  /\ boot = "check"
  /\ IF cur # 0 THEN boot' = "done" /\ UNCHANGED apc
               ELSE boot' = "activating" /\ Go(Boot, "load")
  /\ UNCHANGED <<disk, session, builds, abuild, mu, signins, opc, env>>

BootResult ==
  /\ boot = "activating" /\ apc[Boot] \in {"ok", "err"}
  /\ boot' = IF apc[Boot] = "ok" THEN "done" ELSE "check"
  /\ Go(Boot, "idle")
  /\ UNCHANGED <<disk, session, builds, abuild, mu, signins, opc, env>>

(* The rotator of the live session has promoted a key: `go reactivate()`.  *)
(* An error is only logged. The bound on builds leaves one to every        *)
(* sign-in, to every failure and to the boot loop.                         *)
RotateTrigger ==
  /\ "rotate" \in inst.features /\ cur \in running /\ apc[Rotator] = "idle"
  /\ nbuilds + inst.logins + inst.fails + 1 < inst.builds
  /\ Go(Rotator, "lock")
  /\ UNCHANGED <<disk, session, builds, abuild, mu, boot, signins, opc, env>>

RotateResult ==
  /\ apc[Rotator] \in {"ok", "err"}
  /\ Go(Rotator, "idle")
  /\ UNCHANGED <<disk, session, builds, abuild, mu, boot, signins, opc, env>>

(* The state dir is wiped under the running daemon (login.go:267).         *)
StateDirVanishes ==
  /\ "vanish" \in inst.features /\ identity # NoCred /\ opc = "idle"
  /\ identity' = NoCred /\ secrets' = NoCred
  /\ UNCHANGED <<session, builds, acts, boot, signins, opc, env>>

-----------------------------------------------------------------------------
(* loginController *)

LcFree == opc = "idle"
InFlight == lsess # 0 /\ phase[lsess] \in {"logging_in", "activating"}
Started == {i \in Logins : phase[i] # "none"}
NextLogin == Cardinality(Started) + 1

(* Start over a live session without reauth: no sign-in, but an            *)
(* identity.json that has vanished is written back from the session.       *)
StartLive ==
  /\ "login" \in inst.features /\ LcFree /\ cur # 0
  /\ identity = NoCred /\ identity' = credOf[cur]
  /\ UNCHANGED <<secrets, session, builds, acts, boot, signins, opc, env>>

(* Start: a new sign-in, when none is in flight or when the pending one    *)
(* goes to a control plane other than the one this request names; that one *)
(* is cancelled. A request that names none, or the same, joins it.         *)
Start ==
  \E c \in URLs \cup {NoURL}, wantsReauth \in {FALSE, TRUE} :
    LET i        == NextLogin
        live     == cur # 0
        replaces == InFlight
    IN
    /\ "login" \in inst.features /\ LcFree /\ i <= inst.logins
    /\ wantsReauth => "reauth" \in inst.features
    /\ live => wantsReauth
    /\ InFlight => phase[lsess] = "logging_in" /\ c # NoURL /\ c # url[lsess]
    /\ lsess' = i
    /\ phase' = [phase EXCEPT ![i] = "logging_in"]
    /\ url' = [url EXCEPT ![i] = IF c = NoURL THEN DefaultURL ELSE c]
    /\ prev' = [prev EXCEPT ![i] = IF replaces THEN lsess ELSE 0]
    /\ cancelled' = IF replaces THEN cancelled \cup {lsess} ELSE cancelled
    /\ reauth' = IF wantsReauth /\ live THEN reauth \cup {i} ELSE reauth
    /\ lpc' = [lpc EXCEPT ![i] = "wait"]
    /\ UNCHANGED <<disk, session, builds, acts, boot, opc, env>>

At(i, where) == lpc' = [lpc EXCEPT ![i] = where]

(* Mutant: a replacement does not wait. *)
WaitNever(i) ==
  /\ lpc[i] = "wait" /\ At(i, "enroll")
  /\ UNCHANGED <<disk, session, builds, acts, boot, lsess, phase, url, prev,
                 cancelled, reauth, opc, env>>

(* run: wait for the replaced sign-in to end, unless cancelled meanwhile. *)
WaitPrev(i) ==
  /\ lpc[i] = "wait"
  /\ \/ (prev[i] # 0 => lpc[prev[i]] = "done") /\ At(i, "enroll")
     \/ prev[i] # 0 /\ i \in cancelled /\ At(i, "done")
  /\ UNCHANGED <<disk, session, builds, acts, boot, lsess, phase, url, prev,
                 cancelled, reauth, opc, env>>

(* lc.fail: the phase moves only for the current sign-in. *)
Fail(i) ==
  /\ phase' = IF lsess = i THEN [phase EXCEPT ![i] = "error"] ELSE phase
  /\ At(i, "done")

(* setup.Enroll: the browser, the control plane, then identity.json and    *)
(* the tokens. A cancelled one may be past the place that notices.         *)
EnrollStep(i) ==
  /\ \/ lpc[i] = "enroll" /\ At(i, "saveIdentity") /\ UNCHANGED disk
     \/ /\ lpc[i] = "saveIdentity" /\ At(i, "saveSecrets")
        /\ identity' = i /\ UNCHANGED secrets
     \/ /\ lpc[i] = "saveSecrets" /\ At(i, "gate")
        /\ secrets' = i /\ UNCHANGED identity
  /\ UNCHANGED <<session, builds, acts, boot, lsess, phase, url, prev,
                 cancelled, reauth, opc, env>>

EnrollFails(i) ==
  /\ lpc[i] \in {"enroll", "saveIdentity"} /\ LcFree
  /\ Fail(i)
  /\ UNCHANGED <<disk, session, builds, acts, boot, lsess, url, prev,
                 cancelled, reauth, opc, env>>

(* Mutant: a replaced sign-in that finished enrolling activates too. *)
GateOpen(i) ==
  /\ lpc[i] = "gate" /\ LcFree
  /\ phase' = IF lsess = i THEN [phase EXCEPT ![i] = "activating"] ELSE phase
  /\ At(i, "activate") /\ Go(i, IF i \in reauth THEN "lock" ELSE "load")
  /\ UNCHANGED <<disk, session, builds, abuild, mu, boot, lsess, url, prev,
                 cancelled, reauth, opc, env>>

(* run, enrolled: only the current sign-in goes on to activate. *)
Gate(i) ==
  /\ lpc[i] = "gate" /\ LcFree
  /\ \/ /\ lsess = i
        /\ phase' = [phase EXCEPT ![i] = "activating"]
        /\ At(i, "activate") /\ Go(i, IF i \in reauth THEN "lock" ELSE "load")
     \/ /\ lsess # i /\ At(i, "done") /\ UNCHANGED <<phase, apc>>
  /\ UNCHANGED <<disk, session, builds, abuild, mu, boot, lsess, url, prev,
                 cancelled, reauth, opc, env>>

(* Mutant: done is closed only when the activation succeeds. *)
LoginResultLost(i) ==
  /\ lpc[i] = "activate" /\ apc[i] = "ok" /\ LcFree
  /\ At(i, "done") /\ Go(i, "idle")
  /\ phase' = IF lsess = i THEN [phase EXCEPT ![i] = "active"] ELSE phase
  /\ UNCHANGED <<disk, session, builds, abuild, mu, boot, lsess, url, prev,
                 cancelled, reauth, opc, env>>

LoginResult(i) ==
  /\ lpc[i] = "activate" /\ apc[i] \in {"ok", "err"} /\ LcFree
  /\ \/ apc[i] = "err" /\ Fail(i)
     \/ /\ apc[i] = "ok" /\ At(i, "done")
        /\ phase' = IF lsess = i THEN [phase EXCEPT ![i] = "active"] ELSE phase
  /\ Go(i, "idle")
  /\ UNCHANGED <<disk, session, builds, abuild, mu, boot, lsess, url, prev,
                 cancelled, reauth, opc, env>>

LoginRun(i) ==
  \/ WaitPrev(i) \/ EnrollStep(i) \/ EnrollFails(i) \/ Gate(i) \/ LoginResult(i)

-----------------------------------------------------------------------------
(* Logout. It holds lc.mu from its first step to its last. *)

(* Mutant: the sign-out does not refuse while a sign-in is in flight. *)
LogoutAnytime ==
  /\ "logout" \in inst.features /\ LcFree
  /\ opc' = "deauth"
  /\ UNCHANGED <<disk, session, builds, acts, boot, signins, env>>

LogoutStart ==
  /\ "logout" \in inst.features /\ LcFree /\ ~InFlight
  /\ opc' = "deauth"
  /\ UNCHANGED <<disk, session, builds, acts, boot, signins, env>>

(* deauth.Deregister, best effort, then deactivateSession. *)
LogoutDeauth ==
  /\ opc = "deauth"
  /\ opc' = "deactivate" /\ Go(Out, "lock")
  /\ UNCHANGED <<disk, session, builds, abuild, mu, boot, signins, env>>

LogoutDown ==
  /\ opc = "deactivate" /\ apc[Out] = "ok"
  /\ opc' = "wipe" /\ Go(Out, "idle")
  /\ UNCHANGED <<disk, session, builds, abuild, mu, boot, signins, env>>

(* identity.RemoveEnrollment; a failure leaves files and the login session. *)
LogoutWipe ==
  /\ opc = "wipe" /\ opc' = "idle"
  /\ \/ /\ identity' = NoCred /\ secrets' = NoCred /\ lsess' = 0 /\ UNCHANGED env
     \/ /\ Fails
        /\ UNCHANGED <<disk, lsess>>
  /\ UNCHANGED <<session, builds, acts, boot, phase, url, prev, cancelled,
                 reauth, lpc>>

LogoutStep == LogoutDeauth \/ LogoutDown \/ LogoutWipe

-----------------------------------------------------------------------------
Next ==
  \/ \E p \in Procs : Activation(p)
  \/ BootTry \/ BootResult \/ RotateTrigger \/ RotateResult \/ StateDirVanishes
  \/ StartLive \/ Start \/ \E i \in Logins : LoginRun(i)
  \/ LogoutStart \/ LogoutStep

Spec == Init /\ [][Next]_vars

(* Every goroutine that can take a step takes it: activations and the      *)
(* boot loop run, a sign-in's window ends at the control plane, Logout's   *)
(* control-plane call has a timeout. sync.Mutex is starvation-free, hence  *)
(* strong fairness for the lock.                                           *)
Fairness ==
  /\ \A p \in Procs : WF_vars(Activation(p)) /\ SF_vars(LockRebuild(p))
  /\ WF_vars(BootTry) /\ WF_vars(BootResult) /\ WF_vars(RotateResult)
  /\ \A i \in Logins : SF_vars(LoginRun(i))
  /\ WF_vars(LogoutStep)

FairSpec == Spec /\ Fairness

-----------------------------------------------------------------------------
(* Properties *)

InBuild == {abuild[p] : p \in {q \in Procs : apc[q] \in {"wire", "publish"}}}

(* "Exactly one session is live at a time" (session.go:28): apart from     *)
(* builds that are not published yet, nothing but the published session    *)
(* has goroutines and a WireGuard engine running.                          *)
OneLiveSession ==
  /\ TypeOK
  /\ running \ InBuild \subseteq {cur}

(* A replaced sign-in that still finishes is not started (login.go:454):   *)
(* only the current sign-in activates.                                     *)
OnlyCurrentActivates == \A i \in Logins : lpc[i] = "activate" => lsess = i

(* What a sign-in publishes was built from the credentials it obtained,    *)
(* not from another sign-in's (login.go:385-387).                          *)
SignInUsesItsCredentials ==
  \A i \in Logins : lpc[i] = "activate" /\ abuild[i] # 0 => credOf[abuild[i]] = i

(* Sign-out takes the enrollment and the session away together: "nothing   *)
(* can write identity.json back" (logout.go:53). With no enrollment on     *)
(* disk and no sign-out under way, no session serves one. It does not hold *)
(* when a re-activation or the boot activation may race the sign-out.      *)
SignedOutStaysOut == identity = NoCred /\ opc = "idle" => cur = 0

(* Sign-ins and sign-outs are the only actors. *)
OnlySignIns == inst.features \cap {"boot", "vanish", "rotate"} = {}

(* The same where it holds: sign-ins and sign-outs among themselves. *)
SignedOutOfSignIns == OnlySignIns => SignedOutStaysOut

(* With nobody building and nothing failed so far, the Claude listener     *)
(* dispatches into the live session and into no other (proxy.go:49,        *)
(* main.go:2058): a rebuild that fails leaves it dispatching into the      *)
(* session that was torn down, and an activation that loses the publish to *)
(* another (boot, re-activation) leaves it dispatching into its own.       *)
ListenerServesLive ==
  /\ fails = 0 /\ OnlySignIns
  /\ \A p \in Procs : apc[p] \in {"idle", "ok", "err"}
  => proxy \in {0, cur}

(* What is begun on the two mutexes ends: a sign-in, whatever the other    *)
(* actors do; a sign-out, so that Start and Status answer again; and a     *)
(* daemon enrolled on disk gets a session although activations fail        *)
(* (activation.go:34), as long as the enrollment stays on disk.            *)
SignInEnds == \A i \in Logins : (lpc[i] = "wait") ~> (lpc[i] = "done")
SignOutEnds == (opc # "idle") ~> (opc = "idle")
BootGoesLive ==
  (boot = "check") ~> (cur # 0 \/ NoCred \in {identity, secrets})
OperationsEnd == SignInEnds /\ SignOutEnds /\ BootGoesLive
=============================================================================
