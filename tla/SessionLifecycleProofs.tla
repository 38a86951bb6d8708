----------------------- MODULE SessionLifecycleProofs -----------------------
(*************************************************************************)
(* Proofs about the daemon's session, its sign-ins and its sign-out.     *)
(*                                                                       *)
(* Placed and Current say which actor may be where. From there the parts *)
(* split. For the one live session: who tears down holds reactivateMu up *)
(* to the publish (Locked), a rebuild has a session to replace           *)
(* (Replaces) or the sources of sessions are used up (OneLeft), so       *)
(* nobody publishes between a teardown and the reset after it            *)
(* (TornDown), and every running build is the session's or in some       *)
(* actor's hands (OneLive). For the sign-out: where only sign-ins and    *)
(* sign-outs act, a session has its enrollment on disk (Enrolled). For   *)
(* the listener: each sign-in builds once (BuildsCounted), and proxy     *)
(* follows the build (Listens). For the credentials: who may still write *)
(* beside the current sign-in (Handover), whose tokens are on disk and   *)
(* in its build (Own). Those two need that no sign-in is replaced while  *)
(* it waits for another (NoQueue), and the theorems about them say so.   *)
(*************************************************************************)
EXTENDS SessionLifecycle, FiniteSetTheorems, TLAPS

(* TypeOK, a kind of state at a time. *)
Phases == {"none", "logging_in", "activating", "active", "error"}

FilesTyped ==
  /\ identity \in Creds \cup {NoCred} /\ secrets \in Creds \cup {NoCred}
  /\ credOf \in [Builds -> Creds]

BuildsTyped ==
  /\ cur \in 0..MaxBuilds /\ proxy \in 0..MaxBuilds
  /\ running \subseteq Builds /\ nbuilds \in 0..MaxBuilds
  /\ abuild \in [Procs -> 0..MaxBuilds]

ActsTyped ==
  /\ apc \in [Procs -> APCs] /\ mu \in Procs \cup {Nobody}
  /\ boot \in {"check", "activating", "done"}

SignInsTyped ==
  /\ lsess \in 0..MaxLogins
  /\ phase \in [Logins -> Phases] /\ lpc \in [Logins -> LPCs]
  /\ url \in [Logins -> URLs] /\ prev \in [Logins -> 0..MaxLogins]
  /\ cancelled \subseteq Logins /\ reauth \subseteq Logins

EnvTyped ==
  /\ opc \in {"idle", "deauth", "deactivate", "wipe"}
  /\ fails \in 0..MaxFails /\ inst \in Instances

Types == FilesTyped /\ BuildsTyped /\ ActsTyped /\ SignInsTyped /\ EnvTyped

(* The actors are apart, and what the assumptions say of the bounds.       *)
LEMMA Consts ==
  /\ MaxLogins \in Nat /\ MaxBuilds \in Nat /\ MaxFails \in Nat
  /\ Logins \subseteq Procs /\ {Boot, Rotator, Out} \subseteq Procs
  /\ {Boot, Rotator, Out} \cap Logins = {} /\ Rotator # Out /\ Boot # Out /\ Boot # Rotator
  /\ Nobody \notin Procs /\ NoCred \notin Creds /\ Logins \subseteq Creds /\ 0 \in Creds
  /\ DefaultURL \in URLs /\ NoURL \notin URLs
  /\ \A x \in Instances : /\ x.logins \in 0..MaxLogins /\ x.builds \in 0..MaxBuilds
                          /\ x.fails \in 0..MaxFails /\ x.features \subseteq AllFeatures
  BY URLAssumption, BoundAssumption, InstanceAssumption, CredAssumption
  DEF Logins, Procs, Boot, Rotator, Out, Nobody, Creds

(* The parts of TypeOK, first of the initial states, then of each step.    *)
LEMMA InitTypes == Init => Types
  BY Consts DEF Init, Types, FilesTyped, BuildsTyped, ActsTyped, SignInsTyped, EnvTyped, APCs, LPCs, Phases

LEMMA FilesKept == ASSUME Types, [Next]_vars PROVE FilesTyped'
<1> USE Consts DEF Types, FilesTyped, disk, builds
<1>1. CASE UNCHANGED <<disk, credOf>>
  BY <1>1
<1>2. ASSUME NEW p \in Procs, Load(p) PROVE FilesTyped'
  BY <1>2 DEF Load, BuildsTyped, EnvTyped, Builds
<1>3. ASSUME NEW p \in Procs, Activation(p), ~Load(p) PROVE FilesTyped'
  BY <1>1, <1>3 DEF Activation, LockRebuild, ReadAndTeardown, Reset, LoadNothing, Wire, BuildFails, Publish
<1>4. CASE BootTry \/ BootResult \/ RotateTrigger \/ RotateResult \/ LogoutStart \/ Start
  BY <1>1, <1>4 DEF BootTry, BootResult, RotateTrigger, RotateResult, LogoutStart, Start
<1>5. CASE StateDirVanishes
  BY <1>5 DEF StateDirVanishes
<1>6. CASE StartLive
  BY <1>6 DEF StartLive, BuildsTyped, Builds
<1>7. ASSUME NEW i \in Logins, LoginRun(i) PROVE FilesTyped'
  BY <1>7 DEF LoginRun, WaitPrev, EnrollStep, EnrollFails, Gate, LoginResult
<1>8. CASE LogoutStep
  BY <1>8 DEF LogoutStep, LogoutDeauth, LogoutDown, LogoutWipe
<1>9. CASE UNCHANGED vars
  BY <1>1, <1>9 DEF vars
<1> QED
  BY <1>2, <1>3, <1>4, <1>5, <1>6, <1>7, <1>8, <1>9 DEF Next

LEMMA BuildsKept == ASSUME Types, [Next]_vars PROVE BuildsTyped'
<1> USE Consts DEF Types, BuildsTyped, session, builds, acts
<1>1. CASE UNCHANGED <<session, nbuilds, abuild>>
  BY <1>1
<1>2. ASSUME NEW p \in Procs, Load(p) PROVE BuildsTyped'
  BY <1>2 DEF Load, EnvTyped, Builds
<1>3. ASSUME NEW p \in Procs, Publish(p) PROVE BuildsTyped'
  BY <1>3 DEF Publish
<1>4. ASSUME NEW p \in Procs, Activation(p), ~Load(p), ~Publish(p) PROVE BuildsTyped'
  BY <1>4 DEF Activation, LockRebuild, ReadAndTeardown, Reset, LoadNothing, Wire, BuildFails
<1>5. CASE BootTry \/ BootResult \/ RotateTrigger \/ RotateResult \/ LogoutStart \/ Start
  BY <1>1, <1>5 DEF BootTry, BootResult, RotateTrigger, RotateResult, LogoutStart, Start
<1>6. CASE StateDirVanishes \/ StartLive \/ LogoutStep
  BY <1>1, <1>6 DEF StateDirVanishes, StartLive, LogoutStep, LogoutDeauth, LogoutDown, LogoutWipe
<1>7. ASSUME NEW i \in Logins, LoginRun(i) PROVE BuildsTyped'
  BY <1>1, <1>7 DEF LoginRun, WaitPrev, EnrollStep, EnrollFails, Gate, LoginResult
<1>8. CASE UNCHANGED vars
  BY <1>1, <1>8 DEF vars
<1> QED
  BY <1>2, <1>3, <1>4, <1>5, <1>6, <1>7, <1>8 DEF Next

LEMMA ActsKept == ASSUME Types, [Next]_vars PROVE ActsTyped'
<1> USE Consts DEF Types, ActsTyped, acts
<1>1. CASE UNCHANGED <<apc, mu, boot>>
  BY <1>1
<1>2. ASSUME NEW p \in Procs, NEW x \in APCs, Go(p, x) \/ Return(p, x), mu' \in {mu, p, Nobody}, boot' = boot
      PROVE  ActsTyped'
  BY <1>2 DEF Go, Return
<1>3. ASSUME NEW p \in Procs, Activation(p) PROVE ActsTyped'
  <2>1. CASE LockRebuild(p) \/ ReadAndTeardown(p) \/ Load(p) \/ Wire(p)
    BY <1>2, <2>1 DEF LockRebuild, ReadAndTeardown, Load, Wire, APCs
  <2>2. CASE Reset(p)
    BY <1>2, <2>2 DEF Reset, Return, APCs
  <2>3. CASE LoadNothing(p) \/ BuildFails(p) \/ Publish(p)
    BY <1>2, <2>3 DEF LoadNothing, BuildFails, Publish, Return, APCs
  <2> QED
    BY <1>3, <2>1, <2>2, <2>3 DEF Activation
<1>4. CASE BootTry \/ BootResult
  BY <1>4 DEF BootTry, BootResult, Go, APCs
<1>5. CASE RotateTrigger \/ RotateResult
  BY <1>2, <1>5 DEF RotateTrigger, RotateResult, APCs
<1>6. CASE StateDirVanishes \/ StartLive \/ Start \/ LogoutStart
  BY <1>1, <1>6 DEF StateDirVanishes, StartLive, Start, LogoutStart
<1>7. ASSUME NEW i \in Logins, WaitPrev(i) \/ EnrollStep(i) \/ EnrollFails(i) PROVE ActsTyped'
  BY <1>1, <1>7 DEF WaitPrev, EnrollStep, EnrollFails
<1>8. ASSUME NEW i \in Logins, Gate(i) \/ LoginResult(i) PROVE ActsTyped'
  BY <1>1, <1>2, <1>8 DEF Gate, LoginResult, APCs
<1>9. CASE LogoutStep
  BY <1>1, <1>2, <1>9 DEF LogoutStep, LogoutDeauth, LogoutDown, LogoutWipe, APCs
<1>10. CASE UNCHANGED vars
  BY <1>1, <1>10 DEF vars
<1> QED
  BY <1>3, <1>4, <1>5, <1>6, <1>7, <1>8, <1>9, <1>10 DEF Next, LoginRun

(* The sign-ins that were started are finitely many. *)
LEMMA StartedFinite ==
  /\ Started \subseteq Logins /\ IsFiniteSet(Logins) /\ IsFiniteSet(Started)
  /\ Cardinality(Started) \in Nat /\ NextLogin \in Nat \ {0}
<1>1. IsFiniteSet(Logins)
  BY Consts, FS_Interval DEF Logins
<1>2. Started \subseteq Logins
  BY DEF Started
<1>3. IsFiniteSet(Started) /\ Cardinality(Started) \in Nat
  BY <1>1, <1>2, FS_Subset, FS_CardinalityType
<1> QED
  BY <1>1, <1>2, <1>3 DEF NextLogin

LEMMA SignInsKept == ASSUME Types, [Next]_vars PROVE SignInsTyped'
<1> USE Consts DEF Types, SignInsTyped, signins
<1>1. CASE UNCHANGED signins
  BY <1>1
<1>2. ASSUME NEW p \in Procs, Activation(p) PROVE SignInsTyped'
  BY <1>1, <1>2 DEF Activation, LockRebuild, ReadAndTeardown, Reset, Load, LoadNothing, Wire, BuildFails, Publish
<1>3. CASE BootTry \/ BootResult \/ RotateTrigger \/ RotateResult \/ StateDirVanishes \/ StartLive \/ LogoutStart
  BY <1>1, <1>3 DEF BootTry, BootResult, RotateTrigger, RotateResult, StateDirVanishes, StartLive, LogoutStart
<1>4. CASE Start
  <2> DEFINE n == NextLogin
  <2>1. n \in Logins
    BY <1>4, StartedFinite DEF Start, Logins, EnvTyped
  <2>2. /\ lsess' = n /\ phase' = [phase EXCEPT ![n] = "logging_in"] /\ lpc' = [lpc EXCEPT ![n] = "wait"]
        /\ \E c \in URLs : url' = [url EXCEPT ![n] = c]
        /\ \E q \in {0, lsess} : prev' = [prev EXCEPT ![n] = q]
        /\ cancelled' = cancelled \/ (lsess # 0 /\ cancelled' = cancelled \cup {lsess})
        /\ reauth' = reauth \/ reauth' = reauth \cup {n}
    BY <1>4 DEF Start, InFlight
  <2>3. lsess # 0 => lsess \in Logins
    BY DEF Logins
  <2> HIDE DEF n
  <2>4. phase' \in [Logins -> Phases] /\ lpc' \in [Logins -> LPCs]
    BY <2>1, <2>2 DEF Phases, LPCs
  <2>5. url' \in [Logins -> URLs] /\ prev' \in [Logins -> 0..MaxLogins]
    BY <2>1, <2>2
  <2>6. lsess' \in 0..MaxLogins
    BY <2>1, <2>2 DEF Logins
  <2> QED
    BY <2>1, <2>2, <2>3, <2>4, <2>5, <2>6
<1>5. ASSUME NEW i \in Logins, LoginRun(i) PROVE SignInsTyped'
  BY <1>5 DEF LoginRun, WaitPrev, EnrollStep, EnrollFails, Gate, LoginResult, At, Fail, LPCs, Phases
<1>6. CASE LogoutStep
  BY <1>6 DEF LogoutStep, LogoutDeauth, LogoutDown, LogoutWipe
<1>7. CASE UNCHANGED vars
  BY <1>1, <1>7 DEF vars
<1> QED
  BY <1>2, <1>3, <1>4, <1>5, <1>6, <1>7 DEF Next

LEMMA EnvKept == ASSUME Types, [Next]_vars PROVE EnvTyped' /\ inst' = inst
<1> USE Consts DEF Types, EnvTyped, env, Fails
<1>1. ASSUME NEW p \in Procs, Activation(p) PROVE EnvTyped' /\ inst' = inst
  BY <1>1 DEF Activation, LockRebuild, ReadAndTeardown, Reset, Load, LoadNothing, Wire, BuildFails, Publish
<1>2. CASE BootTry \/ BootResult \/ RotateTrigger \/ RotateResult \/ StateDirVanishes \/ StartLive \/ LogoutStart \/ Start
  BY <1>2 DEF BootTry, BootResult, RotateTrigger, RotateResult, StateDirVanishes, StartLive, LogoutStart, Start
<1>3. ASSUME NEW i \in Logins, LoginRun(i) PROVE EnvTyped' /\ inst' = inst
  BY <1>3 DEF LoginRun, WaitPrev, EnrollStep, EnrollFails, Gate, LoginResult
<1>4. CASE LogoutStep
  BY <1>4 DEF LogoutStep, LogoutDeauth, LogoutDown, LogoutWipe
<1>5. CASE UNCHANGED vars
  BY <1>5 DEF vars
<1> QED
  BY <1>1, <1>2, <1>3, <1>4, <1>5 DEF Next

LEMMA TypesKept == ASSUME Types, [Next]_vars PROVE Types'
  BY FilesKept, BuildsKept, ActsKept, SignInsKept, EnvKept DEF Types

-----------------------------------------------------------------------------
(* The sign-ins are numbered in the order they start.                      *)
Numbered ==
  /\ Started = 1..Cardinality(Started) /\ Cardinality(Started) <= inst.logins
  /\ \A i \in Logins : lpc[i] = "none" <=> i \notin Started
  /\ lsess # 0 => lsess \in Started
  /\ cancelled \subseteq Started /\ reauth \subseteq Started

(* The current sign-in is not cancelled, its phase says where it is, and no *)
(* other activates; a sign-out finds none in flight.                       *)
Going == {"wait", "enroll", "saveIdentity", "saveSecrets", "gate"}

Current ==
  /\ \A i \in Logins : lpc[i] = "activate" => lsess = i
  /\ lsess # 0 => /\ lsess \notin cancelled
                  /\ phase[lsess] = "logging_in" <=> lpc[lsess] \in Going
                  /\ phase[lsess] = "activating" <=> lpc[lsess] = "activate"
  /\ opc # "idle" => ~InFlight

(* The number a sign-in gets is new. *)
LEMMA NextIsNew ==
  ASSUME Types, Numbered, NextLogin <= inst.logins, phase' = [phase EXCEPT ![NextLogin] = "logging_in"]
  PROVE  /\ NextLogin \in Logins /\ NextLogin \notin Started /\ Started' = Started \cup {NextLogin}
         /\ Started' = 1..Cardinality(Started') /\ Cardinality(Started') = NextLogin
<1> DEFINE n == NextLogin
<1>1. n = Cardinality(Started) + 1 /\ n \in Logins /\ n \notin Started
  <2>1. n = Cardinality(Started) + 1
    BY DEF NextLogin
  <2>2. n \in Logins
    BY StartedFinite, Consts DEF Logins, Types, EnvTyped
  <2> QED
    BY <2>1, <2>2, StartedFinite DEF Numbered
<1>2. Started' = Started \cup {n}
  BY <1>1 DEF Started, Types, SignInsTyped, Phases
<1>3. Cardinality(Started \cup {n}) = Cardinality(Started) + 1
  BY <1>1, StartedFinite, FS_AddElement
<1>4. 1..n = (1..Cardinality(Started)) \cup {n}
  BY <1>1, StartedFinite
<1> QED
  BY <1>1, <1>2, <1>3, <1>4 DEF Numbered

(* Nothing has started.                                                    *)
LEMMA OrderInit == ASSUME Init PROVE Numbered /\ Current
<1>1. Started = {} /\ Cardinality(Started) = 0 /\ 1..0 = {}
  BY FS_EmptySet DEF Init, Started
<1>2. \A i \in Logins : lpc[i] = "none" /\ i # lsess
  BY DEF Init, Logins
<1>3. 0 <= inst.logins
  BY Consts DEF Init
<1> QED
  BY <1>1, <1>2, <1>3 DEF Init, Numbered, Current, Logins

(* A new sign-in becomes the current one and cancels at most the last.     *)
LEMMA OrderNext == ASSUME Types, Numbered, Current, [Next]_vars PROVE Numbered' /\ Current'
<1> USE DEF Types, SignInsTyped, signins
<1>0. inst' = inst
  BY EnvKept
<1>1. ASSUME UNCHANGED <<lsess, cancelled, reauth, lpc, phase>>, opc' \in {opc, "idle"} \/ ~InFlight PROVE Numbered' /\ Current'
  <2>1. Started' = Started /\ InFlight' = InFlight
    BY <1>1 DEF Started, InFlight
  <2> QED
    BY <1>0, <1>1, <2>1 DEF Numbered, Current
<1>2. ASSUME NEW p \in Procs, Activation(p) PROVE Numbered' /\ Current'
  BY <1>1, <1>2 DEF Activation, LockRebuild, ReadAndTeardown, Reset, Load, LoadNothing, Wire, BuildFails, Publish
<1>3. CASE BootTry \/ BootResult \/ RotateTrigger \/ RotateResult \/ StateDirVanishes \/ StartLive \/ LogoutStart
  BY <1>1, <1>3 DEF BootTry, BootResult, RotateTrigger, RotateResult, StateDirVanishes, StartLive, LogoutStart
<1>4. CASE Start
  <2> DEFINE n == NextLogin
  <2>1. /\ n <= inst.logins /\ opc' = "idle" /\ lsess' = n
        /\ phase' = [phase EXCEPT ![n] = "logging_in"] /\ lpc' = [lpc EXCEPT ![n] = "wait"]
        /\ InFlight => phase[lsess] = "logging_in"
        /\ cancelled' = cancelled \/ (lsess # 0 /\ cancelled' = cancelled \cup {lsess})
        /\ reauth' = reauth \/ reauth' = reauth \cup {n}
    BY <1>4 DEF Start, InFlight, LcFree
  <2>2. /\ n \in Logins /\ n \notin Started /\ Started' = Started \cup {n}
        /\ Started' = 1..Cardinality(Started') /\ Cardinality(Started') = n
    BY <2>1, NextIsNew
  <2> HIDE DEF n
  <2>3. Numbered'
    BY <1>0, <2>1, <2>2 DEF Numbered
  <2>4. \A i \in Logins : lpc[i] # "activate"
    BY <2>1 DEF Current, InFlight, Logins
  <2>5. Current'
    BY <2>1, <2>2, <2>4 DEF Current, Numbered, Going, Logins
  <2> QED
    BY <2>3, <2>5
<1>5. ASSUME NEW i \in Logins, NEW x \in LPCs \ {"none"}, At(i, x), lpc[i] # "none", UNCHANGED <<lsess, cancelled, reauth, opc>>,
             NEW f \in Phases \ {"none"},
             phase' = phase \/ phase' = [phase EXCEPT ![i] = f]
      PROVE  Numbered'
  <2>1. i \in Started /\ Started' = Started
    BY <1>5 DEF Started, Numbered, Phases
  <2> QED
    BY <1>0, <1>5, <2>1 DEF Numbered, At
<1>6. ASSUME NEW i \in Logins, WaitPrev(i) \/ EnrollStep(i) PROVE Numbered' /\ Current'
  <2>1. /\ lpc[i] \in Going /\ UNCHANGED <<lsess, phase, cancelled, reauth, opc>>
        /\ \E x \in Going \cup {"done"} : At(i, x) /\ (x = "done" => i \in cancelled)
    BY <1>6 DEF WaitPrev, EnrollStep, Going
  <2>2. Numbered'
    BY <1>5, <2>1 DEF Going, LPCs, Phases
  <2>3. Current'
    BY <2>1 DEF Current, At, Going, InFlight, Logins
  <2> QED
    BY <2>2, <2>3
<1>7. ASSUME NEW i \in Logins, EnrollFails(i) \/ Gate(i) \/ LoginResult(i) PROVE Numbered' /\ Current'
  <2>1. /\ lpc[i] \in Going \cup {"activate"} /\ UNCHANGED <<lsess, cancelled, reauth, opc>> /\ opc = "idle"
        /\ \/ /\ lsess = i /\ At(i, "activate") /\ phase' = [phase EXCEPT ![i] = "activating"]
           \/ /\ lsess = i /\ At(i, "done") /\ \E f \in {"error", "active"} : phase' = [phase EXCEPT ![i] = f]
           \/ lsess # i /\ At(i, "done") /\ phase' = phase
    BY <1>7 DEF EnrollFails, Gate, LoginResult, Fail, Going, LcFree
  <2>2. Numbered'
    BY <1>5, <2>1 DEF Going, LPCs, Phases
  <2>3. \A j \in Logins : lpc'[j] = "activate" => lsess' = j
    BY <2>1 DEF Current, At
  <2>4. lsess # 0 => lsess \in Logins /\ i \in Logins
    BY DEF Logins
  <2>7. opc' = "idle"
    BY <2>1
  <2>5. CASE lsess = i
    <3>1. lsess' = i /\ i \notin cancelled' /\ i # 0
      BY <2>1, <2>4, <2>5 DEF Current, Logins
    <3>2. \/ lpc'[i] = "activate" /\ phase'[i] = "activating"
          \/ lpc'[i] = "done" /\ phase'[i] \in {"error", "active"}
      BY <2>1, <2>5 DEF At
    <3> QED
      BY <2>2, <2>3, <2>7, <3>1, <3>2 DEF Current, Going
  <2>6. CASE lsess # i
    <3>1. lsess' = lsess /\ cancelled' = cancelled /\ phase' = phase /\ (lsess # 0 => lpc'[lsess] = lpc[lsess])
      BY <2>1, <2>4, <2>6 DEF At
    <3> QED
      BY <2>2, <2>3, <2>7, <3>1 DEF Current
  <2> QED
    BY <2>5, <2>6
<1>8. CASE LogoutDeauth \/ LogoutDown
  BY <1>1, <1>8 DEF LogoutDeauth, LogoutDown, Current
<1>9. CASE LogoutWipe
  <2>1. CASE UNCHANGED lsess
    BY <1>1, <1>9, <2>1 DEF LogoutWipe
  <2>2. CASE lsess' = 0
    <3>1. UNCHANGED <<cancelled, reauth, lpc, phase>> /\ opc = "wipe" /\ Started' = Started
      BY <1>9 DEF LogoutWipe, Started
    <3>2. \A i \in Logins : lpc[i] # "activate"
      BY <3>1 DEF Current, InFlight, Logins
    <3> QED
      BY <1>0, <2>2, <3>1, <3>2 DEF Numbered, Current, InFlight
  <2> QED
    BY <1>9, <2>1, <2>2 DEF LogoutWipe
<1>10. CASE UNCHANGED vars
  BY <1>1, <1>10 DEF vars
<1> QED
  BY <1>2, <1>3, <1>4, <1>6, <1>7, <1>8, <1>9, <1>10 DEF Next, LoginRun, LogoutStep

-----------------------------------------------------------------------------
(* Who may be where in activate, rebuildSession and deactivateSession.     *)
Resets == {"lock", "read", "reset"}

Placed ==
  /\ \A i \in Logins : /\ apc[i] # "idle" => lpc[i] = "activate"
                       /\ apc[i] \in Resets => i \in reauth
  /\ apc[Out] # "idle" => opc = "deactivate" /\ apc[Out] \in Resets \cup {"ok"}
  /\ apc[Rotator] # "idle" => "rotate" \in inst.features
  /\ apc[Boot] # "idle" => boot = "activating" /\ apc[Boot] \notin Resets
  /\ boot # "done" => "boot" \in inst.features
  /\ opc # "idle" => "logout" \in inst.features
  /\ reauth # {} => "reauth" \in inst.features

(* The actors are the sign-ins, the boot, the rotator and the sign-out.    *)
LEMMA ProcsAre == Procs = Logins \cup {Boot, Rotator, Out}
  BY Consts DEF Procs, Logins, Boot, Rotator, Out

(* Where a step of the activation leads.                                   *)
Leads(p, x) == /\ apc' = [apc EXCEPT ![p] = x]
               /\ x \in Resets => apc[p] \in Resets
               /\ p = Out => x \in {"read", "reset", "ok"}

LEMMA ActivationGoes ==
  ASSUME Types, NEW p \in Procs, Activation(p), p = Out => apc[p] \in Resets \cup {"idle", "ok"}
  PROVE  /\ apc[p] \notin {"idle", "ok", "err"}
         /\ UNCHANGED <<boot, signins, opc, inst>>
         /\ \E x \in APCs \ {"idle"} : Leads(p, x)
<1>1. UNCHANGED <<boot, signins, opc, inst>>
  BY DEF Activation, LockRebuild, ReadAndTeardown, Reset, Load, LoadNothing, Wire, BuildFails, Publish, Fails, env
<1>2. CASE LockRebuild(p) \/ ReadAndTeardown(p)
  BY <1>1, <1>2 DEF LockRebuild, ReadAndTeardown, Go, APCs, Resets, Leads
<1>3. CASE Reset(p)
  BY <1>1, <1>3 DEF Reset, Go, Return, APCs, Resets, Leads
<1>4. CASE Load(p) \/ LoadNothing(p) \/ Wire(p) \/ BuildFails(p) \/ Publish(p)
  BY <1>1, <1>4 DEF Load, LoadNothing, Wire, BuildFails, Publish, Go, Return, APCs, Resets, Leads
<1> QED
  BY <1>2, <1>3, <1>4 DEF Activation

(* Nobody is in activate.                                                  *)
LEMMA PlacedInit == ASSUME Init PROVE Placed
<1>1. apc = [p \in Procs |-> "idle"] /\ reauth = {} /\ opc = "idle"
      /\ (boot # "done" => "boot" \in inst.features)
  BY DEF Init
<1> QED
  BY <1>1, Consts DEF Placed, Resets

(* A step of the activation leaves its actor in a place it may be.         *)
LEMMA ActivationPlaced == ASSUME Types, Placed, NEW p \in Procs, Activation(p) PROVE Placed'
<1>1. p = Out => apc[p] \in Resets \cup {"idle", "ok"}
  BY DEF Placed
<1>2. apc[p] # "idle" /\ UNCHANGED <<boot, signins, opc, inst>>
  BY <1>1, ActivationGoes
<1>3. PICK x \in APCs \ {"idle"} : Leads(p, x)
  BY <1>1, ActivationGoes
<1> QED
  BY <1>2, <1>3, Consts DEF Leads, Resets, Types, ActsTyped, Placed, signins

(* Every other step puts an actor where Placed wants it.                   *)
LEMMA PlacedNext == ASSUME Types, Numbered, Current, Placed, [Next]_vars PROVE Placed'
<1> USE Consts DEF Types, ActsTyped, Placed, acts, signins, env
<1>1. CASE UNCHANGED <<apc, boot, reauth, opc, lpc, inst>>
  BY <1>1
<1>2. ASSUME NEW p \in Procs, Activation(p) PROVE Placed'
  BY <1>2, ActivationPlaced
<1>3. CASE BootTry \/ BootResult
  BY <1>3 DEF BootTry, BootResult, Go, Resets
<1>4. CASE RotateTrigger \/ RotateResult
  BY <1>4 DEF RotateTrigger, RotateResult, Go
<1>5. CASE StateDirVanishes \/ StartLive
  BY <1>1, <1>5 DEF StateDirVanishes, StartLive
<1>6. CASE Start
  <2> DEFINE n == NextLogin
  <2>1. /\ n <= inst.logins /\ phase' = [phase EXCEPT ![n] = "logging_in"] /\ lpc' = [lpc EXCEPT ![n] = "wait"]
        /\ reauth' = reauth \/ (reauth' = reauth \cup {n} /\ "reauth" \in inst.features)
        /\ UNCHANGED <<apc, boot, opc, inst>>
    BY <1>6 DEF Start
  <2>2. n \in Logins /\ n \notin Started
    BY <2>1, NextIsNew
  <2> HIDE DEF n
  <2>3. lpc[n] = "none" /\ apc[n] = "idle"
    BY <2>2 DEF Numbered
  <2> QED
    BY <2>1, <2>2, <2>3 DEF SignInsTyped
<1>7. ASSUME NEW i \in Logins, WaitPrev(i) \/ EnrollStep(i) \/ EnrollFails(i) PROVE Placed'
  <2>1. lpc[i] # "activate" /\ (\E x \in LPCs : At(i, x)) /\ UNCHANGED <<apc, boot, opc, inst, reauth>>
    BY <1>7 DEF WaitPrev, EnrollStep, EnrollFails, Fail, LPCs
  <2> QED
    BY <2>1 DEF At, SignInsTyped
<1>8. ASSUME NEW i \in Logins, Gate(i) PROVE Placed'
  BY <1>8 DEF Gate, At, Go, SignInsTyped, Resets
<1>9. ASSUME NEW i \in Logins, LoginResult(i) PROVE Placed'
  BY <1>9 DEF LoginResult, Fail, At, Go, SignInsTyped, Resets
<1>10. CASE LogoutStart \/ LogoutWipe
  BY <1>10 DEF LogoutStart, LogoutWipe, Fails, LcFree
<1>12. CASE LogoutDeauth
  BY <1>12 DEF LogoutDeauth, Go, Resets
<1>13. CASE LogoutDown
  BY <1>13 DEF LogoutDown, Go, Resets
<1>11. CASE UNCHANGED vars
  BY <1>1, <1>11 DEF vars
<1> QED
  BY <1>2, <1>3, <1>4, <1>5, <1>6, <1>7, <1>8, <1>9, <1>10, <1>11, <1>12, <1>13 DEF Next, LoginRun, LogoutStep

(* Without a boot activation and without rotations an actor is alone.      *)
Lone == inst.features \cap {"boot", "rotate"} = {}

LEMMA AloneIs ==
  ASSUME Types, Current, Placed, Lone, NEW p \in Procs, NEW q \in Procs, apc[p] # "idle", apc[q] # "idle"
  PROVE  p = q
<1>1. p \notin {Boot, Rotator} /\ q \notin {Boot, Rotator}
  BY Consts DEF Placed, Lone
<1>2. \A i \in Logins : apc[i] # "idle" => lsess = i /\ i # 0 /\ phase[i] = "activating" /\ InFlight
  BY DEF Placed, Current, InFlight, Logins
<1>3. apc[Out] # "idle" => ~InFlight
  BY DEF Placed, Current
<1> QED
  BY <1>1, <1>2, <1>3, ProcsAre

-----------------------------------------------------------------------------
(* Builds are numbered, and an actor that builds has one.                  *)
Fresh ==
  /\ cur <= nbuilds /\ \A b \in running : b <= nbuilds
  /\ \A p \in Procs : /\ abuild[p] <= nbuilds
                      /\ apc[p] \in {"wire", "publish"} => abuild[p] # 0

(* What the steps outside activate and rebuildSession do to where actors   *)
(* are in them: a result is taken, a rebuild or a sign-out is asked for,   *)
(* an activation begins.                                                   *)
Turns(p, x) ==
  /\ apc' = [apc EXCEPT ![p] = x]
  /\ \/ x = "idle" /\ apc[p] \in {"ok", "err"}
     \/ x = "load" /\ apc[p] = "idle" /\ p # Rotator /\ p \notin reauth
     \/ /\ x = "lock" /\ apc[p] = "idle"
        /\ \/ p = Rotator /\ cur \in running /\ "rotate" \in inst.features
           \/ p = Out /\ opc # "idle"
           \/ p \in reauth /\ lsess = p /\ lpc[p] \in Going

Turn == apc' = apc \/ \E p \in Procs, x \in {"idle", "lock", "load"} : Turns(p, x)

(* No other step touches the session, the builds or the mutex.             *)
LEMMA Outside ==
  ASSUME Types, Placed, [Next]_vars, \A p \in Procs : ~Activation(p)
  PROVE  UNCHANGED <<cur, running, proxy, nbuilds, abuild, mu, inst>> /\ Turn
<1> DEFINE Same == UNCHANGED <<cur, running, proxy, nbuilds, abuild, mu, inst>>
<1>1. CASE BootTry \/ BootResult
  <2>1. Same
    BY <1>1 DEF BootTry, BootResult, session, builds, env
  <2>2. Boot \in Procs /\ Boot # Rotator /\ Boot \notin reauth
    BY Consts DEF Types, SignInsTyped
  <2>3. CASE BootTry
    <3>1. apc[Boot] = "idle"
      BY <2>3 DEF BootTry, Placed
    <3> QED
      BY <2>1, <2>2, <2>3, <3>1 DEF BootTry, Go, Turn, Turns
  <2>4. CASE BootResult
    BY <2>1, <2>2, <2>4 DEF BootResult, Go, Turn, Turns
  <2> QED
    BY <1>1, <2>3, <2>4
<1>2. CASE RotateTrigger \/ RotateResult
  BY <1>2, Consts DEF RotateTrigger, RotateResult, Go, Turn, Turns, session, builds, env
<1>3. CASE StateDirVanishes \/ StartLive \/ Start \/ LogoutStart \/ LogoutWipe \/ UNCHANGED vars
  BY <1>3 DEF StateDirVanishes, StartLive, Start, LogoutStart, LogoutWipe, Fails, Turn, session, builds, acts, env, vars
<1>4. ASSUME NEW i \in Logins, LoginRun(i) PROVE Same /\ Turn
  <2>1. Same
    BY <1>4 DEF LoginRun, WaitPrev, EnrollStep, EnrollFails, Gate, LoginResult, session, builds, acts, env
  <2>2. CASE WaitPrev(i) \/ EnrollStep(i) \/ EnrollFails(i)
    BY <2>1, <2>2 DEF WaitPrev, EnrollStep, EnrollFails, acts, Turn
  <2>3. CASE Gate(i)
    <3>1. apc[i] = "idle"
      BY <2>3 DEF Gate, Placed
    <3> QED
      BY <2>1, <2>3, <3>1, Consts DEF Gate, Go, Turn, Turns, Going
  <2>4. CASE LoginResult(i)
    BY <2>1, <2>4, Consts DEF LoginResult, Go, Turn, Turns
  <2> QED
    BY <1>4, <2>2, <2>3, <2>4 DEF LoginRun
<1>5. CASE LogoutDeauth
  <2>1. apc[Out] = "idle"
    BY <1>5 DEF LogoutDeauth, Placed
  <2> QED
    BY <1>5, <2>1, Consts DEF LogoutDeauth, Go, Turn, Turns, session, builds, env
<1>6. CASE LogoutDown
  BY <1>6, Consts DEF LogoutDown, Go, Turn, Turns, session, builds, env
<1> QED
  BY <1>1, <1>2, <1>3, <1>4, <1>5, <1>6 DEF Next, LogoutStep

(* There is no build at the start, and a new one gets a new number.        *)
LEMMA FreshInit == ASSUME Init PROVE Fresh
  BY BoundAssumption DEF Init, Fresh

LEMMA FreshNext == ASSUME Types, Placed, Fresh, [Next]_vars PROVE Fresh'
<1> USE DEF Types, BuildsTyped, ActsTyped
<1>0. nbuilds \in Nat /\ \A b \in Builds : b \in Nat \ {0}
  BY Consts DEF Builds
<1>1. ASSUME NEW p \in Procs, Activation(p) PROVE Fresh'
  <2>1. CASE LockRebuild(p) \/ ReadAndTeardown(p) \/ Wire(p)
    BY <2>1 DEF LockRebuild, ReadAndTeardown, Wire, Go, Fresh, builds
  <2>2. CASE Reset(p) \/ LoadNothing(p)
    BY <1>0, <2>2 DEF Reset, LoadNothing, Go, Return, Fresh, builds, session
  <2>3. CASE Load(p)
    BY <1>0, <2>3 DEF Load, Go, Fresh
  <2>4. CASE BuildFails(p) \/ Publish(p)
    BY <1>0, <2>4 DEF BuildFails, Publish, Go, Return, Fresh, builds
  <2> QED
    BY <1>1, <2>1, <2>2, <2>3, <2>4 DEF Activation
<1>2. CASE \A p \in Procs : ~Activation(p)
  <2>1. UNCHANGED <<cur, running, proxy, nbuilds, abuild, mu, inst>> /\ Turn
    BY <1>2, Outside
  <2> QED
    BY <2>1 DEF Turn, Turns, Fresh
<1> QED
  BY <1>1, <1>2

-----------------------------------------------------------------------------
(* reactivateMu. Who tears down and resets holds it, and keeps it until    *)
(* the session it builds after that is published.                          *)
Locker(p) == p = Rotator \/ p \in reauth

Locked ==
  \A p \in Procs : \/ apc[p] \in {"read", "reset"}
                   \/ apc[p] \in {"load", "wire", "publish"} /\ Locker(p)
                   => mu = p

(* A sign-in that starts over a live session is a new one.                 *)
LEMMA ReauthGrows ==
  ASSUME Types, Numbered, Placed, [Next]_vars
  PROVE  /\ reauth \subseteq reauth' /\ (reauth' # reauth => apc' = apc /\ mu' = mu)
         /\ \A i \in reauth' \ reauth : apc[i] = "idle"
<1>1. CASE Start
  <2> DEFINE n == NextLogin
  <2>1. /\ n <= inst.logins /\ phase' = [phase EXCEPT ![n] = "logging_in"]
        /\ reauth' = reauth \/ reauth' = reauth \cup {n}
        /\ UNCHANGED <<apc, mu>>
    BY <1>1 DEF Start, acts
  <2>2. n \in Logins /\ n \notin Started
    BY <2>1, NextIsNew
  <2>3. apc[n] = "idle"
    BY <2>2 DEF Numbered, Placed
  <2> QED
    BY <2>1, <2>3
<1>2. CASE ~Start
  <2>1. reauth' = reauth
    BY <1>2 DEF Next, vars, Activation, LockRebuild, ReadAndTeardown, Reset, Load, LoadNothing, Wire, BuildFails, Publish,
       BootTry, BootResult, RotateTrigger, RotateResult, StateDirVanishes, StartLive, LogoutStart, LoginRun, WaitPrev,
       EnrollStep, EnrollFails, Gate, LoginResult, LogoutStep, LogoutDeauth, LogoutDown, LogoutWipe, signins
  <2> QED
    BY <2>1
<1> QED
  BY <1>1, <1>2

(* Who holds the mutex gives it up only when it returns.                   *)
LEMMA LockedNext == ASSUME Types, Numbered, Placed, Locked, [Next]_vars PROVE Locked'
<1> USE DEF Types, ActsTyped
<1>1. ASSUME NEW p \in Procs, Activation(p) PROVE Locked'
  <2>1. reauth' = reauth /\ Nobody \notin Procs
    BY <1>1, Consts, ActivationGoes DEF Placed, signins
  <2>2. CASE LockRebuild(p) \/ ReadAndTeardown(p)
    BY <2>1, <2>2 DEF LockRebuild, ReadAndTeardown, Go, Locked, Locker
  <2>3. CASE Reset(p)
    BY <2>1, <2>3 DEF Reset, Go, Return, Locked, Locker
  <2>4. CASE Load(p) \/ Wire(p)
    BY <2>1, <2>4 DEF Load, Wire, Go, Locked, Locker
  <2>5. CASE LoadNothing(p) \/ BuildFails(p) \/ Publish(p)
    BY <2>1, <2>5 DEF LoadNothing, BuildFails, Publish, Go, Return, Locked, Locker
  <2> QED
    BY <1>1, <2>2, <2>3, <2>4, <2>5 DEF Activation
<1>2. CASE \A p \in Procs : ~Activation(p)
  <2>1. mu' = mu /\ Turn
    BY <1>2, Outside
  <2>2. CASE reauth' = reauth
    BY <2>1, <2>2 DEF Turn, Turns, Locked, Locker
  <2>3. CASE reauth' # reauth
    BY <2>3, ReauthGrows DEF Locked, Locker
  <2> QED
    BY <2>2, <2>3
<1> QED
  BY <1>1, <1>2

-----------------------------------------------------------------------------
(* When nobody comes between a teardown and the reset after it: there are  *)
(* only sign-ins and sign-outs; or no sign-out, and of rotations and       *)
(* re-authentications not both; or no sign-out, and no more than two that  *)
(* may bring a session up, sign-ins and the boot; or one sign-in alone     *)
(* that may, whatever else there is.                                       *)
NoClash == "logout" \notin inst.features /\ ~({"rotate", "reauth"} \subseteq inst.features)

Sources == {i \in Logins : i <= inst.logins} \cup {p \in {Boot} : "boot" \in inst.features}

FewSources ==
  /\ "logout" \notin inst.features
  /\ \A x, y, z \in Sources : x = y \/ y = z \/ x = z

OneSource == "boot" \notin inst.features /\ inst.logins <= 1

Undisturbed == Lone \/ NoClash \/ FewSources \/ OneSource

(* In the second case who is to replace a session has one to replace, and  *)
(* so has a rotation as long as nobody signs in again.                     *)
Replaces ==
  /\ NoClash => /\ \A p \in Procs : apc[p] \in Resets => cur # 0
                /\ lsess \in reauth /\ lpc[lsess] \in Going => cur # 0
  /\ "logout" \notin inst.features /\ reauth = {} /\ apc[Rotator] \in Resets => cur # 0

(* One source is over by the time a session has been up. In the third case *)
(* who signs in again is then the only one left.                           *)
Over(s) == IF s = Boot THEN boot = "done" \/ apc[Boot] = "ok" ELSE lpc[s] = "done" \/ apc[s] = "ok"

OneLeft ==
  /\ cur # 0 \/ apc[Rotator] # "idle" \/ reauth # {} => \E s \in Sources : Over(s)
  /\ FewSources /\ reauth # {} => \A s \in Sources : Over(s) \/ s \in reauth

(* What an actor in activate is. *)
LEMMA Active ==
  ASSUME Types, Numbered, Current, Placed, NEW p \in Procs, apc[p] # "idle"
  PROVE  \/ p = Rotator /\ "rotate" \in inst.features
         \/ p = Out /\ "logout" \in inst.features
         \/ p = Boot /\ Boot \in Sources /\ boot = "activating" /\ apc[p] \notin Resets
         \/ p \in Logins /\ p \in Sources /\ lsess = p /\ lpc[p] = "activate"
<1>1. CASE p \in Logins
  <2>1. lpc[p] = "activate" /\ lsess = p
    BY <1>1 DEF Placed, Current
  <2>2. p \in Started
    BY <1>1, <2>1 DEF Numbered
  <2>3. p \in 1..Cardinality(Started) /\ Cardinality(Started) <= inst.logins /\ Cardinality(Started) \in Nat
    BY <2>2, StartedFinite DEF Numbered
  <2>4. inst.logins \in Nat
    BY Consts DEF Types, EnvTyped
  <2> QED
    BY <1>1, <2>1, <2>3, <2>4 DEF Sources
<1>2. CASE p \in {Boot, Rotator, Out}
  BY <1>2 DEF Placed, Sources
<1> QED
  BY <1>1, <1>2, ProcsAre

(* Nobody resets, and no source of sessions is over.                       *)
LEMMA ReplacesInit == ASSUME Init PROVE Replaces /\ OneLeft
<1>1. cur = 0 /\ reauth = {} /\ apc = [p \in Procs |-> "idle"]
  BY DEF Init
<1> QED
  BY <1>1, Consts DEF Replaces, OneLeft, Resets

(* A step changes the session only in a reset, which leaves activate's     *)
(* first part, or in a publish.                                            *)
LEMMA SessionMoves ==
  ASSUME Types, Placed, [Next]_vars, cur' # cur
  PROVE  /\ UNCHANGED <<signins, boot>>
         /\ \E p \in Procs : \/ apc[p] = "reset" /\ cur' = 0 /\ (p # Out => apc' = [apc EXCEPT ![p] = "load"])
                             \/ apc[p] = "publish" /\ cur = 0 /\ apc' = [apc EXCEPT ![p] = "ok"]
<1>1. PICK p \in Procs : Activation(p)
  BY Outside
<1>2. Reset(p) \/ Publish(p)
  BY <1>1 DEF Activation, LockRebuild, ReadAndTeardown, Load, LoadNothing, Wire, BuildFails, session
<1> QED
  BY <1>2 DEF Reset, Publish, Go, Return, signins

(* A sign-in that is on its way over a live session was started over one.  *)
LEMMA GoingBegins ==
  ASSUME Types, Numbered, [Next]_vars, lsess' \in reauth', lpc'[lsess'] \in Going,
         ~(lsess \in reauth /\ lpc[lsess] \in Going)
  PROVE  cur # 0
<1> USE DEF Types, SignInsTyped
<1>1. CASE Start
  <2> DEFINE n == NextLogin
  <2>1. /\ n <= inst.logins /\ phase' = [phase EXCEPT ![n] = "logging_in"] /\ lsess' = n
        /\ reauth' = reauth \/ cur # 0
    BY <1>1 DEF Start
  <2>2. n \notin reauth
    BY <2>1, NextIsNew DEF Numbered
  <2> QED
    BY <2>1, <2>2
<1>2. CASE UNCHANGED <<lsess, reauth, lpc>>
  BY <1>2
<1>3. ASSUME NEW i \in Logins, LoginRun(i) PROVE FALSE
  BY <1>3 DEF LoginRun, WaitPrev, EnrollStep, EnrollFails, Gate, LoginResult, At, Fail, Going
<1>4. CASE LogoutWipe
  BY <1>4, Consts DEF LogoutWipe, Logins
<1>5. CASE vars' = vars \/ (Next /\ ~Start /\ ~LogoutWipe /\ \A i \in Logins : ~LoginRun(i))
  BY <1>2, <1>5 DEF Next, vars, Activation, LockRebuild, ReadAndTeardown, Reset, Load, LoadNothing, Wire, BuildFails,
     Publish, BootTry, BootResult, RotateTrigger, RotateResult, StateDirVanishes, StartLive, LogoutStart, LogoutStep,
     LogoutDeauth, LogoutDown, signins
<1> QED
  BY <1>1, <1>3, <1>4, <1>5

(* What a step can make of the points before a reset.                      *)
LEMMA ResetsEntered ==
  ASSUME Types, Placed, [Next]_vars, NEW p \in Procs, apc'[p] \in Resets
  PROVE  \/ apc[p] \in Resets
         \/ p = Rotator /\ cur \in running
         \/ p = Out /\ "logout" \in inst.features
         \/ p \in reauth /\ lsess = p /\ lpc[p] \in Going
<1> USE DEF Types, ActsTyped
<1>1. ASSUME NEW q \in Procs, Activation(q) PROVE apc[p] \in Resets
  <2>1. q = Out => apc[q] \in Resets \cup {"idle", "ok"}
    BY DEF Placed
  <2>2. PICK x \in APCs \ {"idle"} : Leads(q, x)
    BY <1>1, <2>1, ActivationGoes
  <2> QED
    BY <2>2 DEF Leads
<1>2. CASE \A q \in Procs : ~Activation(q)
  <2>1. Turn
    BY <1>2, Outside
  <2> QED
    BY <2>1 DEF Turn, Turns, Resets, Placed
<1> QED
  BY <1>1, <1>2

(* A rebuild is asked for over a session, and nothing else drops one.      *)
LEMMA ReplacesNext ==
  ASSUME Types, Numbered, Current, Placed, Replaces, [Next]_vars
  PROVE  Replaces'
<1> USE DEF Types, ActsTyped, BuildsTyped
<1>0. inst' = inst /\ (cur \in running => cur # 0)
  BY EnvKept DEF Builds
<1>1. ASSUME "logout" \notin inst.features, reauth' = {}, apc'[Rotator] \in Resets, cur' = 0 PROVE FALSE
  <2>1. reauth = {}
    BY <1>1, ReauthGrows
  <2>2. apc[Rotator] \in Resets \/ cur \in running
    BY <1>1, <2>1, Consts, ResetsEntered
  <2>3. cur # 0
    BY <1>0, <1>1, <2>1, <2>2 DEF Replaces
  <2>4. PICK p \in Procs : apc[p] = "reset" /\ (p # Out => apc' = [apc EXCEPT ![p] = "load"])
    BY <1>1, <2>3, SessionMoves
  <2>5. p = Rotator
    BY <1>1, <2>1, <2>4, Active DEF Resets, Placed
  <2> QED
    BY <1>1, <2>4, <2>5, Consts DEF Resets
<1>2. ASSUME NoClash, NEW p \in Procs, apc'[p] \in Resets, cur' = 0 PROVE FALSE
  <2>1. cur # 0
    BY <1>0, <1>2, ResetsEntered DEF Replaces, NoClash
  <2>2. PICK q \in Procs : apc[q] = "reset" /\ (q # Out => apc' = [apc EXCEPT ![q] = "load"])
    BY <1>2, <2>1, SessionMoves
  <2>3. q # Out /\ q # p
    <3>1. q # Out
      BY <1>2, <2>2 DEF Placed, NoClash
    <3> QED
      BY <1>2, <2>2, <3>1 DEF Resets
  <2>4. apc[p] \in Resets
    BY <1>2, <2>2, <2>3
  <2>5. (p = Rotator /\ "rotate" \in inst.features) \/ (p \in Logins /\ lsess = p /\ p \in reauth)
    BY <1>2, <2>4, Active DEF NoClash, Placed, Resets
  <2>6. (q = Rotator /\ "rotate" \in inst.features) \/ (q \in Logins /\ lsess = q /\ q \in reauth)
    BY <1>2, <2>2, Active DEF NoClash, Placed, Resets
  <2> QED
    BY <1>2, <2>3, <2>5, <2>6 DEF NoClash, Placed
<1>3. ASSUME NoClash, lsess' \in reauth', lpc'[lsess'] \in Going, cur' = 0 PROVE FALSE
  <2>1. cur # 0
    <3>1. CASE lsess \in reauth /\ lpc[lsess] \in Going
      BY <1>3, <3>1 DEF Replaces
    <3>2. CASE ~(lsess \in reauth /\ lpc[lsess] \in Going)
      BY <1>3, <3>2, GoingBegins
    <3> QED
      BY <3>1, <3>2
  <2>2. PICK q \in Procs : apc[q] = "reset" /\ (q # Out => apc' = [apc EXCEPT ![q] = "load"])
    BY <1>3, <2>1, SessionMoves
  <2>3. \/ q = Rotator /\ "rotate" \in inst.features
        \/ q \in Logins /\ lsess = q /\ lpc[q] = "activate" /\ q \in reauth
    <3>1. apc[q] # "idle" /\ apc[q] \in Resets /\ "logout" \notin inst.features
      BY <1>3, <2>2 DEF NoClash, Resets
    <3>2. q \in Logins => q \in reauth
      BY <3>1 DEF Placed
    <3> QED
      BY <3>1, <3>2, Active
  <2>4. lsess' = lsess /\ reauth' = reauth /\ lpc' = lpc
    BY <1>3, <2>1, SessionMoves DEF signins
  <2>5. "reauth" \in inst.features
    BY <1>3, <2>4 DEF Placed
  <2> QED
    BY <1>3, <2>3, <2>4, <2>5 DEF NoClash, Going
<1> QED
  BY <1>0, <1>1, <1>2, <1>3 DEF Replaces, NoClash

(* What is over stays over. *)
LEMMA OverStays ==
  ASSUME Types, Numbered, Placed, [Next]_vars, NEW s \in Sources, Over(s)
  PROVE  Over(s)'
<1> USE DEF Types, ActsTyped, SignInsTyped
<1>0. s \in Procs /\ (s # Boot => s \in Logins) /\ Boot \notin Logins /\ s # Rotator /\ s # Out
  BY Consts DEF Sources
<1>1. ASSUME NEW p \in Procs, Activation(p) PROVE Over(s)'
  <2>1. p = Out => apc[p] \in Resets \cup {"idle", "ok"}
    BY DEF Placed
  <2>2. apc[p] # "ok" /\ UNCHANGED <<boot, signins>>
    BY <1>1, <2>1, ActivationGoes
  <2>3. PICK x \in APCs \ {"idle"} : Leads(p, x)
    BY <1>1, <2>1, ActivationGoes
  <2> QED
    BY <1>0, <2>2, <2>3, Consts DEF Over, Leads, signins
<1>2. CASE BootTry \/ BootResult
  <2>1. boot = "check" => apc[Boot] = "idle"
    BY DEF Placed
  <2> QED
    BY <1>0, <1>2, <2>1, Consts DEF BootTry, BootResult, Go, Over, signins
<1>3. CASE RotateTrigger \/ RotateResult
  BY <1>0, <1>3, Consts DEF RotateTrigger, RotateResult, Go, Over, signins
<1>4. CASE Start
  <2> DEFINE n == NextLogin
  <2>1. /\ n <= inst.logins /\ phase' = [phase EXCEPT ![n] = "logging_in"] /\ lpc' = [lpc EXCEPT ![n] = "wait"]
        /\ UNCHANGED <<apc, boot>>
    BY <1>4 DEF Start, acts
  <2>2. n \in Logins /\ lpc[n] = "none" /\ apc[n] = "idle"
    BY <2>1, NextIsNew DEF Numbered, Placed
  <2> HIDE DEF n
  <2> QED
    BY <1>0, <2>1, <2>2 DEF Over
<1>5. ASSUME NEW i \in Logins, LoginRun(i) PROVE Over(s)'
  <2>1. CASE WaitPrev(i) \/ EnrollStep(i) \/ EnrollFails(i)
    BY <1>0, <2>1 DEF WaitPrev, EnrollStep, EnrollFails, Fail, At, Over, acts
  <2>2. CASE Gate(i)
    <3>1. apc[i] = "idle" /\ lpc[i] # "done"
      BY <2>2 DEF Gate, Placed
    <3> QED
      BY <1>0, <2>2, <3>1, Consts DEF Gate, Go, At, Over
  <2>3. CASE LoginResult(i)
    BY <1>0, <2>3, Consts DEF LoginResult, Fail, Go, At, Over
  <2> QED
    BY <1>5, <2>1, <2>2, <2>3 DEF LoginRun
<1>6. CASE LogoutDeauth \/ LogoutDown
  BY <1>0, <1>6, Consts DEF LogoutDeauth, LogoutDown, Go, Over, signins
<1>7. CASE StateDirVanishes \/ StartLive \/ LogoutStart \/ LogoutWipe \/ UNCHANGED vars
  BY <1>7 DEF StateDirVanishes, StartLive, LogoutStart, LogoutWipe, acts, signins, vars, Over
<1> QED
  BY <1>1, <1>2, <1>3, <1>4, <1>5, <1>6, <1>7 DEF Next, LogoutStep

(* Who signs in again signs in over a live session, and is not over.       *)
LEMMA StartsAgain ==
  ASSUME Types, Numbered, Placed, [Next]_vars, reauth' # reauth
  PROVE  \E n \in Sources : cur # 0 /\ ~Over(n) /\ n \notin reauth /\ reauth' = reauth \cup {n}
<1>1. Start
  BY DEF Next, vars, Activation, LockRebuild, ReadAndTeardown, Reset, Load, LoadNothing, Wire, BuildFails, Publish,
     BootTry, BootResult, RotateTrigger, RotateResult, StateDirVanishes, StartLive, LogoutStart, LoginRun, WaitPrev,
     EnrollStep, EnrollFails, Gate, LoginResult, LogoutStep, LogoutDeauth, LogoutDown, LogoutWipe, signins
<1> DEFINE n == NextLogin
<1>2. /\ n <= inst.logins /\ phase' = [phase EXCEPT ![n] = "logging_in"]
      /\ reauth' = reauth \/ (cur # 0 /\ reauth' = reauth \cup {n})
  BY <1>1 DEF Start
<1>3. n \in Logins /\ lpc[n] = "none" /\ apc[n] = "idle" /\ n \notin reauth
  BY <1>2, NextIsNew DEF Numbered, Placed
<1>4. n \in Sources /\ ~Over(n)
  BY <1>2, <1>3, Consts DEF Sources, Over
<1> QED
  BY <1>2, <1>3, <1>4

(* One source is over by the time a session has been up.                   *)
LEMMA OneLeftNext ==
  ASSUME Types, Numbered, Current, Placed, Replaces, OneLeft, [Next]_vars
  PROVE  OneLeft'
<1>0. inst' = inst
  BY EnvKept
<1>1. Sources' = Sources /\ (FewSources' => FewSources)
  BY <1>0 DEF Sources, FewSources
<1>2. ASSUME cur # 0 \/ apc[Rotator] # "idle" \/ reauth # {} PROVE \E s \in Sources : Over(s)'
  BY <1>1, <1>2, OverStays DEF OneLeft
<1>3. ASSUME cur' # 0 \/ apc'[Rotator] # "idle" \/ reauth' # {} PROVE \E s \in Sources : Over(s)'
  <2>1. CASE reauth' # reauth
    BY <1>2, <2>1, StartsAgain
  <2>2. CASE cur = 0 /\ cur' # 0
    <3>1. PICK p \in Procs : apc[p] = "publish" /\ apc' = [apc EXCEPT ![p] = "ok"]
      BY <2>2, SessionMoves
    <3>2. p = Rotator \/ p \in Sources
      BY <3>1, Active DEF Placed, Resets
    <3>3. p # Rotator => Over(p)'
      BY <3>1 DEF Over, Types, ActsTyped
    <3> QED
      BY <1>2, <3>1, <3>2, <3>3
  <2>3. CASE apc[Rotator] = "idle" /\ apc'[Rotator] # "idle"
    <3>1. ~Activation(Rotator)
      BY <2>3 DEF Activation, LockRebuild, ReadAndTeardown, Reset, Load, LoadNothing, Wire, BuildFails, Publish
    <3>2. ASSUME NEW p \in Procs \ {Rotator}, Activation(p) PROVE FALSE
      <4>1. p = Out => apc[p] \in Resets \cup {"idle", "ok"}
        BY DEF Placed
      <4>2. PICK x \in APCs \ {"idle"} : Leads(p, x)
        BY <3>2, <4>1, ActivationGoes
      <4> QED
        BY <2>3, <4>2, Consts DEF Leads, Types, ActsTyped
    <3>3. Turn
      BY <3>1, <3>2, Outside
    <3>4. cur \in running
      BY <2>3, <3>3, Consts DEF Turn, Turns, Types, ActsTyped, SignInsTyped
    <3>5. cur # 0
      BY <3>4 DEF Types, BuildsTyped, Builds
    <3> QED
      BY <1>2, <3>5
  <2> QED
    BY <1>2, <1>3, <2>1, <2>2, <2>3
<1>4. ASSUME FewSources', reauth' # {}, NEW s \in Sources, ~Over(s)' PROVE s \in reauth'
  <2>1. ~Over(s)
    BY <1>4, OverStays
  <2>2. CASE reauth' = reauth
    BY <1>1, <1>4, <2>1, <2>2 DEF OneLeft
  <2>3. CASE reauth' # reauth
    <3>1. PICK n \in Sources : cur # 0 /\ ~Over(n) /\ n \notin reauth /\ reauth' = reauth \cup {n}
      BY <2>3, StartsAgain
    <3>2. PICK o \in Sources : Over(o)
      BY <1>1, <3>1 DEF OneLeft
    <3>3. s = n
      BY <1>1, <1>4, <2>1, <3>1, <3>2 DEF FewSources
    <3> QED
      BY <3>1, <3>3
  <2> QED
    BY <2>2, <2>3
<1> QED
  BY <1>1, <1>3, <1>4 DEF OneLeft

-----------------------------------------------------------------------------
(* One session at a time. *)

(* Nobody publishes while another is about to reset. *)
LEMMA NoPublishMeanwhile ==
  ASSUME Types, Numbered, Current, Placed, Locked, Replaces, OneLeft, Undisturbed,
         NEW p \in Procs, NEW q \in Procs, apc[p] = "reset", apc[q] = "publish", cur = 0
  PROVE  FALSE
<1>1. CASE Lone
  BY <1>1, AloneIs
<1>2. CASE NoClash
  BY <1>2 DEF Replaces, Resets
<1>3. CASE FewSources
  <2>1. mu = p
    BY DEF Locked
  <2>2. ~Locker(q)
    BY <2>1 DEF Locked
  <2>3. q \in Sources /\ ~Over(q)
    BY <1>3, <2>2, Active, Consts DEF Locker, FewSources, Over
  <2>4. reauth = {}
    BY <1>3, <2>2, <2>3 DEF OneLeft, Locker
  <2>5. p = Rotator
    BY <1>3, <2>4, Active DEF FewSources, Placed, Resets
  <2> QED
    BY <1>3, <2>4, <2>5 DEF Replaces, Resets, FewSources
<1>4. CASE OneSource
  <2>1. mu = p
    BY DEF Locked
  <2>2. ~Locker(q)
    BY <2>1 DEF Locked
  <2>3. q \in Sources /\ q \in Logins /\ lsess = q /\ lpc[q] = "activate" /\ ~Over(q)
    BY <1>4, <2>2, Active, Consts DEF Locker, OneSource, Over, Placed, Resets, Sources
  <2>4. \A s \in Sources : s = q
    BY <1>4, <2>3, Consts DEF OneSource, Sources, Logins, Types, EnvTyped
  <2>5. apc[Rotator] = "idle"
    BY <2>3, <2>4 DEF OneLeft
  <2>6. InFlight /\ apc[Out] = "idle"
    BY <2>3 DEF Current, InFlight, Logins, Placed
  <2> QED
    BY <2>4, <2>5, <2>6, Active
<1> QED
  BY <1>1, <1>2, <1>3, <1>4 DEF Undisturbed

(* What a reset takes away was torn down, and what runs is the session or  *)
(* being built.                                                            *)
TornDown == \A p \in Procs : apc[p] = "reset" => cur \notin running

Building(b) == \E p \in Procs : apc[p] \in {"wire", "publish"} /\ abuild[p] = b

OneLive == Undisturbed => TornDown /\ \A b \in running : b = cur \/ Building(b)

(* A build leaves an actor's hands as the session or released.             *)
LEMMA OneLiveNext ==
  ASSUME Types, Numbered, Current, Placed, Fresh, Locked, Replaces, OneLeft, OneLive, [Next]_vars
  PROVE  OneLive'
<1> SUFFICES ASSUME Undisturbed' PROVE TornDown' /\ \A b \in running' : b = cur' \/ Building(b)'
  BY DEF OneLive
<1>0. inst' = inst
  BY EnvKept
<1>1. TornDown /\ (\A b \in running : b = cur \/ Building(b)) /\ Undisturbed
  BY <1>0 DEF OneLive, Undisturbed, Lone, NoClash, FewSources, OneSource, Sources
<1> USE DEF Types, ActsTyped, BuildsTyped
<1>2. 0 \notin running /\ nbuilds \in Nat
  BY Consts DEF Builds
<1>3. ASSUME NEW p \in Procs, Activation(p) PROVE TornDown' /\ \A b \in running' : b = cur' \/ Building(b)'
  <2>1. CASE LockRebuild(p)
    BY <1>1, <2>1 DEF LockRebuild, Go, TornDown, Building
  <2>2. CASE ReadAndTeardown(p)
    BY <1>1, <2>2 DEF ReadAndTeardown, Go, TornDown, Building
  <2>3. CASE Reset(p)
    BY <1>1, <1>2, <2>3 DEF Reset, Go, Return, TornDown, Building
  <2>4. CASE Load(p)
    <3>1. nbuilds' = nbuilds + 1 /\ running' = running \cup {nbuilds'} /\ cur' = cur
      BY <2>4 DEF Load
    <3>2. TornDown'
      BY <1>1, <1>2, <2>4, <3>1 DEF Load, Go, TornDown, Fresh
    <3>3. \A b \in running : b = cur' \/ Building(b)'
      BY <1>1, <2>4, <3>1 DEF Load, Go, Building
    <3>4. ASSUME NEW b \in running', b \notin running PROVE Building(b)'
      BY <2>4, <3>1, <3>4 DEF Load, Go, Building
    <3> QED
      BY <3>1, <3>2, <3>3, <3>4
  <2>5. CASE LoadNothing(p) \/ Wire(p)
    BY <1>1, <2>5 DEF LoadNothing, Wire, Go, Return, TornDown, Building, session, builds
  <2>6. CASE BuildFails(p)
    BY <1>1, <2>6 DEF BuildFails, Go, Return, TornDown, Building, builds
  <2>7. CASE Publish(p)
    <3>1. CASE cur # 0
      BY <1>1, <2>7, <3>1 DEF Publish, Go, Return, TornDown, Building
    <3>2. CASE cur = 0
      <4>1. apc[p] = "publish" /\ cur' = abuild[p] /\ apc' = [apc EXCEPT ![p] = "ok"] /\ UNCHANGED <<running, abuild>>
        BY <2>7, <3>2 DEF Publish, Go, Return
      <4>2. \A q \in Procs : apc[q] # "reset"
        BY <1>1, <3>2, <4>1, NoPublishMeanwhile
      <4>3. TornDown'
        BY <4>1, <4>2 DEF TornDown
      <4> QED
        BY <1>1, <1>2, <3>2, <4>1, <4>3 DEF Building
    <3> QED
      BY <3>1, <3>2
  <2> QED
    BY <1>3, <2>1, <2>2, <2>3, <2>4, <2>5, <2>6, <2>7 DEF Activation
<1>4. CASE \A p \in Procs : ~Activation(p)
  <2>1. UNCHANGED <<cur, running, abuild>> /\ Turn
    BY <1>4, Outside
  <2>2. TornDown'
    BY <1>1, <2>1 DEF Turn, Turns, TornDown
  <2>3. \A b \in running : Building(b) => Building(b)'
    BY <2>1 DEF Turn, Turns, Building
  <2> QED
    BY <1>1, <2>1, <2>2, <2>3
<1> QED
  BY <1>3, <1>4

-----------------------------------------------------------------------------
(* Sign-ins and sign-outs among themselves. *)

(* A session has its enrollment, the current sign-in what it wrote; past   *)
(* its reset a sign-out has no session.                                    *)
Enrolled ==
  OnlySignIns => /\ cur # 0 => identity # NoCred
                 /\ opc = "wipe" \/ apc[Out] = "ok" => cur = 0
                 /\ lpc[lsess] \in {"saveSecrets", "gate", "activate"} /\ lsess # 0 => identity # NoCred
                 /\ lpc[lsess] \in {"gate", "activate"} /\ lsess # 0 => secrets # NoCred

(* Then a sign-out or the current sign-in is all that is in activate.      *)
LEMMA Builder ==
  ASSUME Types, Numbered, Current, Placed, Lone, NEW p \in Procs, apc[p] # "idle"
  PROVE  \/ p = Out /\ apc[p] \in Resets \cup {"ok"} /\ opc = "deactivate"
         \/ /\ p \in Logins /\ p # Out /\ p # 0 /\ lsess = p /\ lpc[p] = "activate" /\ opc = "idle"
            /\ apc[Out] = "idle" /\ phase[p] = "activating"
<1>1. CASE p = Out
  BY <1>1 DEF Placed
<1>2. CASE p # Out
  <2>1. p \in Logins /\ lsess = p /\ lpc[p] = "activate"
    BY <1>2, Active DEF Lone, Placed
  <2>2. p # 0
    BY <2>1 DEF Logins
  <2>3. phase[p] = "activating" /\ opc = "idle"
    BY <2>1, <2>2 DEF Current, InFlight
  <2>4. apc[Out] = "idle"
    BY <2>3 DEF Placed
  <2> QED
    BY <1>2, <2>1, <2>2, <2>3, <2>4
<1> QED
  BY <1>1, <1>2

(* The wipe comes after the reset, and no sign-in is under way then.       *)
LEMMA EnrolledNext ==
  ASSUME Types, Numbered, Current, Placed, Enrolled, [Next]_vars
  PROVE  Enrolled'
<1> SUFFICES ASSUME OnlySignIns' PROVE Enrolled'
  BY DEF Enrolled
<1>0. inst' = inst /\ OnlySignIns /\ Lone /\ boot = "done" /\ apc[Boot] = "idle" /\ apc[Rotator] = "idle"
  BY EnvKept DEF OnlySignIns, Lone, Placed
<1>1. /\ cur # 0 => identity # NoCred
      /\ opc = "wipe" \/ apc[Out] = "ok" => cur = 0
      /\ lpc[lsess] \in {"saveSecrets", "gate", "activate"} /\ lsess # 0 => identity # NoCred
      /\ lpc[lsess] \in {"gate", "activate"} /\ lsess # 0 => secrets # NoCred
  BY <1>0 DEF Enrolled
<1>2. ASSUME UNCHANGED <<identity, secrets, lsess, lpc>>, cur' \in {cur, 0},
             opc' = "wipe" \/ apc'[Out] = "ok" => cur' = 0
      PROVE  Enrolled'
  BY <1>1, <1>2 DEF Enrolled
<1> USE DEF Types, ActsTyped, SignInsTyped
<1>3. ASSUME NEW p \in Procs, Activation(p) PROVE Enrolled'
  <2>1. UNCHANGED <<identity, secrets, lsess, lpc, opc>>
    BY <1>3 DEF Activation, LockRebuild, ReadAndTeardown, Reset, Load, LoadNothing, Wire, BuildFails, Publish, disk, signins
  <2>2. CASE Reset(p)
    BY <1>2, <2>1, <2>2 DEF Reset
  <2>3. CASE Publish(p)
    <3>1. apc[p] = "publish" /\ p \in Logins /\ lsess = p /\ lpc[p] = "activate" /\ opc = "idle" /\ p # 0 /\ p # Out
          /\ apc[Out] = "idle"
      BY <1>0, <2>3, Builder DEF Publish, Resets
    <3>2. identity' # NoCred /\ opc' # "wipe" /\ apc'[Out] = "idle" /\ secrets' # NoCred
      <4>1. identity # NoCred /\ secrets # NoCred
        BY <1>1, <3>1
      <4>2. \E x \in APCs : apc' = [apc EXCEPT ![p] = x]
        BY <2>3 DEF Publish, Go, Return, APCs
      <4>3. apc'[Out] = "idle"
        BY <3>1, <4>2, Consts
      <4> QED
        BY <2>1, <3>1, <4>1, <4>3
    <3> QED
      BY <3>2 DEF Enrolled
  <2>4. CASE ~Reset(p) /\ ~Publish(p)
    <3>1. cur' = cur /\ \E x \in APCs \ {"ok"} : apc' = [apc EXCEPT ![p] = x]
      BY <1>3, <2>4 DEF Activation, LockRebuild, ReadAndTeardown, Load, LoadNothing, Wire, BuildFails, Go, Return, session, APCs
    <3> QED
      BY <1>1, <1>2, <2>1, <3>1
  <2> QED
    BY <2>2, <2>3, <2>4
<1>4. CASE BootTry \/ BootResult \/ RotateTrigger \/ RotateResult \/ StateDirVanishes
  BY <1>0, <1>4 DEF BootTry, BootResult, RotateTrigger, RotateResult, StateDirVanishes, OnlySignIns
<1>5. CASE StartLive
  <2>1. identity' \in Creds /\ UNCHANGED <<secrets, cur, apc, opc, lsess, lpc>>
    BY <1>5, Consts DEF StartLive, FilesTyped, BuildsTyped, Builds, session, acts, signins
  <2> QED
    BY <1>1, <2>1, Consts DEF Enrolled
<1>6. CASE Start
  <2> DEFINE n == NextLogin
  <2>1. /\ n <= inst.logins /\ phase' = [phase EXCEPT ![n] = "logging_in"] /\ lpc' = [lpc EXCEPT ![n] = "wait"]
        /\ lsess' = n /\ UNCHANGED <<identity, secrets, cur, apc, opc>>
    BY <1>6 DEF Start, disk, session, acts
  <2>2. n \in Logins
    BY <2>1, NextIsNew
  <2> HIDE DEF n
  <2>3. lpc'[lsess'] = "wait"
    BY <2>1, <2>2
  <2> QED
    BY <1>1, <2>1, <2>3 DEF Enrolled
<1>7. ASSUME NEW i \in Logins, LoginRun(i) PROVE Enrolled'
  <2>0. i \in Creds /\ i # 0 /\ NoCred \notin Creds
    BY Consts DEF Logins
  <2>1. CASE EnrollStep(i)
    <3>1. UNCHANGED <<cur, apc, opc, lsess>>
      BY <2>1 DEF EnrollStep, session, acts
    <3>2. \/ lpc[i] = "enroll" /\ At(i, "saveIdentity") /\ UNCHANGED disk
          \/ lpc[i] = "saveIdentity" /\ At(i, "saveSecrets") /\ identity' = i /\ UNCHANGED secrets
          \/ lpc[i] = "saveSecrets" /\ At(i, "gate") /\ secrets' = i /\ UNCHANGED identity
      BY <2>1 DEF EnrollStep
    <3>3. (cur' # 0 => identity' # NoCred) /\ (opc' = "wipe" \/ apc'[Out] = "ok" => cur' = 0)
      BY <1>1, <2>0, <3>1, <3>2 DEF disk
    <3>4. ASSUME lpc'[lsess] \in {"saveSecrets", "gate", "activate"}, lsess # 0
          PROVE  identity' # NoCred /\ (lpc'[lsess] # "saveSecrets" => secrets' # NoCred)
      <4>1. lsess \in Logins
        BY <3>4 DEF Logins
      <4>2. CASE lsess = i
        BY <1>1, <2>0, <3>2, <3>4, <4>2 DEF disk, At
      <4>3. CASE lsess # i
        <5>1. lpc'[lsess] = lpc[lsess]
          BY <3>2, <4>1, <4>3 DEF At
        <5> QED
          BY <1>1, <2>0, <3>2, <3>4, <5>1 DEF disk
      <4> QED
        BY <4>2, <4>3
    <3> QED
      BY <3>1, <3>3, <3>4 DEF Enrolled
  <2>2. CASE WaitPrev(i) \/ EnrollFails(i)
    <3>1. UNCHANGED <<identity, secrets, cur, apc, opc, lsess>> /\ \E x \in {"enroll", "done"} : At(i, x)
      BY <2>2 DEF WaitPrev, EnrollFails, Fail, disk, session, acts
    <3> QED
      BY <1>1, <3>1 DEF Enrolled, At, Logins
  <2>3. CASE Gate(i) \/ LoginResult(i)
    <3>1. /\ UNCHANGED <<identity, secrets, cur, opc, lsess>> /\ lpc[i] \in {"gate", "activate"}
          /\ apc'[Out] = apc[Out] /\ \E x \in {"activate", "done"} : At(i, x)
      BY <2>3, Consts DEF Gate, LoginResult, Fail, Go, disk, session
    <3> QED
      BY <1>1, <3>1 DEF Enrolled, At, Logins
  <2> QED
    BY <1>7, <2>1, <2>2, <2>3 DEF LoginRun
<1>8. CASE LogoutStart \/ LogoutDeauth \/ LogoutDown
  <2>1. UNCHANGED <<identity, secrets, cur, lsess, lpc>>
    BY <1>8 DEF LogoutStart, LogoutDeauth, LogoutDown, disk, session, signins
  <2>2. opc' = "wipe" \/ apc'[Out] = "ok" => cur = 0
    BY <1>1, <1>8, Consts DEF LogoutStart, LogoutDeauth, LogoutDown, Go, acts
  <2> QED
    BY <1>2, <2>1, <2>2
<1>9. CASE LogoutWipe
  <2>1. opc = "wipe" /\ opc' = "idle" /\ UNCHANGED <<cur, apc, lpc>> /\ cur = 0
    BY <1>1, <1>9 DEF LogoutWipe, session, acts
  <2>2. \/ lsess' = 0
        \/ UNCHANGED <<identity, secrets, lsess>>
    BY <1>9 DEF LogoutWipe, disk
  <2> QED
    BY <1>1, <2>1, <2>2 DEF Enrolled
<1>10. CASE UNCHANGED vars
  BY <1>1, <1>2, <1>10 DEF vars, disk
<1> QED
  BY <1>3, <1>4, <1>5, <1>6, <1>7, <1>8, <1>9, <1>10 DEF Next, LogoutStep

(* Each sign-in builds at most once, so that the bound on builds is not    *)
(* what ends an activation where it leaves one to every sign-in.           *)
Unbuilt == lsess # 0 /\ (lpc[lsess] \in Going \/ apc[lsess] \in Resets \cup {"load"})

BuildsCounted ==
  Lone => /\ nbuilds <= Cardinality(Started)
          /\ Unbuilt => nbuilds < Cardinality(Started)

(* A build is taken from the share of the sign-in that makes it.           *)
LEMMA BuildsCountedNext ==
  ASSUME Types, Numbered, Current, Placed, BuildsCounted, [Next]_vars
  PROVE  BuildsCounted'
<1> SUFFICES ASSUME Lone' PROVE BuildsCounted'
  BY DEF BuildsCounted
<1> USE DEF Types, ActsTyped, SignInsTyped
<1>0. inst' = inst /\ Lone /\ boot = "done" /\ apc[Boot] = "idle" /\ apc[Rotator] = "idle"
  BY EnvKept DEF Lone, Placed
<1>1. /\ nbuilds <= Cardinality(Started) /\ (Unbuilt => nbuilds < Cardinality(Started))
      /\ nbuilds \in Nat /\ Cardinality(Started) \in Nat
  BY <1>0, StartedFinite, Consts DEF BuildsCounted, BuildsTyped
<1>2. ASSUME nbuilds' = nbuilds, Started' = Started, Unbuilt' => Unbuilt PROVE BuildsCounted'
  BY <1>1, <1>2 DEF BuildsCounted
<1>3. ASSUME NEW p \in Procs, Activation(p) PROVE BuildsCounted'
  <2>1. UNCHANGED <<lsess, lpc, phase>> /\ Started' = Started
    BY <1>3 DEF Activation, LockRebuild, ReadAndTeardown, Reset, Load, LoadNothing, Wire, BuildFails, Publish, signins, Started
  <2>2. CASE Load(p)
    <3>1. /\ apc[p] = "load" /\ nbuilds' = nbuilds + 1 /\ apc' = [apc EXCEPT ![p] = "wire"]
      BY <2>2 DEF Load, Go
    <3>2. lsess = p /\ p # 0 /\ lpc[p] = "activate"
      BY <1>0, <3>1, Builder DEF Resets
    <3>3. Unbuilt /\ ~Unbuilt'
      BY <2>1, <3>1, <3>2 DEF Unbuilt, Going, Resets
    <3> QED
      BY <1>1, <2>1, <3>1, <3>3 DEF BuildsCounted
  <2>3. CASE ~Load(p)
    <3>1. nbuilds' = nbuilds
      BY <1>3, <2>3 DEF Activation, LockRebuild, ReadAndTeardown, Reset, LoadNothing, Wire, BuildFails, Publish, builds
    <3>2. \E x \in APCs : apc' = [apc EXCEPT ![p] = x] /\ (x \in Resets \cup {"load"} => apc[p] \in Resets)
      BY <1>3, <2>3 DEF Activation, LockRebuild, ReadAndTeardown, Reset, LoadNothing, Wire, BuildFails, Publish,
         Go, Return, APCs, Resets
    <3>3. lsess # 0 => lsess \in Procs
      BY Consts DEF Logins
    <3>4. Unbuilt' => Unbuilt
      BY <2>1, <3>2, <3>3 DEF Unbuilt
    <3> QED
      BY <1>2, <2>1, <3>1, <3>4
  <2> QED
    BY <2>2, <2>3
<1>4. CASE Start
  <2> DEFINE n == NextLogin
  <2>1. n <= inst.logins /\ phase' = [phase EXCEPT ![n] = "logging_in"] /\ nbuilds' = nbuilds
    BY <1>4 DEF Start, builds
  <2>2. Cardinality(Started') = Cardinality(Started) + 1
    BY <2>1, NextIsNew DEF NextLogin
  <2> QED
    BY <1>1, <2>1, <2>2 DEF BuildsCounted
<1>5. CASE BootTry \/ BootResult \/ RotateTrigger \/ RotateResult
  BY <1>0, <1>5 DEF BootTry, BootResult, RotateTrigger, RotateResult, Lone
<1>6. CASE StateDirVanishes \/ StartLive \/ LogoutStart \/ LogoutWipe \/ UNCHANGED vars
  <2>1. nbuilds' = nbuilds /\ Started' = Started /\ UNCHANGED <<lpc, apc>> /\ lsess' \in {lsess, 0}
    BY <1>6 DEF StateDirVanishes, StartLive, LogoutStart, LogoutWipe, vars, builds, acts, signins, Started
  <2> QED
    BY <1>2, <2>1 DEF Unbuilt
<1>7. CASE LogoutDeauth \/ LogoutDown
  <2>1. nbuilds' = nbuilds /\ Started' = Started /\ UNCHANGED <<lpc, lsess>> /\ \E x \in APCs : apc' = [apc EXCEPT ![Out] = x]
    BY <1>7 DEF LogoutDeauth, LogoutDown, builds, signins, Started, Go, APCs
  <2>2. lsess # 0 => lsess \in Procs /\ lsess # Out
    BY Consts DEF Logins
  <2> QED
    BY <1>2, <2>1, <2>2 DEF Unbuilt
<1>8. ASSUME NEW i \in Logins, LoginRun(i) PROVE BuildsCounted'
  <2>1. nbuilds' = nbuilds /\ lsess' = lsess
    BY <1>8 DEF LoginRun, WaitPrev, EnrollStep, EnrollFails, Gate, LoginResult, builds
  <2>2. Started' = Started
    <3>1. i \in Started
      BY <1>8 DEF LoginRun, WaitPrev, EnrollStep, EnrollFails, Gate, LoginResult, Numbered
    <3>2. phase' = phase \/ \E f \in Phases \ {"none"} : phase' = [phase EXCEPT ![i] = f]
      BY <1>8 DEF LoginRun, WaitPrev, EnrollStep, EnrollFails, Gate, LoginResult, Fail, Phases
    <3> QED
      BY <3>1, <3>2 DEF Started
  <2>3. Unbuilt' => Unbuilt
    <3>0. lsess # 0 => lsess \in Logins /\ lsess \in Procs
      BY Consts DEF Logins
    <3>1. CASE WaitPrev(i) \/ EnrollStep(i) \/ EnrollFails(i)
      BY <2>1, <3>0, <3>1 DEF WaitPrev, EnrollStep, EnrollFails, Fail, At, acts, Unbuilt, Going
    <3>2. CASE Gate(i)
      BY <2>1, <3>0, <3>2 DEF Gate, At, Go, Unbuilt, Going
    <3>3. CASE LoginResult(i)
      BY <2>1, <3>0, <3>3 DEF LoginResult, Fail, At, Go, Unbuilt, Going, Resets
    <3> QED
      BY <1>8, <3>1, <3>2, <3>3 DEF LoginRun
  <2> QED
    BY <1>2, <2>1, <2>2, <2>3
<1> QED
  BY <1>3, <1>4, <1>5, <1>6, <1>7, <1>8 DEF Next, LogoutStep

-----------------------------------------------------------------------------
(* The Claude listener, while nothing fails and there are only sign-ins    *)
(* and sign-outs: outside a build it dispatches into the session; a        *)
(* sign-out has taken its handler away before it touches the session; a    *)
(* build begins with no session, and only the build's handler is in place  *)
(* when it is published; a sign-in that is to build over no session has    *)
(* none when it comes to it.                                               *)
Unhindered == fails = 0 /\ OnlySignIns /\ inst.logins <= inst.builds

Quiet == {"idle", "ok", "err", "lock", "read"}

Serving ==
  /\ (\A p \in Procs : apc[p] \in Quiet) => proxy \in {0, cur}
  /\ apc[Out] \in {"read", "reset"} => proxy = 0
  /\ \A i \in Logins : /\ apc[i] = "publish" => proxy = abuild[i]
                       /\ apc[i] \in {"load", "wire", "publish"} => cur = 0
  /\ lsess # 0 /\ lsess \notin reauth /\ lpc[lsess] \in Going => cur = 0

Listens == Unhindered => Serving

(* A failure is never taken back.                                          *)
LEMMA FailsGrow == ASSUME Types, [Next]_vars PROVE fails' \in {fails, fails + 1}
  BY DEF Next, vars, env, Fails, Activation, LockRebuild, ReadAndTeardown, Reset, Load, LoadNothing, Wire, BuildFails, Publish,
     BootTry, BootResult, RotateTrigger, RotateResult, StateDirVanishes, StartLive, Start, LogoutStart, LoginRun, WaitPrev,
     EnrollStep, EnrollFails, Gate, LoginResult, LogoutStep, LogoutDeauth, LogoutDown, LogoutWipe

(* Each step of a build moves the handler as Listens says.                 *)
LEMMA ListensNext ==
  ASSUME Types, Numbered, Current, Placed, Enrolled, BuildsCounted, Listens, [Next]_vars
  PROVE  Listens'
<1> SUFFICES ASSUME Unhindered' PROVE Serving'
  BY DEF Listens
<1> USE DEF Types, ActsTyped
<1>0. /\ fails = 0 /\ OnlySignIns /\ inst.logins <= inst.builds /\ Lone
      /\ boot = "done" /\ apc[Boot] = "idle" /\ apc[Rotator] = "idle" /\ Serving
  <2>1. inst' = inst /\ fails \in Nat /\ fails' \in {fails, fails + 1} /\ fails' = 0
    BY EnvKept, FailsGrow, Consts DEF EnvTyped, Unhindered
  <2> QED
    BY <2>1 DEF Unhindered, OnlySignIns, Lone, Placed, Listens
<1>1. ASSUME NEW p \in Procs, Activation(p) PROVE Serving'
  <2>1. /\ UNCHANGED <<lsess, lpc, reauth, opc>>
        /\ apc[p] # "idle" /\ \A q \in Procs : q # p => apc[q] = "idle" /\ apc'[q] = "idle"
    <3>1. apc[p] # "idle" /\ UNCHANGED <<signins, opc>> /\ \E x \in APCs : apc' = [apc EXCEPT ![p] = x]
      BY <1>1, ActivationGoes DEF Placed, Leads
    <3>2. \A q \in Procs : q # p => apc[q] = "idle"
      BY <1>0, <3>1, AloneIs
    <3> QED
      BY <3>1, <3>2 DEF signins
  <2>2. CASE p = Out
    <3>1. LockRebuild(p) \/ ReadAndTeardown(p) \/ Reset(p)
      BY <1>1, <2>2 DEF Activation, Load, LoadNothing, Wire, BuildFails, Publish, Placed, Resets
    <3>2. proxy' = 0 /\ cur' \in {cur, 0}
      BY <1>0, <2>2, <3>1 DEF LockRebuild, ReadAndTeardown, Reset, Serving
    <3>3. \A i \in Logins : apc'[i] = "idle"
      BY <2>1, <2>2, Consts
    <3> QED
      BY <1>0, <2>1, <3>2, <3>3 DEF Serving
  <2>3. CASE p # Out
    <3>1. p \in Logins /\ lsess = p /\ lpc[p] = "activate" /\ apc'[Out] = "idle" /\ p # 0
      BY <1>0, <2>1, <2>3, Builder, Consts DEF Resets
    <3>2. ASSUME apc'[p] \in Quiet => proxy' \in {0, cur'},
                 apc'[p] = "publish" => proxy' = abuild'[p],
                 apc'[p] \in {"load", "wire", "publish"} => cur' = 0
          PROVE  Serving'
      BY <2>1, <3>1, <3>2, Consts DEF Serving, Going
    <3>3. CASE LockRebuild(p)
      <4>1. apc[p] = "lock" /\ UNCHANGED <<proxy, cur>> /\ apc'[p] = "read"
        BY <2>3, <3>3 DEF LockRebuild, Go
      <4>2. proxy \in {0, cur}
        BY <1>0, <2>1, <4>1 DEF Serving, Quiet
      <4> QED
        BY <3>2, <4>1, <4>2
    <3>4. CASE ReadAndTeardown(p)
      BY <3>2, <3>4 DEF ReadAndTeardown, Go, Quiet
    <3>5. CASE Reset(p)
      BY <2>3, <3>2, <3>5 DEF Reset, Go, Quiet
    <3>6. CASE Load(p)
      BY <1>0, <3>1, <3>2, <3>6 DEF Load, Go, Serving, Quiet
    <3>7. ~LoadNothing(p)
      <4> SUFFICES ASSUME apc[p] = "load" PROVE NoCred \notin {identity, secrets} /\ nbuilds # inst.builds
        BY DEF LoadNothing
      <4>1. identity # NoCred /\ secrets # NoCred
        BY <1>0, <3>1 DEF Enrolled
      <4>2. nbuilds < Cardinality(Started) /\ Cardinality(Started) <= inst.logins
        BY <1>0, <3>1 DEF BuildsCounted, Unbuilt, Numbered
      <4>3. nbuilds \in Nat /\ Cardinality(Started) \in Nat /\ inst.logins \in Nat /\ inst.builds \in Nat
        BY Consts, StartedFinite DEF BuildsTyped, EnvTyped
      <4> QED
        BY <1>0, <4>1, <4>2, <4>3
    <3>8. CASE Wire(p)
      BY <1>0, <3>1, <3>2, <3>8 DEF Wire, Go, Serving, Quiet, acts
    <3>9. ~BuildFails(p)
      BY <1>0 DEF BuildFails, Fails, Unhindered
    <3>10. CASE Publish(p)
      <4>1. cur = 0 /\ proxy = abuild[p]
        BY <1>0, <3>1, <3>10 DEF Publish, Serving
      <4>2. cur' = abuild[p] /\ proxy' = proxy /\ apc'[p] = "ok"
        BY <3>10, <4>1 DEF Publish, Return, Go
      <4> QED
        BY <3>2, <4>1, <4>2
    <3> QED
      BY <1>1, <3>3, <3>4, <3>5, <3>6, <3>7, <3>8, <3>9, <3>10 DEF Activation
  <2> QED
    BY <2>2, <2>3
<1>2. CASE \A p \in Procs : ~Activation(p)
  <2>1. UNCHANGED <<cur, proxy, abuild>> /\ Turn
    BY <1>2, Outside
  <2>2. /\ (\A p \in Procs : apc'[p] \in Quiet) => \A p \in Procs : apc[p] \in Quiet
        /\ apc'[Out] \in {"read", "reset"} => apc[Out] \in {"read", "reset"}
        /\ \A i \in Logins : apc'[i] \in {"wire", "publish"} => apc'[i] = apc[i]
    BY <2>1, Consts DEF Turn, Turns, Quiet
  <2>3. ASSUME \A i \in Logins : apc'[i] = "load" => apc[i] = "load" \/ cur = 0,
               lsess' # 0 /\ lsess' \notin reauth' /\ lpc'[lsess'] \in Going => cur = 0
        PROVE  Serving'
    BY <1>0, <2>1, <2>2, <2>3 DEF Serving
  <2>4. CASE Start
    <3> DEFINE n == NextLogin
    <3>1. /\ n <= inst.logins /\ phase' = [phase EXCEPT ![n] = "logging_in"] /\ lsess' = n /\ apc' = apc
          /\ cur # 0 => n \in reauth'
      BY <2>4 DEF Start, acts
    <3> QED
      BY <2>3, <3>1
  <2>5. ASSUME NEW i \in Logins, Gate(i) PROVE Serving'
    <3>1. lsess' = lsess /\ reauth' = reauth /\ lpc[i] = "gate" /\ i # 0
      BY <2>5 DEF Gate, Logins
    <3>2. lsess # i => apc' = apc /\ At(i, "done")
      BY <2>5 DEF Gate
    <3>3. lsess = i => At(i, "activate") /\ Go(i, IF i \in reauth THEN "lock" ELSE "load")
      BY <2>5 DEF Gate
    <3>4. lsess # 0 /\ lpc'[lsess] \in Going => lpc[lsess] \in Going
      <4>1. \E x \in {"done", "activate"} : At(i, x)
        BY <3>2, <3>3
      <4> QED
        BY <4>1 DEF At, Going, SignInsTyped, Logins
    <3>5. \A j \in Logins : apc'[j] = "load" => apc[j] = "load" \/ (j = lsess /\ j = i /\ i \notin reauth)
      BY <3>2, <3>3, Consts DEF Go
    <3>6. lsess = i /\ i \notin reauth => cur = 0
      BY <1>0, <3>1 DEF Serving, Going
    <3> QED
      BY <1>0, <2>3, <3>1, <3>4, <3>5, <3>6 DEF Serving
  <2>6. ASSUME NEW i \in Logins, WaitPrev(i) \/ EnrollStep(i) \/ EnrollFails(i) \/ LoginResult(i) PROVE Serving'
    <3>1. lsess' = lsess /\ reauth' = reauth /\ (apc' = apc \/ Go(i, "idle"))
      BY <2>6 DEF WaitPrev, EnrollStep, EnrollFails, LoginResult, acts
    <3>4. \A j \in Logins : apc'[j] = "load" => apc[j] = "load"
      BY <3>1, Consts DEF Go
    <3>2. \E x \in LPCs : At(i, x) /\ (x = "done" \/ lpc[i] \in Going)
      BY <2>6 DEF WaitPrev, EnrollStep, EnrollFails, LoginResult, Fail, LPCs, Going
    <3>3. lsess # 0 /\ lpc'[lsess] \in Going => lpc[lsess] \in Going
      BY <3>2 DEF At, Going, SignInsTyped, Logins
    <3> QED
      BY <1>0, <2>3, <3>1, <3>3, <3>4 DEF Serving
  <2>7. CASE LogoutStart \/ LogoutStep \/ StateDirVanishes \/ StartLive \/ UNCHANGED vars
    <3>1. UNCHANGED <<lpc, reauth>> /\ lsess' \in {lsess, 0} /\ (\A j \in Logins : apc'[j] = "load" => apc[j] = "load")
      BY <2>7, Consts DEF LogoutStart, LogoutStep, LogoutDeauth, LogoutDown, LogoutWipe, StateDirVanishes, StartLive, vars,
         acts, signins, Go
    <3> QED
      BY <1>0, <2>3, <3>1 DEF Serving
  <2>8. ~BootTry /\ ~BootResult /\ ~RotateTrigger /\ ~RotateResult
    BY <1>0 DEF BootTry, BootResult, RotateTrigger, RotateResult, Lone
  <2> QED
    BY <1>2, <2>4, <2>5, <2>6, <2>7, <2>8 DEF Next, LoginRun
<1> QED
  BY <1>1, <1>2

-----------------------------------------------------------------------------
(* Whose credentials a sign-in activates on. A replacement waits for the   *)
(* one it replaces (login.go:385), so that at most the one it waits for    *)
(* may still be writing beside it: unless that one is itself waiting, and  *)
(* gives up the wait for being cancelled.                                  *)
NoQueue == \A i \in cancelled : prev[i] # 0 /\ lpc[prev[i]] # "done" => lpc[i] # "wait"

Handover ==
  \A i \in Started : \/ i = lsess \/ lpc[i] = "done"
                     \/ lsess # 0 /\ prev[lsess] = i /\ lpc[lsess] = "wait"

(* Past the last write the tokens on disk are the current sign-in's, if    *)
(* they are there at all, and so are those its build has loaded.           *)
Own ==
  /\ lsess # 0 /\ lpc[lsess] \in {"gate", "activate"} => secrets \in {lsess, NoCred}
  /\ \A i \in Logins : /\ lpc[i] \notin {"activate", "done"} => abuild[i] = 0
                       /\ lpc[i] = "activate" /\ abuild[i] # 0 => credOf[abuild[i]] = i

(* A third sign-in is the first that can find one waiting.                 *)
Ordered == \A i \in Logins : prev[i] < i /\ (i \in cancelled => i < Cardinality(Started))

(* Only Start makes a sign-in, or marks one.                               *)
LEMMA OnlyStart ==
  ASSUME Types, Numbered, [Next]_vars, ~Start
  PROVE  UNCHANGED <<prev, cancelled, Started>>
<1>1. prev' = prev /\ cancelled' = cancelled
  BY DEF Next, vars, Activation, LockRebuild, ReadAndTeardown, Reset, Load, LoadNothing, Wire, BuildFails, Publish,
     BootTry, BootResult, RotateTrigger, RotateResult, StateDirVanishes, StartLive, LogoutStart, LoginRun, WaitPrev,
     EnrollStep, EnrollFails, Gate, LoginResult, LogoutStep, LogoutDeauth, LogoutDown, LogoutWipe, signins
<1>2. CASE phase' = phase
  BY <1>1, <1>2 DEF Started
<1>3. ASSUME NEW i \in Logins, EnrollFails(i) \/ Gate(i) \/ LoginResult(i) PROVE Started' = Started
  <2>1. i \in Started
    BY <1>3 DEF EnrollFails, Gate, LoginResult, Numbered
  <2>2. phase' = phase \/ \E f \in Phases \ {"none"} : phase' = [phase EXCEPT ![i] = f]
    BY <1>3 DEF EnrollFails, Gate, LoginResult, Fail, Phases
  <2> QED
    BY <2>1, <2>2 DEF Started, Types, SignInsTyped
<1>4. phase' = phase \/ \E i \in Logins : EnrollFails(i) \/ Gate(i) \/ LoginResult(i)
  BY DEF Next, vars, Activation, LockRebuild, ReadAndTeardown, Reset, Load, LoadNothing, Wire, BuildFails, Publish,
     BootTry, BootResult, RotateTrigger, RotateResult, StateDirVanishes, StartLive, LogoutStart, LoginRun, WaitPrev,
     EnrollStep, LogoutStep, LogoutDeauth, LogoutDown, LogoutWipe, signins
<1> QED
  BY <1>1, <1>2, <1>3, <1>4

(* Who is cancelled is older than the newest, as is who is waited for.     *)
LEMMA OrderedNext == ASSUME Types, Numbered, Ordered, [Next]_vars PROVE Ordered'
<1> USE DEF Types, SignInsTyped
<1>1. CASE Start
  <2> DEFINE n == NextLogin
  <2>1. /\ n <= inst.logins /\ phase' = [phase EXCEPT ![n] = "logging_in"]
        /\ \E q \in {0, lsess} : prev' = [prev EXCEPT ![n] = q]
        /\ cancelled' = cancelled \/ (lsess # 0 /\ cancelled' = cancelled \cup {lsess})
    BY <1>1 DEF Start, InFlight
  <2>2. n \in Logins /\ n \notin Started /\ Cardinality(Started') = n /\ n = Cardinality(Started) + 1
    BY <2>1, NextIsNew DEF NextLogin
  <2> HIDE DEF n
  <2>3. lsess = 0 \/ lsess <= Cardinality(Started)
    BY StartedFinite DEF Numbered
  <2>4. Cardinality(Started) \in Nat /\ lsess \in Nat /\ Logins \subseteq Nat \ {0}
    BY StartedFinite, Consts DEF Logins
  <2>5. ASSUME NEW i \in Logins PROVE prev'[i] < i
    BY <2>1, <2>2, <2>3, <2>4, <2>5 DEF Ordered
  <2>6. ASSUME NEW i \in cancelled' PROVE i < Cardinality(Started')
    <3>1. i \in cancelled \/ (i = lsess /\ lsess # 0)
      BY <2>1, <2>6
    <3>2. i \in cancelled => i \in Nat /\ i < Cardinality(Started)
      BY <2>4 DEF Ordered
    <3>3. i < n
      BY <2>2, <2>3, <2>4, <3>1, <3>2
    <3> QED
      BY <2>2, <3>3
  <2> QED
    BY <2>5, <2>6 DEF Ordered
<1>2. CASE ~Start
  BY <1>2, OnlyStart DEF Ordered
<1> QED
  BY <1>1, <1>2

(* Two sign-ins are not enough for one to be replaced while it waits.      *)
LEMMA TwoNeverQueue == ASSUME Types, Numbered, Ordered, inst.logins <= 2 PROVE NoQueue
<1> SUFFICES ASSUME NEW i \in cancelled, prev[i] # 0 PROVE FALSE
  BY DEF NoQueue
<1>1. i \in Logins /\ prev[i] \in Nat /\ Cardinality(Started) \in Nat /\ inst.logins \in Nat
  BY StartedFinite, Consts DEF Types, SignInsTyped, EnvTyped
<1> QED
  BY <1>1, Consts DEF Ordered, Numbered, Logins

(* A replacement takes over the wait for the one before it.                *)
LEMMA HandoverNext ==
  ASSUME Types, Numbered, Current, Handover, [Next]_vars, NoQueue'
  PROVE  Handover'
<1> USE DEF Types, SignInsTyped
<1>1. CASE Start
  <2> DEFINE n == NextLogin
  <2>1. /\ n <= inst.logins /\ phase' = [phase EXCEPT ![n] = "logging_in"] /\ lpc' = [lpc EXCEPT ![n] = "wait"]
        /\ lsess' = n /\ prev' = [prev EXCEPT ![n] = IF InFlight THEN lsess ELSE 0]
        /\ InFlight => cancelled' = cancelled \cup {lsess}
    BY <1>1 DEF Start
  <2>2. n \in Logins /\ n \notin Started /\ Started' = Started \cup {n} /\ n # 0 /\ Started \subseteq Logins
    BY <2>1, NextIsNew, StartedFinite DEF Logins
  <2> HIDE DEF n
  <2> SUFFICES ASSUME NEW i \in Started, lpc[i] # "done" PROVE i = lsess /\ InFlight
    BY <2>1, <2>2 DEF Handover
  <2>3. lsess # 0 /\ lsess \in Started
    BY <2>2 DEF Handover, Numbered, Logins
  <2>4. lpc[lsess] # "done" => InFlight
    BY <2>2, <2>3 DEF Current, InFlight, Numbered, Going, LPCs
  <2>5. CASE i # lsess
    <3>1. prev[lsess] = i /\ lpc[lsess] = "wait" /\ lsess # n /\ i # n
      BY <2>2, <2>3, <2>5 DEF Handover
    <3>2. lsess \in cancelled' /\ prev'[lsess] = i /\ lpc'[i] # "done" /\ lpc'[lsess] = "wait" /\ i # 0
      BY <2>1, <2>2, <2>3, <2>4, <3>1 DEF Logins
    <3> QED
      BY <3>2 DEF NoQueue
  <2> QED
    BY <2>4, <2>5
<1>2. CASE ~Start
  <2>1. prev' = prev /\ Started' = Started /\ Started \subseteq Logins /\ 0 \notin Logins
    BY <1>2, OnlyStart, StartedFinite DEF Logins
  <2>2. CASE UNCHANGED <<lsess, lpc>>
    BY <2>1, <2>2 DEF Handover
  <2>3. CASE LogoutWipe
    <3>1. opc = "wipe" /\ lpc' = lpc /\ lsess' \in {lsess, 0}
      BY <2>3 DEF LogoutWipe
    <3>2. lsess # 0 => lpc[lsess] = "done"
      BY <2>1, <3>1 DEF Current, InFlight, Numbered, Going, LPCs
    <3> QED
      BY <2>1, <3>1, <3>2 DEF Handover
  <2>4. ASSUME NEW i \in Logins, LoginRun(i) PROVE Handover'
    <3>1. /\ lsess' = lsess /\ lpc[i] # "done" /\ i \in Started
          /\ \E x \in LPCs : At(i, x)
          /\ lpc[i] = "wait" => i \in cancelled \/ (prev[i] # 0 => lpc[prev[i]] = "done")
      BY <2>4 DEF LoginRun, WaitPrev, EnrollStep, EnrollFails, Gate, LoginResult, Fail, LPCs, Numbered
    <3>2. \A j \in Logins : j # i => lpc'[j] = lpc[j]
      BY <3>1 DEF At
    <3>3. ASSUME NEW j \in Started, j # lsess, lpc'[j] # "done"
          PROVE  lsess # 0 /\ prev[lsess] = j /\ lpc'[lsess] = "wait"
      <4>1. lpc[j] # "done" /\ lsess # 0 /\ lsess \in Logins
        BY <2>1, <3>1, <3>2, <3>3 DEF Handover, Numbered
      <4>2. prev[lsess] = j /\ lpc[lsess] = "wait"
        BY <3>3, <4>1 DEF Handover
      <4>3. lsess # i
        BY <2>1, <3>1, <4>1, <4>2 DEF Current
      <4> QED
        BY <3>2, <4>1, <4>2, <4>3
    <3> QED
      BY <2>1, <3>1, <3>3 DEF Handover
  <2>5. ASSUME NEW p \in Procs, Activation(p) PROVE UNCHANGED <<lsess, lpc>>
    BY <2>5 DEF Activation, LockRebuild, ReadAndTeardown, Reset, Load, LoadNothing, Wire, BuildFails, Publish, signins
  <2> QED
    BY <1>2, <2>2, <2>3, <2>4, <2>5 DEF Next, vars, signins, BootTry, BootResult, RotateTrigger, RotateResult, StateDirVanishes,
       StartLive, LogoutStart, LogoutStep, LogoutDeauth, LogoutDown
<1> QED
  BY <1>1, <1>2

(* Nobody writes the tokens beside a sign-in past its last write.          *)
LEMMA OwnNext ==
  ASSUME Types, Numbered, Current, Placed, Fresh, Handover, Own, [Next]_vars
  PROVE  Own'
<1> USE DEF Types, SignInsTyped
<1>0. 0 \notin Logins /\ NoCred \notin Creds /\ Logins \subseteq Creds /\ Logins \subseteq Procs
  BY Consts DEF Logins
<1>1. ASSUME NEW p \in Procs, Activation(p) PROVE Own'
  <2>1. UNCHANGED <<secrets, lsess, lpc>> /\ apc[p] # "idle"
    BY <1>1, ActivationGoes DEF Activation, LockRebuild, ReadAndTeardown, Reset, Load, LoadNothing, Wire, BuildFails, Publish,
       signins, disk, Placed
  <2>2. CASE Load(p)
    <3>1. /\ nbuilds' = nbuilds + 1 /\ nbuilds' \in Builds /\ secrets # NoCred
          /\ credOf' = [credOf EXCEPT ![nbuilds'] = secrets] /\ abuild' = [abuild EXCEPT ![p] = nbuilds']
      BY <2>2, Consts DEF Load, BuildsTyped, EnvTyped, Builds
    <3>2. credOf'[nbuilds'] = secrets /\ \A b \in Builds : b # nbuilds' => credOf'[b] = credOf[b]
      BY <3>1 DEF FilesTyped
    <3>3. ASSUME NEW i \in Logins PROVE (lpc[i] \notin {"activate", "done"} => abuild'[i] = 0)
                                     /\ (lpc[i] = "activate" /\ abuild'[i] # 0 => credOf'[abuild'[i]] = i)
      <4>1. CASE i = p
        <5>1. lpc[i] = "activate" /\ abuild'[i] = nbuilds' /\ lsess = i /\ i # 0
          BY <1>0, <2>1, <3>1, <4>1 DEF Placed, Current, BuildsTyped
        <5> QED
          BY <3>1, <3>2, <5>1 DEF Own
      <4>2. CASE i # p
        <5>1. abuild'[i] = abuild[i]
          BY <3>1, <4>2 DEF BuildsTyped
        <5>2. abuild[i] # 0 => abuild[i] \in Builds /\ abuild[i] # nbuilds'
          BY <1>0, <3>1, Consts DEF Fresh, BuildsTyped, Builds
        <5> QED
          BY <3>2, <5>1, <5>2 DEF Own
      <4> QED
        BY <4>1, <4>2
    <3> QED
      BY <2>1, <3>3 DEF Own
  <2>3. CASE ~Load(p)
    <3>1. credOf' = credOf /\ (abuild' = abuild \/ abuild' = [abuild EXCEPT ![p] = 0])
      BY <1>1, <2>3 DEF Activation, LockRebuild, ReadAndTeardown, Reset, LoadNothing, Wire, BuildFails, Publish, builds
    <3> QED
      BY <1>0, <2>1, <3>1 DEF Own, BuildsTyped
  <2> QED
    BY <2>2, <2>3
<1>2. CASE Start
  <2> DEFINE n == NextLogin
  <2>1. /\ n <= inst.logins /\ phase' = [phase EXCEPT ![n] = "logging_in"] /\ lpc' = [lpc EXCEPT ![n] = "wait"]
        /\ lsess' = n /\ UNCHANGED <<abuild, credOf>>
    BY <1>2 DEF Start, builds, acts
  <2>2. n \in Logins /\ n \notin Started /\ lpc[n] = "none"
    BY <2>1, NextIsNew DEF Numbered
  <2> HIDE DEF n
  <2> QED
    BY <2>1, <2>2 DEF Own
<1>3. ASSUME NEW i \in Logins, LoginRun(i) PROVE Own'
  <2>1. UNCHANGED <<abuild, credOf, lsess>> /\ lpc[i] # "done" /\ i \in Started
    BY <1>3 DEF LoginRun, WaitPrev, EnrollStep, EnrollFails, Gate, LoginResult, builds, acts, Numbered
  <2>2. \E x \in LPCs : /\ At(i, x)
                        /\ x # "done" => lpc[i] # "activate"
                        /\ x = "activate" => lpc[i] = "gate" /\ secrets' = secrets
                        /\ x = "gate" => secrets' = i
    BY <1>3 DEF LoginRun, WaitPrev, EnrollStep, EnrollFails, Gate, LoginResult, Fail, At, LPCs, disk
  <2>3. ASSUME NEW j \in Logins PROVE (lpc'[j] \notin {"activate", "done"} => abuild[j] = 0)
                                   /\ (lpc'[j] = "activate" /\ abuild[j] # 0 => credOf[abuild[j]] = j)
    BY <2>1, <2>2 DEF Own, At
  <2>4. ASSUME lsess # 0, lpc'[lsess] \in {"gate", "activate"} PROVE secrets' \in {lsess, NoCred}
    <3>1. lsess \in Logins
      BY <2>4 DEF Numbered, Started
    <3>2. CASE lsess = i
      BY <2>2, <2>4, <3>2 DEF Own, At
    <3>3. CASE lsess # i
      <4>1. lpc'[lsess] = lpc[lsess] /\ lpc[lsess] # "wait"
        BY <2>2, <2>4, <3>1, <3>3 DEF At
      <4> QED
        BY <2>1, <3>3, <4>1 DEF Handover
    <3> QED
      BY <3>2, <3>3
  <2> QED
    BY <2>1, <2>3, <2>4 DEF Own
<1>4. CASE \/ BootTry \/ BootResult \/ RotateTrigger \/ RotateResult \/ StateDirVanishes \/ StartLive
          \/ LogoutStart \/ LogoutStep \/ UNCHANGED vars
  <2>1. UNCHANGED <<abuild, credOf, lpc>> /\ lsess' \in {lsess, 0} /\ secrets' \in {secrets, NoCred}
    BY <1>4 DEF BootTry, BootResult, RotateTrigger, RotateResult, StateDirVanishes, StartLive, LogoutStart, LogoutStep,
       LogoutDeauth, LogoutDown, LogoutWipe, vars, builds, acts, signins, disk
  <2> QED
    BY <2>1 DEF Own
<1> QED
  BY <1>1, <1>2, <1>3, <1>4 DEF Next

-----------------------------------------------------------------------------
(* All of it together. *)
IInv ==
  /\ Types /\ Numbered /\ Current /\ Placed /\ Fresh
  /\ Locked /\ Replaces /\ OneLeft /\ OneLive
  /\ Enrolled /\ BuildsCounted /\ Listens /\ Ordered

(* The invariant of the initial states.                                    *)
LEMMA InitIInv == ASSUME Init PROVE IInv
<1>1. Locked /\ OneLive
  BY DEF Init, Locked, OneLive, TornDown
<1>2. Numbered /\ Placed
  BY OrderInit, PlacedInit
<1>3. Enrolled
  BY Consts DEF Init, Enrolled
<1>4. BuildsCounted
  <2>1. nbuilds = 0 /\ lsess = 0
    BY DEF Init
  <2> QED
    BY <2>1, StartedFinite DEF BuildsCounted, Unbuilt
<1>5. Listens
  <2>1. proxy = 0 /\ lsess = 0 /\ \A p \in Procs : apc[p] = "idle"
    BY DEF Init
  <2> QED
    BY <2>1, Consts DEF Listens, Serving
<1>6. Ordered
  BY DEF Init, Ordered, Logins
<1> QED
  BY <1>1, <1>2, <1>3, <1>4, <1>5, <1>6, InitTypes, OrderInit, FreshInit, ReplacesInit DEF IInv

(* The invariant is kept by every step.                                    *)
LEMMA StepIInv == ASSUME IInv, [Next]_vars PROVE IInv'
<1>1. Types' /\ Numbered' /\ Current' /\ Placed' /\ Fresh' /\ Locked' /\ Replaces'
  BY TypesKept, OrderNext, PlacedNext, FreshNext, LockedNext, ReplacesNext DEF IInv
<1>2. OneLeft' /\ OneLive'
  BY OneLeftNext, OneLiveNext DEF IInv
<1>3. Enrolled' /\ BuildsCounted' /\ Listens' /\ Ordered'
  BY EnrolledNext, BuildsCountedNext, ListensNext, OrderedNext DEF IInv
<1> QED
  BY <1>1, <1>2, <1>3 DEF IInv

(* The invariant of the specification.                                     *)
LEMMA Invariant == Spec => []IInv
  BY InitIInv, StepIInv, PTL DEF Spec

(* OnlyCurrentActivates: a sign-in that was replaced is not started,       *)
(* however far its enrolment got before the cancel was noticed             *)
(* (login.go:454), for any number of sign-ins, sign-outs and rotations.    *)
THEOREM OnlyCurrentAlways == Spec => []OnlyCurrentActivates
<1>1. IInv => OnlyCurrentActivates
  BY DEF IInv, Current, OnlyCurrentActivates
<1> QED
  BY <1>1, Invariant, PTL

(* OneLiveSession: exactly one session is live at a time (session.go:28),  *)
(* wherever nobody comes between a teardown and the reset after it. Where  *)
(* somebody does, what it publishes in between is dropped running.         *)
THEOREM OneLiveAlways == Spec => [](Undisturbed => OneLiveSession)
<1>1. IInv => (Undisturbed => OneLiveSession)
  <2> SUFFICES ASSUME IInv, Undisturbed PROVE OneLiveSession
    OBVIOUS
  <2>1. TypeOK
    BY DEF IInv, Types, FilesTyped, BuildsTyped, ActsTyped, SignInsTyped, EnvTyped, TypeOK, Phases
  <2>2. \A b \in running \ InBuild : b = cur
    BY DEF IInv, OneLive, Building, InBuild
  <2> QED
    BY <2>1, <2>2 DEF OneLiveSession
<1> QED
  BY <1>1, Invariant, PTL

(* SignedOutOfSignIns: among sign-ins and sign-outs, however many, nothing *)
(* brings a session up over an enrollment that a sign-out has removed      *)
(* (logout.go:53).                                                         *)
THEOREM SignedOutAlways == Spec => []SignedOutOfSignIns
<1>1. IInv => SignedOutOfSignIns
  BY DEF IInv, Enrolled, SignedOutOfSignIns, SignedOutStaysOut
<1> QED
  BY <1>1, Invariant, PTL

(* ListenerServesLive: the Claude listener dispatches into the live        *)
(* session and no other (proxy.go:49), however sign-ins, replacements and  *)
(* sign-outs follow each other, where the bound on builds leaves one to    *)
(* every sign-in.                                                          *)
THEOREM ListenerAlways == Spec => [](inst.logins <= inst.builds => ListenerServesLive)
<1>1. IInv => (inst.logins <= inst.builds => ListenerServesLive)
  BY DEF IInv, Listens, Unhindered, Serving, Quiet, ListenerServesLive
<1> QED
  BY <1>1, Invariant, PTL

(* No sign-in has started.                                                 *)
LEMMA CredentialsInit == ASSUME Init PROVE Handover /\ Own
  BY Consts DEF Init, Handover, Own, Started

(* SignInUsesItsCredentials: what a sign-in publishes was built from what  *)
(* it enrolled itself (login.go:385-387), as long as none is replaced      *)
(* while it still waits for another; with two sign-ins none can be. With   *)
(* three it is false: the third does not wait for the first.               *)
THEOREM CredentialsAlways == Spec /\ []NoQueue => []SignInUsesItsCredentials
<1>1. IInv /\ Handover /\ Own /\ [Next]_vars /\ NoQueue' => (Handover /\ Own)'
  BY HandoverNext, OwnNext DEF IInv
<1>2. Own => SignInUsesItsCredentials
  BY DEF Own, SignInUsesItsCredentials
<1> QED
  BY <1>1, <1>2, CredentialsInit, Invariant, PTL DEF Spec

(* The same of any two sign-ins, with no further hypothesis.               *)
THEOREM CredentialsOfTwo == Spec => [](inst.logins <= 2 => SignInUsesItsCredentials)
<1> DEFINE Two == inst.logins <= 2 => Handover /\ Own
<1>1. Init => Two
  BY CredentialsInit
<1>2. IInv /\ Two /\ [Next]_vars /\ (inst.logins <= 2 => NoQueue)' => Two'
  <2> SUFFICES ASSUME IInv, Two, [Next]_vars, (inst.logins <= 2 => NoQueue)', inst'.logins <= 2
               PROVE  Handover' /\ Own'
    OBVIOUS
  <2>1. inst' = inst
    BY EnvKept DEF IInv
  <2> QED
    BY <2>1, HandoverNext, OwnNext DEF IInv
<1>3. Two => (inst.logins <= 2 => SignInUsesItsCredentials)
  BY DEF Own, SignInUsesItsCredentials
<1>4. IInv => (inst.logins <= 2 => NoQueue)
  BY TwoNeverQueue DEF IInv
<1> HIDE DEF Two
<1> QED
  BY <1>1, <1>2, <1>3, <1>4, Invariant, PTL DEF Spec
=============================================================================
