---------------------------- MODULE PathSelect ----------------------------
(***************************************************************************)
(* Direct or relay: the reconciler (cmd/waired-agent/reconcile.go), the    *)
(* single owner of the WireGuard engine's peer set. Three goroutines call  *)
(* it: the map loop (Apply), the disco event loop (OnDiscoEvent) and the   *)
(* fallback ticker (Tick). Each changes the path states under r.mu, lets   *)
(* go of it, and then recomputes: takes a snapshot of the states under     *)
(* r.mu, and hands the peer set made of it to the engine outside r.mu.     *)
(*                                                                         *)
(* Time is in units no longer than MinDwell and FallbackAfter; an age      *)
(* stops at the threshold it is compared with. An event carries a date,    *)
(* its At, and is handled up to MaxLag later: it is dated when the sweep   *)
(* or the probing pass that emits it begins, and then waits in a channel,  *)
(* perhaps behind a POST. Zero is the age of the zero time.Time.           *)
(* Round trips are kept as the band the ratio of the two averages is in; a *)
(* sample may move it anywhere. The ring of pongs is kept as its trailing  *)
(* run of pongs. A peer has a published direct endpoint, one observed      *)
(* address, and, if it is in Relayed, a home relay. Left out: ForceRelay,  *)
(* call_me_maybe, and an engine that refuses a peer set.                   *)
(***************************************************************************)
EXTENDS Naturals, FiniteSets

CONSTANTS Peers,
          Relayed,           \* the peers with a home relay
          DowngradeMisses, UpgradePongStreak, MinRTTSamples,
          MinDwell, FallbackAfter,
          MaxLag             \* bound: the age of an event that is handled

ASSUME PathAssumption ==
  /\ IsFiniteSet(Peers) /\ Relayed \subseteq Peers
  /\ DowngradeMisses \in Nat \ {0} /\ UpgradePongStreak \in Nat \ {0}
  /\ MinRTTSamples \in Nat \ {0}
  /\ MinDwell \in Nat \ {0} /\ FallbackAfter \in Nat \ {0} /\ MaxLag \in Nat

Undated == MaxLag + 1               \* the age of an event whose At is zero
Zero    == MinDwell + MaxLag + 1
Bands   == {"fast", "between", "slow"}  \* direct against relay: < 1.5x, up to 2x, above
Loops   == {"map", "disco", "tick"}
Endpoints == {"none", "relay", "observed", "published"}

VARIABLES
  nm,       \* r.nm: the peers of the current map
  state,    \* r.state: the path state of each
  probed,   \* the peers the disco service has been given
  engine,   \* the endpoint the engine uses for each peer
  moved,    \* the engine shows a handshake newer than Tick has seen
  pc,       \* where each goroutine is
  snap,     \* the peer set a goroutine is about to hand to the engine
  blocked,  \* the peers whose direct path is dead for good
  since     \* history: time since the last change of the peer's path, and
            \* what the event that made it had been under way

vars == <<nm, state, probed, engine, moved, pc, snap, blocked, since>>

PathStates ==
  [path : {"direct", "relay"}, switched : 0..Zero, streak : 0..DowngradeMisses,
   pongs : 0..UpgradePongStreak, direct : 0..MinRTTSamples, relay : 0..MinRTTSamples,
   band : Bands, hinted : BOOLEAN, evidence : 0..FallbackAfter,
   eval : 0..FallbackAfter, seen : BOOLEAN]

PeerSets == [Peers -> Endpoints]
Nobody   == [p \in Peers |-> "none"]

TypeOK ==
  /\ nm \subseteq Peers /\ probed \subseteq Peers /\ blocked \subseteq Peers
  /\ DOMAIN state \subseteq Peers /\ \A p \in DOMAIN state : state[p] \in PathStates
  /\ engine \in PeerSets /\ moved \in [Peers -> BOOLEAN]
  /\ pc \in [Loops -> {"idle", "recompute", "push"}]
  /\ snap \in [Loops -> PeerSets]
  /\ since \in [Peers -> 0..MinDwell]

Init ==
  /\ nm = {} /\ state = [p \in {} |-> 0] /\ probed = {} /\ blocked = {}
  /\ engine = Nobody /\ moved = [p \in Peers |-> FALSE]
  /\ pc = [g \in Loops |-> "idle"] /\ snap = [g \in Loops |-> Nobody]
  /\ since = [p \in Peers |-> MinDwell]

AtMost(n, cap) == IF n > cap THEN cap ELSE n

-----------------------------------------------------------------------------
(* evaluateSwitchLocked, upon an event of the given age: a switch is dated *)
(* as the event that makes it is. An event without a time (At is zero) is  *)
(* as far before any switch as can be, and a switch it makes is not dated. *)

Dwelling(s, age) ==
  s.switched # Zero /\ (age = Undated \/ s.switched < MinDwell + age)

Enough(s) == s.direct >= MinRTTSamples /\ s.relay >= MinRTTSamples

Downgrade(s) ==
  /\ s.path = "direct"
  /\ s.streak >= DowngradeMisses \/ (Enough(s) /\ s.band = "slow")

Upgrade(s) ==
  s.path = "relay" /\ Enough(s) /\ s.pongs >= UpgradePongStreak /\ s.band = "fast"

Date(age) == IF age = Undated THEN Zero ELSE age

EvaluateSwitch(s, age) ==
  IF Dwelling(s, age) THEN s
  ELSE IF Downgrade(s) THEN [s EXCEPT !.path = "relay", !.switched = Date(age)]
  ELSE IF Upgrade(s)
  THEN [s EXCEPT !.path = "direct", !.switched = Date(age), !.streak = 0,
                 !.evidence = IF age = Undated THEN FallbackAfter
                              ELSE AtMost(age, FallbackAfter)]
  ELSE s

-----------------------------------------------------------------------------
(* OnDiscoEvent *)

(* A peer without a state that an event may give one. *)
NewForEvent ==
  [path |-> "direct", switched |-> Zero, streak |-> 0, pongs |-> 0, direct |-> 0,
   relay |-> 0, band |-> "between", hinted |-> FALSE, evidence |-> FallbackAfter,
   eval |-> 0, seen |-> FALSE]

Current(p) == IF p \in DOMAIN state THEN state[p] ELSE NewForEvent

(* Mutant: an event about a peer that has left brings its state back. *)
HeardAnyway(p) == p \in probed

(* pathStateForEventLocked: the peer has a state, or the map names it. *)
Heard(p) == p \in probed /\ (p \in DOMAIN state \/ p \in nm)

(* The path states become those with s for p; recompute if need be. *)
Store(p, s, need, age) ==
  /\ state' = [q \in DOMAIN state \cup {p} |-> IF q = p THEN s ELSE state[q]]
  /\ since' = [since EXCEPT ![p] =
       IF s.path # Current(p).path THEN AtMost(age, MinDwell) ELSE @]
  /\ pc' = [pc EXCEPT !["disco"] = IF need THEN "recompute" ELSE "idle"]
  /\ UNCHANGED <<nm, probed, engine, moved, snap, blocked>>

(* An event that leaves s, to be evaluated. *)
Handle(p, s, age) ==
  LET t == EvaluateSwitch(s, age) IN Store(p, t, t.path # s.path, age)

(* handlePongFromPeer: the first pong shows the direct address. *)
PongFromPeer(p) ==
  /\ pc["disco"] = "idle" /\ Heard(p) /\ p \notin blocked
  /\ Store(p, [Current(p) EXCEPT !.hinted = TRUE], ~Current(p).hinted, 0)

Sampled(s, b) == [s EXCEPT !.band = IF Enough(s) THEN b ELSE @]

(* handleRTTSample, of a probe over the relay and of a direct one. *)
RelaySample(p, b, age) ==
  /\ pc["disco"] = "idle" /\ Heard(p) /\ p \in Relayed
  /\ LET s == [Current(p) EXCEPT !.relay = AtMost(@ + 1, MinRTTSamples)]
     IN Handle(p, Sampled(s, b), age)

DirectSample(p, b, age) ==
  /\ pc["disco"] = "idle" /\ Heard(p) /\ p \notin blocked
  /\ LET s == [Current(p) EXCEPT !.direct = AtMost(@ + 1, MinRTTSamples),
                               !.evidence = AtMost(age, FallbackAfter)]
     IN Handle(p, Sampled(s, b), age)

(* handleProbeMissed only evaluates. *)
ProbeMissed(p, age) ==
  /\ pc["disco"] = "idle" /\ Heard(p)
  /\ Handle(p, Current(p), age)

(* appendPongRing, and the miss streak. *)
PongRing(s, ok) ==
  [s EXCEPT !.pongs = IF ok THEN AtMost(@ + 1, UpgradePongStreak) ELSE 0,
            !.streak = IF ok THEN 0 ELSE AtMost(@ + 1, DowngradeMisses)]

(* handleRoundFinalized. Only a round that is complete when its sends end  *)
(* is dated, with the beginning of the pass (finalizeRoundExpected);       *)
(* recordRoundResultLocked leaves At out (disco/prober.go:217).            *)
RoundFinalized(p, ok, age) ==
  /\ pc["disco"] = "idle" /\ Heard(p) /\ (ok => p \notin blocked)
  /\ Handle(p, PongRing(Current(p), ok), age)

OnDiscoEvent ==
  \E p \in Peers :
    \/ PongFromPeer(p)
    \/ \E age \in 0..MaxLag :
         \/ ProbeMissed(p, age)
         \/ \E b \in Bands : RelaySample(p, b, age) \/ DirectSample(p, b, age)
    \/ \E ok \in BOOLEAN, age \in 0..Undated : RoundFinalized(p, ok, age)

-----------------------------------------------------------------------------
(* Apply: peers that stay keep their state, the others lose or get one. *)
Apply ==
  /\ pc["map"] = "idle"
  /\ nm' \in SUBSET Peers
  /\ state' = [p \in nm' |->
       IF p \in DOMAIN state THEN state[p] ELSE [NewForEvent EXCEPT !.evidence = 0]]
  /\ since' = [p \in Peers |-> IF p \in DOMAIN state THEN since[p] ELSE MinDwell]
  /\ probed' = probed \cup nm'
  /\ pc' = [pc EXCEPT !["map"] = "recompute"]
  /\ UNCHANGED <<engine, moved, snap, blocked>>

(* The engine's last handshake is after lastSeenHandshakeAt. A peer that   *)
(* has had none shows the epoch, which is after the zero time.             *)
Progress(p) == engine[p] # "none" /\ (moved[p] \/ ~state[p].seen)

(* Tick finds no sign of life of a direct path that has had its chance. *)
Silent(p) ==
  /\ state[p].path = "direct" /\ p \in Relayed
  /\ state[p].eval = FallbackAfter /\ state[p].evidence = FallbackAfter
  /\ ~Dwelling(state[p], 0)

(* Mutant: the safety net does not date its switch. *)
FallbackUndated(p) == [state[p] EXCEPT !.path = "relay", !.eval = 0]

Fallback(p) == [state[p] EXCEPT !.path = "relay", !.switched = 0, !.eval = 0]

(* Mutant: Tick forgets which handshake it has seen. *)
TickForgets ==
  LET fall == {p \in nm : Silent(p) /\ ~Progress(p)} IN
  /\ pc["tick"] = "idle"
  /\ state' = [p \in DOMAIN state |-> IF p \in fall THEN Fallback(p) ELSE state[p]]
  /\ since' = [p \in Peers |-> IF p \in fall THEN 0 ELSE since[p]]
  /\ pc' = [pc EXCEPT !["tick"] = IF fall # {} THEN "recompute" ELSE "idle"]
  /\ UNCHANGED <<nm, probed, engine, moved, snap, blocked>>

(* Tick: a peer that has made progress is looked at again, one that has    *)
(* not falls back to the relay.                                            *)
Tick ==
  LET live == {p \in nm : Silent(p) /\ Progress(p)}
      fall == {p \in nm : Silent(p) /\ ~Progress(p)}
  IN
  /\ pc["tick"] = "idle"
  /\ state' = [p \in DOMAIN state |->
       IF p \in live THEN [state[p] EXCEPT !.seen = TRUE]
       ELSE IF p \in fall THEN Fallback(p) ELSE state[p]]
  /\ moved' = [p \in Peers |-> moved[p] /\ p \notin live]
  /\ since' = [p \in Peers |-> IF p \in fall THEN 0 ELSE since[p]]
  /\ pc' = [pc EXCEPT !["tick"] = IF fall # {} THEN "recompute" ELSE "idle"]
  /\ UNCHANGED <<nm, probed, engine, snap, blocked>>

-----------------------------------------------------------------------------
(* recompute *)

(* pickEndpointWithHint *)
PickEndpoint(p) ==
  IF p \notin nm THEN "none"
  ELSE IF Current(p).path = "relay" /\ p \in Relayed THEN "relay"
  ELSE IF Current(p).path = "direct" /\ Current(p).hinted THEN "observed"
  ELSE "published"

Wanted == [p \in Peers |-> PickEndpoint(p)]

Recompute(g) ==
  /\ pc[g] = "recompute"
  /\ snap' = [snap EXCEPT ![g] = Wanted]
  /\ pc' = [pc EXCEPT ![g] = "push"]
  /\ UNCHANGED <<nm, state, probed, engine, moved, blocked, since>>

(* Engine.UpdatePeers: a set that differs replaces every peer, and a new   *)
(* peer has had no handshake; the set the engine has is left in place.     *)
Push(g) ==
  /\ pc[g] = "push"
  /\ engine' = snap[g]
  /\ moved' = [p \in Peers |-> moved[p] /\ snap[g] = engine]
  /\ snap' = [snap EXCEPT ![g] = Nobody]
  /\ pc' = [pc EXCEPT ![g] = "idle"]
  /\ UNCHANGED <<nm, state, probed, blocked, since>>

-----------------------------------------------------------------------------
(* The network and the clock *)

Handshake(p) ==
  /\ engine[p] = "relay" \/ (engine[p] # "none" /\ p \notin blocked)
  /\ moved' = [moved EXCEPT ![p] = TRUE]
  /\ UNCHANGED <<nm, state, probed, engine, pc, snap, blocked, since>>

Block(p) ==
  /\ blocked' = blocked \cup {p}
  /\ UNCHANGED <<nm, state, probed, engine, moved, pc, snap, since>>

Older(s) ==
  [s EXCEPT !.switched = IF @ < MinDwell + MaxLag THEN @ + 1 ELSE @,
            !.evidence = AtMost(@ + 1, FallbackAfter),
            !.eval = AtMost(@ + 1, FallbackAfter)]

Clock ==
  /\ state' = [p \in DOMAIN state |-> Older(state[p])]
  /\ since' = [p \in Peers |-> AtMost(since[p] + 1, MinDwell)]
  /\ UNCHANGED <<nm, probed, engine, moved, pc, snap, blocked>>

Next ==
  \/ OnDiscoEvent \/ Apply \/ Tick \/ Clock
  \/ \E g \in Loops : Recompute(g) \/ Push(g)
  \/ \E p \in Peers : Handshake(p) \/ Block(p)

Spec == Init /\ [][Next]_vars

(* The ticker ticks, time passes, and a goroutine gets through recompute;  *)
(* no event, handshake or map has to come.                                 *)
FairSpec ==
  /\ Spec /\ WF_vars(Tick) /\ WF_vars(Clock)
  /\ \A g \in Loops : WF_vars(Recompute(g)) /\ WF_vars(Push(g))

-----------------------------------------------------------------------------
(* Properties *)

(* The path states are exactly those of the map's peers, although probes   *)
(* sent to a peer before it left are reported after (reconcile.go:233).    *)
StatesMatchMap == DOMAIN state = nm

Switches(p) ==
  p \in DOMAIN state /\ p \in DOMAIN state' /\ state'[p].path # state[p].path

(* Whoever made the last switch, the ratio evaluator or the safety net, and *)
(* whoever wants the next: after a dated one it waits (reconcile.go:559).   *)
(* What is kept is MinDwell from the date of the event that made the last   *)
(* one, so the peer itself stays for MinDwell less the time that event had  *)
(* been under way. The date of the event that wants the next one, early as  *)
(* it may be, never shortens it.                                           *)
DatedSwitchesWait ==
  [][\A p \in Peers :
       Switches(p) /\ state[p].switched # Zero => since[p] = MinDwell]_vars

OnRelay(p) == engine[p] = "relay" \/ (p \in DOMAIN state /\ state[p].path = "relay")

(* A dead direct path does not keep its peer: the state or the engine ends *)
(* up on its relay, whatever handshakes and pongs came before and however  *)
(* silent the disco service falls (the deadlock at reconcile.go:290).      *)
DeadPathLeft ==
  \A p \in Relayed : (p \in blocked) ~> (p \notin nm \/ OnRelay(p))
=============================================================================
