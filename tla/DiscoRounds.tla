---------------------------- MODULE DiscoRounds ----------------------------
(***************************************************************************)
(* The probe rounds of the disco subsystem (internal/network/disco).       *)
(* Three goroutines share the service's state under s.mu: the prober walks *)
(* the peers and sends one probe per direct candidate (prober.go), the     *)
(* inbound dispatcher matches pongs (inbound.go), and the sweeper ages     *)
(* probes into misses and drops rounds left open (inbound.go, gc); the map *)
(* loop replaces the peers. A round's probes are reported to the           *)
(* reconciler as one event, the verdict.                                   *)
(*                                                                         *)
(* Time is counted in units of ProbeReprobeActive; ages stop at Late, the  *)
(* first that is older than twice that. Two passes of the prober are one   *)
(* unit apart, so the half-interval skip of probeAllPeers is never taken:  *)
(* lastProbeAt is left out, and with it the empty entry that writing it    *)
(* back (or the live hints) leaves for a peer gone meanwhile, to which     *)
(* nothing is sent and nothing matched. Probes over the relay belong to    *)
(* no round: sending one only takes time here.                             *)
(* A nonce is a probe's own; an unknown nonce changes nothing and has no   *)
(* action. Inbound frames, STUN and call_me_maybe are other components'.   *)
(***************************************************************************)
EXTENDS Naturals, FiniteSets

CONSTANTS Peers,
          NoPeer,
          MaxTargets, \* most direct candidates and live hints of a peer
          MaxRounds,  \* bound: rounds probed
          MaxPass     \* bound: units one pass of the prober may take

ASSUME DiscoAssumption ==
  /\ NoPeer \notin Peers /\ IsFiniteSet(Peers)
  /\ MaxTargets \in Nat /\ MaxRounds \in Nat /\ MaxPass \in Nat

Rounds  == 1..MaxRounds
Targets == 1..MaxTargets
Late    == 3
Ages    == 0..Late

VARIABLES
  peers,    \* s.peers
  pending,  \* s.pendingProbes: one record per direct probe in flight
  rounds,   \* s.directRounds; no entry is a record with open = FALSE
  verdict,  \* the EventProbeRoundFinalized sent for a round
  counter,  \* s.roundIDCounter
  stage,    \* where probeAllPeers is
  todo,     \* the peers of the pass's snapshot still to probe
  at,       \* the peer being probed
  left,     \* its direct targets still to probe
  sent,     \* directSent
  passAge,  \* age of the pass's `now`
  slept     \* the prober has slept since its last pass

vars == <<peers, pending, rounds, verdict, counter, stage, todo, at, left, sent,
          passAge, slept>>
pass == <<stage, todo, at, left, sent, passAge, slept>>

Probes == [peer : Peers, round : Rounds, target : Targets, age : Ages]
Entries == [open : BOOLEAN, fin : BOOLEAN, expected : 0..MaxTargets,
            succeeded : 0..MaxTargets, missed : 0..MaxTargets, age : Ages]
NoEntry == [open |-> FALSE, fin |-> FALSE, expected |-> 0, succeeded |-> 0,
            missed |-> 0, age |-> 0]

TypeOK ==
  /\ peers \subseteq Peers
  /\ pending \subseteq Probes
  /\ rounds \in [Rounds -> Entries]
  /\ verdict \in [Rounds -> {"none", "success", "failure"}]
  /\ counter \in 0..MaxRounds
  /\ stage \in {"idle", "pick", "direct", "finalize"}
  /\ todo \subseteq Peers /\ at \in Peers \cup {NoPeer}
  /\ left \in 0..MaxTargets /\ sent \in 0..MaxTargets
  /\ passAge \in 0..MaxPass /\ slept \in BOOLEAN

Init ==
  /\ peers = {} /\ pending = {}
  /\ rounds = [r \in Rounds |-> NoEntry] /\ verdict = [r \in Rounds |-> "none"]
  /\ counter = 0 /\ stage = "idle" /\ todo = {} /\ at = NoPeer
  /\ left = 0 /\ sent = 0 /\ passAge = 0 /\ slept = TRUE

-----------------------------------------------------------------------------
(* Round bookkeeping *)

Open(e) == IF e.open THEN e ELSE [NoEntry EXCEPT !.open = TRUE]
Recorded(e, ok, missed) ==
  [Open(e) EXCEPT !.succeeded = @ + ok, !.missed = @ + missed]

(* Mutant: a round is reported as soon as the probes sent so far are in. *)
CompleteEarly(e) == e.succeeded + e.missed >= e.expected

(* All sends are over and every one of them has been accounted for. *)
Complete(e) == e.fin /\ e.succeeded + e.missed >= e.expected

Outcome(e) == IF e.succeeded > 0 THEN "success" ELSE "failure"

(* A round's entry becomes e; a complete one is deleted and reported. *)
Settle(r, e) ==
  /\ rounds'  = [rounds EXCEPT ![r] = IF Complete(e) THEN NoEntry ELSE e]
  /\ verdict' = [verdict EXCEPT ![r] = IF Complete(e) THEN Outcome(e) ELSE @]

-----------------------------------------------------------------------------
(* The map's peers replace the old ones; rounds and probes stay. *)
UpdatePeers ==
  /\ peers' \in SUBSET Peers
  /\ UNCHANGED <<pending, rounds, verdict, counter, pass>>

(* probeAllPeers: the clock is read, then the snapshot taken. *)
StartPass ==
  /\ stage = "idle" /\ slept /\ counter + Cardinality(Peers) <= MaxRounds
  /\ stage' = "pick" /\ passAge' = 0 /\ slept' = FALSE
  /\ todo' = peers
  /\ UNCHANGED <<peers, pending, rounds, verdict, counter, at, left, sent>>

(* The next peer gets a fresh round; its candidates and hints are any.     *)
PickPeer ==
  /\ stage = "pick"
  /\ \E p \in todo, n \in 0..MaxTargets :
       /\ at' = p /\ left' = n /\ todo' = todo \ {p}
  /\ counter' = counter + 1 /\ sent' = 0 /\ stage' = "direct"
  /\ UNCHANGED <<peers, pending, rounds, verdict, passAge, slept>>

Sent == pending' = pending \cup
          {[peer |-> at, round |-> counter, target |-> left, age |-> 0]}

(* Mutant: a probe the socket refused is expected to be answered. *)
SendCounted ==
  /\ stage = "direct" /\ left > 0
  /\ left' = left - 1 /\ sent' = sent + 1
  /\ Sent \/ UNCHANGED pending
  /\ UNCHANGED <<peers, rounds, verdict, counter, stage, todo, at, passAge, slept>>

(* sendProbeDirect: a probe the socket refuses is forgotten, uncounted. *)
SendDirect ==
  /\ stage = "direct" /\ left > 0
  /\ left' = left - 1
  /\ \/ Sent /\ sent' = sent + 1
     \/ UNCHANGED <<pending, sent>>
  /\ UNCHANGED <<peers, rounds, verdict, counter, stage, todo, at, passAge, slept>>

(* sendProbeViaRelay: a write to the relay session, slow or failing. *)
SendRelay ==
  /\ stage = "direct" /\ left = 0
  /\ stage' = "finalize"
  /\ UNCHANGED <<peers, pending, rounds, verdict, counter, todo, at, left, sent,
                 passAge, slept>>

AtMostLate(a) == IF a < Late THEN a ELSE Late

(* finalizeRoundExpected, which may report at once; a round that sent no   *)
(* direct probe never gets an entry.                                       *)
FinalizeRound ==
  /\ stage = "finalize"
  /\ IF sent > 0
     THEN Settle(counter, [(IF rounds[counter].open THEN rounds[counter]
                            ELSE [NoEntry EXCEPT !.open = TRUE, !.age = AtMostLate(passAge)])
                             EXCEPT !.expected = sent, !.fin = TRUE])
     ELSE UNCHANGED <<rounds, verdict>>
  /\ stage' = "pick" /\ at' = NoPeer
  /\ UNCHANGED <<peers, pending, counter, todo, left, sent, passAge, slept>>

EndPass ==
  /\ stage = "pick" /\ todo = {}
  /\ stage' = "idle"
  /\ UNCHANGED <<peers, pending, rounds, verdict, counter, todo, at, left, sent,
                 passAge, slept>>

(* handlePong: if the peer is known, the probe is matched by its nonce and *)
(* counted. The lock is released between the two, but the peers play no    *)
(* part in the second and a probe gc took meanwhile is a pong ignored.     *)
HandlePong ==
  \E pr \in pending :
    /\ pr.peer \in peers
    /\ pending' = pending \ {pr}
    /\ Settle(pr.round, Recorded(rounds[pr.round], 1, 0))
    /\ UNCHANGED <<peers, counter, pass>>

LateOf(r) == {pr \in pending : pr.round = r /\ pr.age = Late}

(* Mutant: gc drops old rounds before it counts the misses. *)
AgedUncounted(r) ==
  IF rounds[r].age = Late THEN NoEntry
  ELSE IF LateOf(r) = {} THEN rounds[r]
  ELSE Recorded(rounds[r], 0, Cardinality(LateOf(r)))

(* The round's entry once gc has counted its late probes as missed. *)
Aged(r) ==
  IF LateOf(r) = {} THEN rounds[r]
  ELSE Recorded(rounds[r], 0, Cardinality(LateOf(r)))

(* Late, and complete or not: the leak guard drops what is still there.    *)
Swept(r) == Aged(r).open /\ ~Complete(Aged(r)) /\ Aged(r).age = Late

(* gc: probes older than two units have missed; then the leak guard.       *)
Gc ==
  /\ pending' = {pr \in pending : pr.age < Late}
  /\ rounds' = [r \in Rounds |->
       IF Swept(r) \/ (LateOf(r) # {} /\ Complete(Aged(r))) THEN NoEntry ELSE Aged(r)]
  /\ verdict' = [r \in Rounds |->
       IF LateOf(r) # {} /\ Complete(Aged(r)) THEN Outcome(Aged(r)) ELSE verdict[r]]
  /\ UNCHANGED <<peers, counter, pass>>

Older(a) == IF a < Late THEN a + 1 ELSE a

Tick ==
  /\ stage # "idle" => passAge < MaxPass
  /\ passAge' = IF stage = "idle" THEN passAge ELSE passAge + 1
  /\ slept' = (slept \/ stage = "idle")
  /\ pending' = {[pr EXCEPT !.age = Older(@)] : pr \in pending}
  /\ rounds' = [r \in Rounds |->
       IF rounds[r].open THEN [rounds[r] EXCEPT !.age = Older(@)] ELSE rounds[r]]
  /\ UNCHANGED <<peers, verdict, counter, stage, todo, at, left, sent>>

Prober == StartPass \/ PickPeer \/ SendDirect \/ SendRelay \/ FinalizeRound \/ EndPass

Next == UpdatePeers \/ Prober \/ HandlePong \/ Gc \/ Tick

Spec == Init /\ [][Next]_vars

(* The goroutines run and time passes; nothing makes a pong arrive. *)
FairSpec == Spec /\ WF_vars(Prober) /\ WF_vars(Gc) /\ WF_vars(Tick)

-----------------------------------------------------------------------------
(* Properties *)

Outstanding(r) == {pr \in pending : pr.round = r}

(* Counted or still pending, against what was sent: there are fewer once   *)
(* the leak guard has dropped the entry of a round the prober is still at, *)
(* which takes a pass stuck for longer than Late.                          *)
Known(r)   == rounds[r].succeeded + rounds[r].missed + Cardinality(Outstanding(r))
Sending(r) == r = counter /\ at # NoPeer

(* The abstract state of a round. *)
RoundState(r) ==
  IF verdict[r] # "none"
  THEN [st |-> "reported", out |-> Cardinality(Outstanding(r)),
        good |-> verdict[r] = "success"]
  ELSE LET st == IF r > counter THEN "new"
                 ELSE IF Sending(r) /\ Known(r) = sent THEN "sending"
                 ELSE IF rounds[r].fin /\ Known(r) = rounds[r].expected THEN "open" ELSE "lost"
       IN [st   |-> st,
           out  |-> IF st = "lost" THEN 0 ELSE Cardinality(Outstanding(r)),
           good |-> IF st = "lost" THEN FALSE ELSE rounds[r].succeeded > 0]

Promise == INSTANCE ProbeRounds WITH round <- [r \in Rounds |-> RoundState(r)]

(* "fires once per direct-path probe round when all candidate probes of    *)
(* that round have been accounted for", AnySuccess "if at least one        *)
(* candidate in the round produced a pong" (types.go:124): the counters,   *)
(* the lazily made entries and the two sweeps implement the promise.       *)
KeepsPromise == Promise!Spec

(* The bookkeeping is exact: a finalized entry has counted every probe of  *)
(* its round that is no longer pending, and no others (prober.go:191).     *)
RoundBalance ==
  /\ TypeOK
  /\ \A r \in Rounds : rounds[r].fin => Known(r) = rounds[r].expected

(* A round that is open and no younger than its probes is reported, however *)
(* many of them are lost: the leak guard runs after the misses are counted  *)
(* (inbound.go:437).                                                        *)
Timely(r) ==
  rounds[r].fin /\ \A pr \in Outstanding(r) : pr.age >= rounds[r].age
TimelyRoundsReported ==
  \A r \in Rounds : Timely(r) ~> (verdict[r] # "none")
=============================================================================
