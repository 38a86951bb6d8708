------------------------- MODULE DiscoRoundsProofs -------------------------
(***************************************************************************)
(* Proofs about DiscoRounds. What a step does to one round is one of seven *)
(* effects (Effect): nothing but growing older, the round begun, a probe   *)
(* sent, its sends over, some probes counted, or its entry dropped. Every  *)
(* action is shown once to have only such effects (EveryMove); what a      *)
(* round's bookkeeping keeps, and how its abstract state moves, is then    *)
(* shown once per effect.                                                  *)
(*                                                                         *)
(* The inductive invariant IInv says per round (Entry) that what is counted *)
(* and pending is never more than what was sent, that a finalized entry    *)
(* still in the table is incomplete and its prober gone, and that nothing  *)
(* is pending of a round reported. The refinement needs no more. That      *)
(* nothing is forgotten (Exact) also needs a pass shorter than the leak    *)
(* guard: it is a second layer, with that hypothesis.                      *)
(***************************************************************************)
EXTENDS DiscoRounds, FiniteSetTheorems, TLAPS

(* The types without the bounds of the counters, which Entry gives. *)
EntryType == [open : BOOLEAN, fin : BOOLEAN, expected : Nat,
              succeeded : Nat, missed : Nat, age : Ages]

Types ==
  /\ peers \subseteq Peers
  /\ pending \subseteq Probes /\ IsFiniteSet(pending)
  /\ rounds \in [Rounds -> EntryType]
  /\ verdict \in [Rounds -> {"none", "success", "failure"}]
  /\ counter \in 0..MaxRounds
  /\ stage \in {"idle", "pick", "direct", "finalize"}
  /\ todo \subseteq Peers /\ at \in Peers \cup {NoPeer}
  /\ left \in 0..MaxTargets /\ sent \in 0..MaxTargets
  /\ passAge \in 0..MaxPass /\ slept \in BOOLEAN

(* Where the prober is; the rounds left are enough for the peers left. *)
Pass ==
  /\ stage \in {"direct", "finalize"} <=> at # NoPeer
  /\ at # NoPeer => counter > 0
  /\ stage # "idle" => counter + Cardinality(todo) <= MaxRounds
  /\ sent + left <= MaxTargets

(* A target of a round is probed once, and the targets left not yet. *)
Single ==
  /\ \A p, q \in pending : p.round = q.round /\ p.target = q.target => p = q
  /\ \A p \in pending : p.round <= counter
  /\ stage = "direct" => \A p \in pending : p.round = counter => p.target > left

(* The bookkeeping of a round. *)
Entry(r) ==
  /\ ~rounds[r].open => rounds[r] = NoEntry
  /\ ~rounds[r].fin => rounds[r].expected = 0
  /\ rounds[r].open /\ ~rounds[r].fin => rounds[r].succeeded + rounds[r].missed >= 1
  /\ rounds[r].fin => /\ ~Sending(r) /\ ~Complete(rounds[r])
                      /\ Known(r) <= rounds[r].expected /\ rounds[r].expected <= MaxTargets
  /\ Sending(r) => Known(r) <= sent
  /\ Known(r) <= MaxTargets
  /\ verdict[r] # "none" => ~Sending(r) /\ Known(r) = 0
  /\ r > counter => rounds[r] = NoEntry /\ Known(r) = 0 /\ verdict[r] = "none"

IInv == Types /\ Pass /\ Single /\ \A r \in Rounds : Entry(r)

(* The assumption, named for what it says. *)
LEMMA Consts ==
  /\ MaxTargets \in Nat /\ MaxRounds \in Nat /\ MaxPass \in Nat
  /\ NoPeer \notin Peers /\ IsFiniteSet(Peers)
  BY DiscoAssumption

(* A round has finitely many probes in flight. *)
LEMMA OutFinite == ASSUME Types, NEW r PROVE IsFiniteSet(Outstanding(r)) /\ Cardinality(Outstanding(r)) \in Nat
<1>1. Outstanding(r) \subseteq pending
  BY DEF Outstanding
<1> QED
  BY <1>1, FS_Subset, FS_CardinalityType DEF Types

(* The types of what is said about a round. *)
LEMMA EntryIs ==
  ASSUME Types, NEW r \in Rounds
  PROVE  /\ rounds[r] \in EntryType /\ rounds[r].succeeded \in Nat /\ rounds[r].missed \in Nat
         /\ rounds[r].expected \in Nat /\ rounds[r].age \in Ages /\ {rounds[r].open, rounds[r].fin} \subseteq BOOLEAN
         /\ Known(r) \in Nat /\ Cardinality(Outstanding(r)) \in Nat
         /\ Known(r) = rounds[r].succeeded + rounds[r].missed + Cardinality(Outstanding(r))
<1>1. rounds[r] \in EntryType
  BY DEF Types
<1>2. Cardinality(Outstanding(r)) \in Nat
  BY OutFinite
<1> QED
  BY <1>1, <1>2 DEF EntryType, Known

(* Nothing is probed at the start. *)
LEMMA InitIInv == Init => IInv
<1> SUFFICES ASSUME Init PROVE IInv
  OBVIOUS
<1>1. IsFiniteSet({}) /\ Cardinality({}) = 0
  BY FS_EmptySet
<1>2. Types
  BY <1>1, Consts DEF Init, Types, NoEntry, EntryType, Ages, Late
<1>3. \A r \in Rounds : Outstanding(r) = {}
  BY DEF Init, Outstanding
<1>4. \A r \in Rounds : Known(r) = 0
  BY <1>1, <1>3 DEF Init, Known, NoEntry
<1>5. \A r \in Rounds : Entry(r)
  BY <1>4, Consts DEF Init, Entry, NoEntry, Sending
<1>6. Pass /\ Single
  BY <1>1, Consts DEF Init, Pass, Single
<1> QED
  BY <1>2, <1>5, <1>6 DEF IInv

-----------------------------------------------------------------------------
(* The effects of a step on a round. *)

Out(r) == Cardinality(Outstanding(r))

(* The prober stays with the round, or away from it. *)
SameStage(r) == /\ Sending(r)' <=> Sending(r)
                /\ Sending(r) => sent' = sent
                /\ r > counter' <=> r > counter

(* The entry of the round the prober is at is no older than the pass. *)
Young(r) == rounds[r].open /\ Sending(r) => rounds[r].age <= passAge

Alike(e, f) == /\ f.open = e.open /\ f.fin = e.fin /\ f.expected = e.expected
               /\ f.succeeded = e.succeeded /\ f.missed = e.missed

Same(r) ==
  /\ \/ rounds'[r] = rounds[r] /\ (Sending(r) => passAge <= passAge')
     \/ /\ rounds[r].open /\ Alike(rounds[r], rounds'[r])
        /\ Sending(r) /\ rounds[r].age <= passAge => rounds'[r].age <= passAge'
  /\ verdict'[r] = verdict[r] /\ Out(r)' = Out(r) /\ SameStage(r)

Begins(r) ==
  /\ r > counter /\ r = counter' /\ Sending(r)' /\ sent' = 0
  /\ rounds'[r] = rounds[r] /\ verdict'[r] = verdict[r] /\ Out(r)' = Out(r)

Sends(r) ==
  /\ Sending(r) /\ Sending(r)' /\ counter' = counter /\ sent' = sent + 1 /\ passAge' = passAge
  /\ rounds'[r] = rounds[r] /\ verdict'[r] = verdict[r] /\ Out(r)' = Out(r) + 1

Counts(r, ok, missed) ==
  LET e == Recorded(rounds[r], ok, missed) IN
  /\ ok + missed > 0 /\ Out(r)' = Out(r) - ok - missed /\ SameStage(r)
  /\ passAge' = passAge
  /\ \/ Complete(e) /\ rounds'[r] = NoEntry /\ verdict'[r] = Outcome(e)
     \/ /\ ~Complete(e) /\ verdict'[r] = verdict[r]
        /\ rounds'[r] = e \/ (rounds'[r] = NoEntry /\ e.age = Late)

Drops(r) ==
  /\ rounds[r].open /\ rounds[r].age = Late /\ rounds'[r] = NoEntry
  /\ verdict'[r] = verdict[r] /\ Out(r)' = Out(r) /\ SameStage(r)

Ends(r) ==
  /\ Sending(r) /\ ~Sending(r)' /\ counter' = counter /\ Out(r)' = Out(r)
  /\ \/ sent = 0 /\ rounds'[r] = rounds[r] /\ verdict'[r] = verdict[r]
     \/ /\ sent > 0
        /\ \E a \in Ages :
             LET e == [rounds[r] EXCEPT !.open = TRUE, !.expected = sent, !.fin = TRUE, !.age = a] IN
             \/ Complete(e) /\ rounds'[r] = NoEntry /\ verdict'[r] = Outcome(e)
             \/ ~Complete(e) /\ rounds'[r] = e /\ verdict'[r] = verdict[r]

Effect(r) ==
  \/ Same(r) \/ Begins(r) \/ Sends(r) \/ Drops(r) \/ Ends(r)
  \/ Counts(r, 1, 0) \/ \E n \in Nat : Counts(r, 0, n)

(* What counting does to an entry, made on demand when there is none. *)
LEMMA RecordedIs ==
  ASSUME Types, NEW r \in Rounds, Entry(r), NEW ok \in Nat, NEW missed \in Nat
  PROVE  /\ Recorded(rounds[r], ok, missed) \in EntryType
         /\ Recorded(rounds[r], ok, missed).open
         /\ Recorded(rounds[r], ok, missed).fin = rounds[r].fin
         /\ Recorded(rounds[r], ok, missed).expected = rounds[r].expected
         /\ Recorded(rounds[r], ok, missed).succeeded = rounds[r].succeeded + ok
         /\ Recorded(rounds[r], ok, missed).missed = rounds[r].missed + missed
         /\ rounds[r].open => Recorded(rounds[r], ok, missed).age = rounds[r].age
<1> DEFINE b == Open(rounds[r])
<1>1. /\ b \in EntryType /\ b.open /\ b.fin = rounds[r].fin /\ b.expected = rounds[r].expected
      /\ b.succeeded = rounds[r].succeeded /\ b.missed = rounds[r].missed
      /\ rounds[r].open => b.age = rounds[r].age
  <2>1. rounds[r] \in EntryType /\ (~rounds[r].open => rounds[r] = NoEntry)
    BY EntryIs DEF Entry
  <2>2. CASE rounds[r].open
    BY <2>1, <2>2 DEF Open
  <2>3. CASE ~rounds[r].open
    BY <2>1, <2>3 DEF EntryType, Open, NoEntry, Ages, Late
  <2> QED
    BY <2>2, <2>3
<1>2. Recorded(rounds[r], ok, missed) = [b EXCEPT !.succeeded = @ + ok, !.missed = @ + missed]
  BY DEF Recorded
<1> DEFINE c == [b EXCEPT !.succeeded = @ + ok, !.missed = @ + missed]
<1> HIDE DEF b
<1>3. /\ c.open = b.open /\ c.fin = b.fin /\ c.expected = b.expected /\ c.age = b.age
      /\ c.succeeded = b.succeeded + ok /\ c.missed = b.missed + missed
  BY <1>1 DEF EntryType
<1>4. c \in EntryType
  <2>1. b.succeeded + ok \in Nat /\ b.missed + missed \in Nat
    BY <1>1 DEF EntryType
  <2> QED
    BY <1>1, <2>1 DEF EntryType
<1> HIDE DEF c
<1> QED
  BY <1>1, <1>2, <1>3, <1>4 DEF c

(* What a step does to a round keeps its bookkeeping. *)
LEMMA EntryKept ==
  ASSUME Types, Types', Pass, Pass', NEW r \in Rounds, Entry(r), Effect(r)
  PROVE  Entry(r)'
<1>1. /\ Known(r) = rounds[r].succeeded + rounds[r].missed + Out(r)
      /\ rounds[r].succeeded \in Nat /\ rounds[r].missed \in Nat /\ rounds[r].expected \in Nat
      /\ Out(r) \in Nat /\ Out(r)' \in Nat /\ sent \in Nat /\ sent' \in Nat
      /\ rounds[r] \in EntryType /\ Known(r) \in Nat /\ sent <= MaxTargets /\ sent' <= MaxTargets /\ MaxTargets \in Nat
      /\ counter \in Nat /\ counter' \in Nat /\ r \in Nat
  <2>1. Out(r)' \in Nat
    <3>1. Outstanding(r)' \subseteq pending'
      BY DEF Outstanding
    <3> QED
      BY <3>1, FS_Subset, FS_CardinalityType DEF Types, Out
  <2> QED
    BY <2>1, EntryIs, Consts DEF Out, Types, Rounds
<1>2. Known(r)' = rounds'[r].succeeded + rounds'[r].missed + Out(r)'
  BY DEF Known, Out
<1> HIDE DEF Out, Known, Sending
<1>3. CASE Same(r)
  <2>1. Alike(rounds[r], rounds'[r]) /\ (~rounds[r].open => rounds'[r] = rounds[r])
    BY <1>3 DEF Same, Alike
  <2>2. Known(r)' = Known(r)
    BY <1>1, <1>2, <1>3, <2>1 DEF Same, Alike
  <2>3. verdict'[r] = verdict[r] /\ SameStage(r)
    BY <1>3 DEF Same
  <2>4. r > counter => ~rounds[r].open
    BY DEF Entry, NoEntry
  <2> QED
    BY <1>1, <2>1, <2>2, <2>3, <2>4 DEF SameStage, Entry, Complete, Alike
<1>4. CASE Begins(r)
  <2>1. Known(r)' = Known(r) /\ rounds'[r] = NoEntry /\ verdict'[r] = "none" /\ Known(r) = 0
    BY <1>1, <1>2, <1>4 DEF Begins, Entry
  <2>2. ~(r > counter') /\ sent' = 0
    BY <1>1, <1>4 DEF Begins
  <2> QED
    BY <1>1, <2>1, <2>2 DEF Entry, NoEntry
<1>5. CASE Sends(r)
  <2>1. Known(r)' = Known(r) + 1 /\ rounds'[r] = rounds[r] /\ verdict'[r] = verdict[r]
    BY <1>1, <1>2, <1>5 DEF Sends
  <2>2. ~(r > counter') /\ sent' = sent + 1 /\ Sending(r) /\ Sending(r)'
    BY <1>1, <1>5 DEF Sends, Sending
  <2>3. Known(r) <= sent /\ ~rounds[r].fin /\ verdict[r] = "none"
    BY <2>2 DEF Entry
  <2> QED
    BY <1>1, <2>1, <2>2, <2>3 DEF Entry
<1>6. CASE Drops(r)
  <2>1. Known(r)' <= Known(r) /\ Known(r)' = Out(r) /\ rounds'[r] = NoEntry /\ verdict'[r] = verdict[r]
    BY <1>1, <1>2, <1>6 DEF Drops, NoEntry
  <2>2. SameStage(r) /\ rounds[r].open /\ Out(r) \in Nat
    BY <1>1, <1>6 DEF Drops
  <2> HIDE DEF NoEntry
  <2>3. ~NoEntry.open /\ ~NoEntry.fin /\ NoEntry.expected = 0
    BY DEF NoEntry
  <2> QED
    BY <1>1, <2>1, <2>2, <2>3 DEF SameStage, Entry
<1>7. CASE Ends(r)
  <2>1. /\ Known(r) <= sent /\ ~rounds[r].fin /\ verdict[r] = "none" /\ ~(r > counter')
    <3>1. Sending(r)
      BY <1>7 DEF Ends
    <3>2. r = counter
      BY <3>1 DEF Sending
    <3>3. counter' = counter
      BY <1>7 DEF Ends
    <3>4. ~(r > counter')
      BY <1>1, <3>2, <3>3
    <3> QED
      BY <3>1, <3>4 DEF Entry
  <2>2. CASE sent = 0 /\ rounds'[r] = rounds[r] /\ verdict'[r] = verdict[r]
    <3>1. Known(r)' = Known(r)
      BY <1>1, <1>2, <1>7, <2>2 DEF Ends
    <3> QED
      BY <1>1, <1>7, <2>1, <2>2, <3>1 DEF Ends, Entry
  <2>3. ASSUME NEW a \in Ages, sent > 0,
               LET e == [rounds[r] EXCEPT !.open = TRUE, !.expected = sent, !.fin = TRUE, !.age = a] IN
               \/ Complete(e) /\ rounds'[r] = NoEntry /\ verdict'[r] = Outcome(e)
               \/ ~Complete(e) /\ rounds'[r] = e /\ verdict'[r] = verdict[r]
        PROVE  Entry(r)'
    <3> DEFINE e == [rounds[r] EXCEPT !.open = TRUE, !.expected = sent, !.fin = TRUE, !.age = a]
    <3>1. /\ e.open /\ e.fin /\ e.expected = sent
          /\ e.succeeded = rounds[r].succeeded /\ e.missed = rounds[r].missed
      BY <1>1 DEF EntryType
    <3>2. \/ Complete(e) /\ rounds'[r] = NoEntry /\ verdict'[r] = Outcome(e)
          \/ ~Complete(e) /\ rounds'[r] = e /\ verdict'[r] = verdict[r]
      BY <2>3
    <3> HIDE DEF e
    <3>3. CASE Complete(e) /\ rounds'[r] = NoEntry
      <4>1. Known(r)' = 0
        <5>1. Out(r) = 0
          BY <1>1, <2>1, <3>1, <3>3 DEF Complete
        <5>2. Known(r)' = Out(r)
          <6>1. Out(r)' = Out(r)
            BY <1>7 DEF Ends
          <6>2. rounds'[r].succeeded = 0 /\ rounds'[r].missed = 0
            BY <3>3 DEF NoEntry
          <6> QED
            BY <1>1, <1>2, <6>1, <6>2
        <5> QED
          BY <5>1, <5>2
      <4>2. ~NoEntry.open /\ ~NoEntry.fin /\ NoEntry.expected = 0
        BY DEF NoEntry
      <4> HIDE DEF NoEntry
      <4>3. counter' = counter /\ ~Sending(r)'
        BY <1>7 DEF Ends
      <4> QED
        BY <1>1, <2>1, <3>3, <4>1, <4>2, <4>3 DEF Entry
    <3>4. CASE ~Complete(e) /\ rounds'[r] = e /\ verdict'[r] = verdict[r]
      <4>1. Known(r)' = Known(r)
        BY <1>1, <1>2, <1>7, <3>1, <3>4 DEF Ends
      <4> QED
        BY <1>1, <1>7, <2>1, <3>1, <3>4, <4>1 DEF Ends, Entry
    <3> QED
      BY <3>2, <3>3, <3>4
  <2> QED
    BY <1>7, <2>2, <2>3 DEF Ends
<1>8. ASSUME NEW ok \in Nat, NEW missed \in Nat, Counts(r, ok, missed) PROVE Entry(r)'
  <2> DEFINE e == Recorded(rounds[r], ok, missed)
  <2>1. /\ e \in EntryType /\ e.open /\ e.fin = rounds[r].fin /\ e.expected = rounds[r].expected
        /\ e.succeeded = rounds[r].succeeded + ok /\ e.missed = rounds[r].missed + missed
    BY RecordedIs
  <2>2. /\ ok + missed > 0 /\ Out(r)' = Out(r) - ok - missed /\ SameStage(r)
        /\ \/ Complete(e) /\ rounds'[r] = NoEntry /\ verdict'[r] = Outcome(e)
           \/ /\ ~Complete(e) /\ verdict'[r] = verdict[r]
              /\ rounds'[r] = e \/ rounds'[r] = NoEntry
    BY <1>8 DEF Counts
  <2>3. Known(r) > 0 /\ r <= counter
    BY <1>1, <2>2 DEF Entry
  <2> HIDE DEF e
  <2>4. CASE Complete(e) /\ rounds'[r] = NoEntry /\ verdict'[r] = Outcome(e)
    BY <1>1, <1>2, <2>1, <2>2, <2>3, <2>4 DEF SameStage, Entry, NoEntry, Complete
  <2>5. CASE ~Complete(e) /\ verdict'[r] = verdict[r] /\ rounds'[r] = e
    BY <1>1, <1>2, <2>1, <2>2, <2>3, <2>5 DEF SameStage, Entry, NoEntry, Complete
  <2>6. CASE verdict'[r] = verdict[r] /\ rounds'[r] = NoEntry
    BY <1>1, <1>2, <2>1, <2>2, <2>3, <2>6 DEF SameStage, Entry, NoEntry, Complete
  <2> QED
    BY <2>2, <2>4, <2>5, <2>6
<1> QED
  BY <1>3, <1>4, <1>5, <1>6, <1>7, <1>8 DEF Effect

-----------------------------------------------------------------------------
(* What every step does. *)
Moves == Types' /\ Pass' /\ Single' /\ \A r \in Rounds : Effect(r)

(* The peers replaced, a pass begun or over, a relay write: no round moves. *)
LEMMA Quiet ==
  ASSUME IInv, UpdatePeers \/ StartPass \/ SendRelay \/ EndPass \/ UNCHANGED vars
  PROVE  Moves
<1>1. /\ pending' = pending /\ rounds' = rounds /\ verdict' = verdict /\ counter' = counter
      /\ at' = at /\ left' = left /\ sent' = sent
  BY DEF UpdatePeers, StartPass, SendRelay, EndPass, vars, pass
<1>2. Types /\ Pass /\ Single
  BY DEF IInv
<1>3. \A S \in SUBSET Peers : Cardinality(S) \in Nat /\ Cardinality(S) <= Cardinality(Peers)
  BY Consts, FS_Subset, FS_CardinalityType
<1>4. Cardinality(Peers) \in Nat
  BY Consts, FS_CardinalityType
<1>5. Types'
  <2>1. /\ peers' \subseteq Peers /\ todo' \subseteq Peers /\ slept' \in BOOLEAN
        /\ stage' \in {"idle", "pick", "direct", "finalize"}
    BY <1>2 DEF UpdatePeers, StartPass, SendRelay, EndPass, vars, pass, Types
  <2>2. passAge' \in 0..MaxPass
    BY <1>2, Consts DEF UpdatePeers, StartPass, SendRelay, EndPass, vars, pass, Types
  <2> QED
    BY <1>1, <1>2, <2>1, <2>2 DEF Types
<1>6. Pass'
  <2>1. stage' \in {"direct", "finalize"} <=> stage \in {"direct", "finalize"}
    BY <1>2 DEF UpdatePeers, StartPass, SendRelay, EndPass, vars, pass, Types
  <2>2. stage' # "idle" => counter + Cardinality(todo') <= MaxRounds
    <3>1. CASE StartPass
      <4>1. Cardinality(todo') <= Cardinality(Peers) /\ Cardinality(todo') \in Nat
        BY <1>2, <1>3, <3>1 DEF StartPass, Types
      <4> QED
        BY <1>2, <1>4, <3>1, <4>1, Consts DEF StartPass, Types
    <3>2. CASE ~StartPass
      BY <1>2, <3>2 DEF UpdatePeers, SendRelay, EndPass, vars, pass, Pass
    <3> QED
      BY <3>1, <3>2
  <2> QED
    BY <1>1, <1>2, <2>1, <2>2 DEF Pass
<1>7. Single'
  <2>1. stage' = "direct" => stage = "direct"
    BY <1>2 DEF UpdatePeers, StartPass, SendRelay, EndPass, vars, pass
  <2> QED
    BY <1>1, <1>2, <2>1 DEF Single
<1>8. ASSUME NEW r \in Rounds PROVE Effect(r)
  <2>1. Out(r)' = Out(r) /\ SameStage(r)
    BY <1>1 DEF Out, Outstanding, SameStage, Sending
  <2>2. Sending(r) => passAge <= passAge'
    <3>1. CASE StartPass
      BY <1>2, <3>1 DEF StartPass, Pass, Sending
    <3>2. CASE ~StartPass
      BY <1>2, <3>2, Consts DEF UpdatePeers, SendRelay, EndPass, vars, pass, Types
    <3> QED
      BY <3>1, <3>2
  <2> QED
    BY <1>1, <2>1, <2>2 DEF Effect, Same
<1> QED
  BY <1>5, <1>6, <1>7, <1>8 DEF Moves

(* PickPeer begins the next round. *)
LEMMA Picks == ASSUME IInv, PickPeer PROVE Moves
<1>1. Types /\ Pass /\ Single
  BY DEF IInv
<1>2. PICK p \in todo, n \in 0..MaxTargets : at' = p /\ left' = n /\ todo' = todo \ {p}
  BY DEF PickPeer
<1>3. /\ stage = "pick" /\ at = NoPeer /\ at' \in Peers /\ at' # NoPeer /\ n \in Nat
      /\ counter' = counter + 1 /\ counter \in Nat /\ sent' = 0 /\ stage' = "direct"
  BY <1>1, <1>2, Consts DEF PickPeer, Types, Pass
<1>4. IsFiniteSet(todo) /\ Cardinality(todo) \in Nat /\ Cardinality(todo') = Cardinality(todo) - 1
      /\ Cardinality(todo') \in Nat
  <2>1. IsFiniteSet(todo)
    BY <1>1, Consts, FS_Subset DEF Types
  <2>2. IsFiniteSet(todo')
    BY <1>2, <2>1, FS_RemoveElement
  <2> QED
    BY <1>2, <2>1, <2>2, FS_CardinalityType, FS_RemoveElement
<1>5. counter' + Cardinality(todo') <= MaxRounds /\ counter' \in 0..MaxRounds
  BY <1>1, <1>3, <1>4, Consts DEF Pass
<1>6. Types'
  BY <1>1, <1>2, <1>3, <1>5, Consts DEF PickPeer, Types
<1>7. Pass'
  BY <1>2, <1>3, <1>5, Consts DEF Pass
<1>8. Single'
  <2>1. \A q \in pending : q.round \in Nat
    BY <1>1 DEF Types, Probes, Rounds
  <2> QED
    BY <1>1, <1>3, <2>1 DEF PickPeer, Single
<1>9. ASSUME NEW r \in Rounds PROVE Effect(r)
  <2>1. Out(r)' = Out(r) /\ rounds' = rounds /\ verdict' = verdict /\ r \in Nat
    BY DEF PickPeer, Out, Outstanding, Rounds
  <2>2. CASE r = counter + 1
    BY <1>3, <2>1, <2>2 DEF Effect, Begins, Sending
  <2>3. CASE r # counter + 1
    BY <1>3, <2>1, <2>3 DEF Effect, Same, SameStage, Sending
  <2> QED
    BY <2>2, <2>3
<1> QED
  BY <1>6, <1>7, <1>8, <1>9 DEF Moves

(* SendDirect adds a probe that is not in flight yet, or nothing. *)
LEMMA Sendings == ASSUME IInv, SendDirect PROVE Moves
<1>1. Types /\ Pass /\ Single
  BY DEF IInv
<1> DEFINE pr == [peer |-> at, round |-> counter, target |-> left, age |-> 0]
<1>2. /\ stage = "direct" /\ left > 0 /\ left' = left - 1 /\ at # NoPeer /\ at \in Peers
      /\ at' = at /\ counter' = counter /\ rounds' = rounds /\ verdict' = verdict /\ stage' = stage
      /\ counter \in Rounds /\ left \in Targets /\ left \in Nat /\ sent \in Nat /\ passAge' = passAge
      /\ counter \in Nat /\ passAge \in Nat /\ todo' = todo /\ left' \in 0..MaxTargets
  BY <1>1, Consts DEF SendDirect, Types, Pass, Rounds, Targets
<1>3. \/ pending' = pending \cup {pr} /\ sent' = sent + 1
      \/ pending' = pending /\ sent' = sent
  BY DEF SendDirect, Sent
<1>4. pr \in Probes /\ pr \notin pending /\ pr.round = counter /\ pr.target = left
  <2>1. pr \in Probes
    BY <1>2 DEF Probes, Ages, Late
  <2>2. \A q \in pending : q.round = counter => q.target > left
    BY <1>1, <1>2 DEF Single
  <2> QED
    BY <1>2, <2>1, <2>2
<1> HIDE DEF pr
<1>5. Types'
  <2>1. pending' \subseteq Probes /\ IsFiniteSet(pending')
    BY <1>1, <1>3, <1>4, FS_AddElement DEF Types
  <2>2. sent' \in 0..MaxTargets
    BY <1>1, <1>2, <1>3, Consts DEF Pass
  <2> QED
    BY <1>1, <1>2, <2>1, <2>2 DEF SendDirect, Types
<1>6. Pass'
  <2>1. sent' + left' <= MaxTargets
    BY <1>1, <1>2, <1>3, Consts DEF Pass
  <2> QED
    BY <1>1, <1>2, <2>1 DEF Pass
<1>7. Single'
  <2>1. \A q \in pending : q.round \in Nat /\ q.target \in Nat
    BY <1>1, Consts DEF Types, Probes, Rounds, Targets
  <2>2. \A q \in pending : q.round = counter => q.target > left
    BY <1>1, <1>2 DEF Single
  <2>3. \A p, q \in pending' : p.round = q.round /\ p.target = q.target => p = q
    BY <1>1, <1>2, <1>3, <1>4, <2>1, <2>2 DEF Single
  <2>4. \A p \in pending' : p.round <= counter'
    BY <1>1, <1>2, <1>3, <1>4 DEF Single
  <2>5. \A p \in pending' : p.round = counter' => p.target > left'
    BY <1>2, <1>3, <1>4, <2>1, <2>2
  <2> QED
    BY <2>3, <2>4, <2>5 DEF Single
<1>8. ASSUME NEW r \in Rounds PROVE Effect(r)
  <2>1. IsFiniteSet(Outstanding(r)) /\ Cardinality(Outstanding(r)) \in Nat
    BY <1>1, OutFinite
  <2>2. SameStage(r) \/ (r = counter /\ sent' = sent + 1)
    BY <1>2, <1>3 DEF SameStage, Sending
  <2>3. CASE pending' = pending /\ sent' = sent
    <3>1. Out(r)' = Out(r) /\ SameStage(r)
      BY <1>2, <2>3 DEF Out, Outstanding, SameStage, Sending
    <3> QED
      BY <1>2, <3>1 DEF Effect, Same
  <2>4. CASE pending' = pending \cup {pr} /\ sent' = sent + 1 /\ r = counter
    <3>1. Outstanding(r)' = Outstanding(r) \cup {pr} /\ pr \notin Outstanding(r)
      BY <1>4, <2>4 DEF Outstanding
    <3>2. Out(r)' = Out(r) + 1
      BY <2>1, <3>1, FS_AddElement DEF Out
    <3> QED
      BY <1>2, <2>4, <3>2 DEF Effect, Sends, Sending
  <2>5. CASE pending' = pending \cup {pr} /\ sent' = sent + 1 /\ r # counter
    <3>1. Outstanding(r)' = Outstanding(r)
      BY <1>4, <2>5 DEF Outstanding
    <3>2. Out(r)' = Out(r) /\ SameStage(r)
      BY <1>2, <2>5, <3>1 DEF Out, SameStage, Sending
    <3> QED
      BY <1>2, <3>2 DEF Effect, Same
  <2> QED
    BY <1>3, <2>3, <2>4, <2>5
<1> QED
  BY <1>5, <1>6, <1>7, <1>8 DEF Moves

(* FinalizeRound ends the sends of the current round. *)
LEMMA Finalizes == ASSUME IInv, FinalizeRound PROVE Moves
<1>1. Types /\ Pass /\ Single
  BY DEF IInv
<1>2. /\ stage = "finalize" /\ stage' = "pick" /\ at # NoPeer /\ at' = NoPeer /\ counter' = counter
      /\ pending' = pending /\ counter \in Rounds /\ counter \in Nat /\ sent \in Nat
      /\ passAge' = passAge /\ passAge \in Nat
      /\ UNCHANGED <<peers, pending, counter, todo, left, sent, passAge, slept>>
  BY <1>1, Consts DEF FinalizeRound, Types, Pass, Rounds
<1> DEFINE base == IF rounds[counter].open THEN rounds[counter]
                   ELSE [NoEntry EXCEPT !.open = TRUE, !.age = AtMostLate(passAge)]
           e == [base EXCEPT !.expected = sent, !.fin = TRUE]
<1>3. sent > 0 => Settle(counter, e)
  BY DEF FinalizeRound
<1>4. ~(sent > 0) => rounds' = rounds /\ verdict' = verdict
  BY DEF FinalizeRound
<1>5. \E a \in Ages : e = [rounds[counter] EXCEPT !.open = TRUE, !.expected = sent, !.fin = TRUE, !.age = a]
  <2>1. rounds[counter] \in EntryType /\ (~rounds[counter].open => rounds[counter] = NoEntry)
    BY <1>1, <1>2, EntryIs DEF IInv, Entry
  <2>2. CASE rounds[counter].open
    <3>1. e = [rounds[counter] EXCEPT !.open = TRUE, !.expected = sent, !.fin = TRUE, !.age = rounds[counter].age]
      BY <2>1, <2>2 DEF EntryType
    <3> QED
      BY <2>1, <3>1 DEF EntryType
  <2>3. CASE ~rounds[counter].open
    <3>1. AtMostLate(passAge) \in Ages
      BY <1>2 DEF AtMostLate, Ages, Late
    <3>2. e = [rounds[counter] EXCEPT !.open = TRUE, !.expected = sent, !.fin = TRUE, !.age = AtMostLate(passAge)]
      BY <2>1, <2>3 DEF NoEntry
    <3> QED
      BY <3>1, <3>2
  <2> QED
    BY <2>2, <2>3
<1>6. e \in EntryType
  <2>1. PICK a \in Ages : e = [rounds[counter] EXCEPT !.open = TRUE, !.expected = sent, !.fin = TRUE, !.age = a]
    BY <1>5
  <2>2. rounds[counter] \in EntryType
    BY <1>1, <1>2 DEF Types
  <2> HIDE DEF e
  <2> QED
    BY <1>2, <2>1, <2>2 DEF EntryType
<1> HIDE DEF e
<1>7. /\ NoEntry \in EntryType
      /\ Outcome(e) \in {"none", "success", "failure"}
  BY DEF NoEntry, EntryType, Ages, Late, Outcome
<1>8. Types'
  <2>1. rounds' \in [Rounds -> EntryType] /\ verdict' \in [Rounds -> {"none", "success", "failure"}]
    BY <1>1, <1>2, <1>3, <1>4, <1>6, <1>7 DEF Settle, Types
  <2> QED
    BY <1>1, <1>2, <2>1 DEF Types
<1>9. Pass' /\ Single'
  BY <1>1, <1>2 DEF Pass, Single
<1>10. ASSUME NEW r \in Rounds PROVE Effect(r)
  <2>1. Out(r)' = Out(r)
    BY <1>2 DEF Out, Outstanding
  <2>2. CASE r = counter
    <3>1. Sending(r) /\ ~Sending(r)'
      BY <1>2, <2>2 DEF Sending
    <3>2. CASE sent > 0
      <4>1. PICK a \in Ages : e = [rounds[r] EXCEPT !.open = TRUE, !.expected = sent, !.fin = TRUE, !.age = a]
        BY <1>5, <2>2
      <4>2. \/ Complete(e) /\ rounds'[r] = NoEntry /\ verdict'[r] = Outcome(e)
            \/ ~Complete(e) /\ rounds'[r] = e /\ verdict'[r] = verdict[r]
        BY <1>1, <1>3, <2>2, <3>2 DEF Settle, Types
      <4> QED
        BY <1>2, <2>1, <3>1, <3>2, <4>1, <4>2 DEF Effect, Ends
    <3>3. CASE ~(sent > 0)
      <4>1. sent = 0 /\ rounds' = rounds /\ verdict' = verdict
        BY <1>2, <1>4, <3>3
      <4>2. Ends(r)
        BY <1>2, <2>1, <3>1, <4>1 DEF Ends
      <4> QED
        BY <4>2 DEF Effect
    <3> QED
      BY <3>2, <3>3
  <2>3. CASE r # counter
    <3>1. rounds'[r] = rounds[r] /\ verdict'[r] = verdict[r]
      BY <1>1, <1>3, <1>4, <2>3 DEF Settle, Types
    <3>2. SameStage(r) /\ ~Sending(r)
      BY <1>2, <2>3 DEF SameStage, Sending
    <3> QED
      BY <2>1, <3>1, <3>2 DEF Effect, Same
  <2> QED
    BY <2>2, <2>3
<1> QED
  BY <1>8, <1>9, <1>10 DEF Moves

(* HandlePong counts one answer in the round of its probe. *)
LEMMA Answers == ASSUME IInv, HandlePong PROVE Moves
<1>1. Types /\ Pass /\ Single
  BY DEF IInv
<1>2. PICK pr \in pending : pr.peer \in peers /\ pending' = pending \ {pr}
                           /\ Settle(pr.round, Recorded(rounds[pr.round], 1, 0))
  BY DEF HandlePong
<1> DEFINE c == pr.round  e == Recorded(rounds[c], 1, 0)
<1>3. /\ UNCHANGED <<peers, counter, pass>> /\ c \in Rounds /\ pr.round = c
  BY <1>1, <1>2 DEF HandlePong, Types, Probes
<1>4. Settle(c, e)
  BY <1>2
<1>5. e \in EntryType
  BY <1>1, <1>3, RecordedIs DEF IInv
<1> HIDE DEF e, c
<1>6. NoEntry \in EntryType /\ Outcome(e) \in {"none", "success", "failure"}
  BY DEF NoEntry, EntryType, Ages, Late, Outcome
<1>7. Types'
  <2>1. rounds' \in [Rounds -> EntryType] /\ verdict' \in [Rounds -> {"none", "success", "failure"}]
    BY <1>1, <1>3, <1>4, <1>5, <1>6 DEF Settle, Types
  <2>2. pending' \subseteq Probes /\ IsFiniteSet(pending')
    BY <1>1, <1>2, FS_Subset DEF Types
  <2> QED
    BY <1>1, <1>3, <2>1, <2>2 DEF pass, Types
<1>8. Pass'
  BY <1>1, <1>3 DEF Pass, pass
<1>9. Single'
  BY <1>1, <1>2, <1>3 DEF Single, pass
<1>10. ASSUME NEW r \in Rounds PROVE Effect(r)
  <2>1. SameStage(r) /\ passAge' = passAge /\ passAge <= passAge'
    BY <1>1, <1>3, Consts DEF SameStage, Sending, pass, Types
  <2>2. IsFiniteSet(Outstanding(r)) /\ Cardinality(Outstanding(r)) \in Nat
    BY <1>1, OutFinite
  <2>3. CASE r = c
    <3>1. Outstanding(r)' = Outstanding(r) \ {pr} /\ pr \in Outstanding(r)
      BY <1>2, <1>3, <2>3 DEF Outstanding
    <3>2. Out(r)' = Out(r) - 1 - 0
      <4>1. Cardinality(Outstanding(r) \ {pr}) = Cardinality(Outstanding(r)) - 1
        BY <2>2, <3>1, FS_RemoveElement
      <4> QED
        BY <2>2, <3>1, <4>1 DEF Out
    <3>3. e = Recorded(rounds[r], 1, 0)
      BY <2>3 DEF e
    <3>4. \/ Complete(e) /\ rounds'[r] = NoEntry /\ verdict'[r] = Outcome(e)
          \/ ~Complete(e) /\ rounds'[r] = e /\ verdict'[r] = verdict[r]
      BY <1>1, <1>3, <1>4, <2>3 DEF Settle, Types
    <3>5. Counts(r, 1, 0)
      BY <2>1, <3>2, <3>3, <3>4 DEF Counts
    <3> QED
      BY <3>5 DEF Effect
  <2>4. CASE r # c
    <3>1. Outstanding(r)' = Outstanding(r)
      BY <1>2, <1>3, <2>4 DEF Outstanding
    <3>2. rounds'[r] = rounds[r] /\ verdict'[r] = verdict[r]
      BY <1>1, <1>3, <1>4, <2>4 DEF Settle, Types
    <3> QED
      BY <2>1, <3>1, <3>2 DEF Effect, Same, Out
  <2> QED
    BY <2>3, <2>4
<1> QED
  BY <1>7, <1>8, <1>9, <1>10 DEF Moves

(* Gc counts the late probes of every round, then drops the late entries. *)
LEMMA Sweeps == ASSUME IInv, Gc PROVE Moves
<1>1. Types /\ Pass /\ Single
  BY DEF IInv
<1>2. /\ pending' = {pr \in pending : pr.age < Late} /\ UNCHANGED <<peers, counter, pass>>
      /\ rounds' = [r \in Rounds |->
           IF Swept(r) \/ (LateOf(r) # {} /\ Complete(Aged(r))) THEN NoEntry ELSE Aged(r)]
      /\ verdict' = [r \in Rounds |->
           IF LateOf(r) # {} /\ Complete(Aged(r)) THEN Outcome(Aged(r)) ELSE verdict[r]]
  BY DEF Gc
<1>3. \A pr \in pending : pr.age \in Nat /\ (pr.age < Late <=> pr.age # Late)
  BY <1>1 DEF Types, Probes, Ages, Late
<1>4. ASSUME NEW r \in Rounds
      PROVE  /\ IsFiniteSet(LateOf(r)) /\ Cardinality(LateOf(r)) \in Nat
             /\ LateOf(r) # {} => Cardinality(LateOf(r)) > 0
             /\ Out(r)' = Out(r) - Cardinality(LateOf(r))
             /\ Outstanding(r)' = Outstanding(r) \ LateOf(r)
  <2>1. LateOf(r) \subseteq Outstanding(r) /\ Outstanding(r)' = Outstanding(r) \ LateOf(r)
    BY <1>2, <1>3 DEF LateOf, Outstanding
  <2>2. IsFiniteSet(Outstanding(r)) /\ Cardinality(Outstanding(r)) \in Nat
    BY <1>1, OutFinite
  <2>3. IsFiniteSet(LateOf(r)) /\ Cardinality(LateOf(r)) \in Nat
    BY <2>1, <2>2, FS_Subset, FS_CardinalityType
  <2>4. LateOf(r) # {} => Cardinality(LateOf(r)) > 0
    BY <2>3, FS_EmptySet
  <2>5. Outstanding(r) \cap LateOf(r) = LateOf(r)
    BY <2>1
  <2>6. Cardinality(Outstanding(r) \ LateOf(r)) = Cardinality(Outstanding(r)) - Cardinality(LateOf(r))
    BY <2>2, <2>3, <2>5, FS_Difference
  <2> QED
    BY <2>1, <2>3, <2>4, <2>6 DEF Out
<1>5. ASSUME NEW r \in Rounds PROVE Aged(r) \in EntryType
  <2>1. rounds[r] \in EntryType
    BY <1>1 DEF Types
  <2>2. Recorded(rounds[r], 0, Cardinality(LateOf(r))) \in EntryType
    BY <1>1, <1>4, RecordedIs DEF IInv
  <2> QED
    BY <2>1, <2>2 DEF Aged
<1>6. NoEntry \in EntryType /\ \A e : Outcome(e) \in {"none", "success", "failure"}
  BY DEF NoEntry, EntryType, Ages, Late, Outcome
<1>7. Types'
  <2>1. rounds' \in [Rounds -> EntryType]
    BY <1>2, <1>5, <1>6
  <2>2. verdict' \in [Rounds -> {"none", "success", "failure"}]
    BY <1>1, <1>2, <1>6 DEF Types
  <2>3. pending' \subseteq Probes /\ IsFiniteSet(pending')
    BY <1>1, <1>2, FS_Subset DEF Types
  <2> QED
    BY <1>1, <1>2, <2>1, <2>2, <2>3 DEF pass, Types
<1>8. Pass' /\ Single'
  <2>1. counter' = counter /\ pass' = pass /\ pending' \subseteq pending
    BY <1>2
  <2> QED
    BY <1>1, <2>1 DEF Pass, Single, pass
<1>9. ASSUME NEW r \in Rounds PROVE Effect(r)
  <2>1. SameStage(r) /\ passAge' = passAge /\ passAge <= passAge'
    BY <1>1, <1>2, Consts DEF SameStage, Sending, pass, Types
  <2>2. /\ rounds'[r] = IF Swept(r) \/ (LateOf(r) # {} /\ Complete(Aged(r))) THEN NoEntry ELSE Aged(r)
        /\ verdict'[r] = IF LateOf(r) # {} /\ Complete(Aged(r)) THEN Outcome(Aged(r)) ELSE verdict[r]
    BY <1>2
  <2>3. CASE LateOf(r) = {}
    <3>1. Out(r)' = Out(r)
      BY <1>4, <2>3 DEF Out
    <3>2. Aged(r) = rounds[r]
      BY <2>3 DEF Aged
    <3>3. CASE Swept(r)
      BY <2>1, <2>2, <2>3, <3>1, <3>2, <3>3 DEF Effect, Drops, Swept
    <3>4. CASE ~Swept(r)
      BY <2>1, <2>2, <2>3, <3>1, <3>2, <3>4 DEF Effect, Same
    <3> QED
      BY <3>3, <3>4
  <2>4. CASE LateOf(r) # {}
    <3> DEFINE n == Cardinality(LateOf(r))
               e == Recorded(rounds[r], 0, n)
    <3>1. Aged(r) = e /\ n \in Nat /\ 0 + n > 0
      BY <1>4, <2>4 DEF Aged
    <3>2. Out(r)' = Out(r) - 0 - n
      <4>1. Out(r) \in Nat
        BY <1>1, OutFinite DEF Out
      <4> QED
        BY <1>4, <3>1, <4>1
    <3> HIDE DEF n
    <3>3. \/ Complete(e) /\ rounds'[r] = NoEntry /\ verdict'[r] = Outcome(e)
          \/ /\ ~Complete(e) /\ verdict'[r] = verdict[r]
             /\ rounds'[r] = e \/ (rounds'[r] = NoEntry /\ e.age = Late)
      BY <2>2, <2>4, <3>1 DEF Swept
    <3>4. Counts(r, 0, n)
      BY <2>1, <3>1, <3>2, <3>3 DEF Counts
    <3> QED
      BY <3>1, <3>4 DEF Effect
  <2> QED
    BY <2>3, <2>4
<1> QED
  BY <1>7, <1>8, <1>9 DEF Moves

(* Growing older changes neither the number of a set of probes nor which   *)
(* of them are which.                                                      *)
LEMMA Ticks == ASSUME IInv, Tick PROVE Moves
<1>1. Types /\ Pass /\ Single
  BY DEF IInv
<1> DEFINE aged(pr) == [pr EXCEPT !.age = Older(@)]
<1>2. /\ pending' = {aged(pr) : pr \in pending}
      /\ passAge' = IF stage = "idle" THEN passAge ELSE passAge + 1
      /\ stage # "idle" => passAge < MaxPass
      /\ UNCHANGED <<peers, verdict, counter, stage, todo, at, left, sent>>
      /\ slept' = (slept \/ stage = "idle")
  BY DEF Tick
<1>3. rounds' = [r \in Rounds |->
       IF rounds[r].open THEN [rounds[r] EXCEPT !.age = Older(@)] ELSE rounds[r]]
  BY DEF Tick
<1>4. \A a \in Ages : Older(a) \in Ages /\ Older(a) <= a + 1
  BY DEF Older, Ages, Late
<1>5. \A pr \in pending : /\ aged(pr) \in Probes /\ aged(pr).round = pr.round
                          /\ aged(pr).target = pr.target
  BY <1>1, <1>4 DEF Types, Probes
<1>6. \A p, q \in pending : aged(p) = aged(q) => p = q
  <2> HIDE DEF aged
  <2> TAKE p, q \in pending
  <2>1. aged(p) = aged(q) => p.round = q.round /\ p.target = q.target
    BY <1>5
  <2> QED
    BY <1>1, <2>1 DEF Single
<1>7. ASSUME NEW r \in Rounds
      PROVE  Out(r)' = Out(r)
  <2> DEFINE f == [pr \in Outstanding(r) |-> aged(pr)]
  <2>1. Outstanding(r)' = {aged(pr) : pr \in Outstanding(r)}
    BY <1>2, <1>5 DEF Outstanding
  <2> DEFINE S == Outstanding(r)
             T == {aged(pr) : pr \in Outstanding(r)}
  <2>2. S \subseteq pending
    BY DEF Outstanding
  <2> HIDE DEF S, aged
  <2>3. f \in [S -> T]
    BY DEF S
  <2>4. f \in Bijection(S, T)
    BY <1>6, <2>2, <2>3 DEF Bijection, Injection, Surjection, IsInjective, S
  <2>5. IsFiniteSet(S)
    BY <1>1, OutFinite DEF S
  <2>6. ExistsBijection(S, T)
    BY <2>4 DEF ExistsBijection
  <2>7. Cardinality(T) = Cardinality(S)
    BY <2>5, <2>6, FS_Bijection
  <2> QED
    BY <2>1, <2>7 DEF Out, S
<1>8. Types'
  <2>1. rounds' \in [Rounds -> EntryType]
    BY <1>1, <1>3, <1>4 DEF Types, EntryType
  <2>2. passAge' \in 0..MaxPass
    BY <1>1, <1>2, Consts DEF Types
  <2>3. pending' \subseteq Probes
    BY <1>2, <1>5
  <2>4. IsFiniteSet(pending')
    <3> DEFINE f == [pr \in pending |-> aged(pr)]
    <3> HIDE DEF aged
    <3>1. f \in Surjection(pending, pending')
      BY <1>2 DEF Surjection
    <3> QED
      BY <1>1, <3>1, FS_Surjection DEF Types
  <2>5. slept' \in BOOLEAN
    BY <1>2
  <2> QED
    BY <1>1, <1>2, <2>1, <2>2, <2>3, <2>4, <2>5 DEF Types
<1>9. Pass'
  BY <1>1, <1>2 DEF Pass
<1>10. Single'
  <2> HIDE DEF aged
  <2>1. \A q \in pending' : \E p \in pending : q = aged(p) /\ q.round = p.round /\ q.target = p.target
    BY <1>2, <1>5
  <2>2. \A p, q \in pending' : p.round = q.round /\ p.target = q.target => p = q
    BY <1>1, <2>1 DEF Single
  <2> QED
    BY <1>1, <1>2, <2>1, <2>2 DEF Single
<1>11. ASSUME NEW r \in Rounds PROVE Effect(r)
  <2>1. /\ SameStage(r) /\ passAge <= passAge' /\ (Sending(r) => passAge' = passAge + 1)
        /\ passAge \in Nat
    BY <1>1, <1>2, Consts DEF SameStage, Sending, Types, Pass
  <2>2. rounds[r] \in EntryType /\ rounds[r].age \in Ages
    BY <1>1, EntryIs
  <2>3. CASE rounds[r].open
    <3>1. rounds'[r] = [rounds[r] EXCEPT !.age = Older(rounds[r].age)]
      BY <1>3, <2>3
    <3>2. Alike(rounds[r], rounds'[r]) /\ rounds'[r].age = Older(rounds[r].age)
      BY <2>2, <3>1 DEF Alike, EntryType
    <3>3. Sending(r) /\ rounds[r].age <= passAge => rounds'[r].age <= passAge'
      BY <1>4, <2>1, <2>2, <3>2 DEF Ages, Late
    <3> QED
      BY <1>2, <1>7, <2>1, <2>3, <3>2, <3>3 DEF Effect, Same
  <2>4. CASE ~rounds[r].open
    BY <1>2, <1>3, <1>7, <2>1, <2>4 DEF Effect, Same
  <2> QED
    BY <2>3, <2>4
<1> QED
  BY <1>8, <1>9, <1>10, <1>11 DEF Moves

(* Every step has only those effects. *)
LEMMA EveryMove == ASSUME IInv, [Next]_vars PROVE Moves
BY Quiet, Picks, Sendings, Finalizes, Answers, Sweeps, Ticks DEF Next, Prober

(* The invariant is inductive. *)
LEMMA StepIInv == IInv /\ [Next]_vars => IInv'
<1> SUFFICES ASSUME IInv, [Next]_vars PROVE IInv'
  OBVIOUS
<1>1. Moves
  BY EveryMove
<1>2. Types /\ Types' /\ Pass /\ Pass' /\ Single'
  BY <1>1 DEF IInv, Moves
<1>3. \A r \in Rounds : Entry(r) /\ Effect(r)
  BY <1>1 DEF IInv, Moves
<1>4. \A r \in Rounds : Entry(r)'
  BY <1>2, <1>3, EntryKept
<1> QED
  BY <1>2, <1>4 DEF IInv

(* It gives the counters their bounds. *)
LEMMA Typed == IInv => TypeOK
<1> SUFFICES ASSUME IInv PROVE TypeOK
  OBVIOUS
<1>1. Types /\ \A r \in Rounds : Entry(r)
  BY DEF IInv
<1>2. ASSUME NEW r \in Rounds PROVE rounds[r] \in Entries
  <2>1. /\ rounds[r] \in EntryType /\ Known(r) \in Nat /\ Cardinality(Outstanding(r)) \in Nat
        /\ rounds[r].succeeded \in Nat /\ rounds[r].missed \in Nat
        /\ Known(r) = rounds[r].succeeded + rounds[r].missed + Cardinality(Outstanding(r))
    BY <1>1, EntryIs
  <2>2. Known(r) <= MaxTargets
    BY <1>1 DEF Entry
  <2>3. rounds[r].succeeded \in 0..MaxTargets /\ rounds[r].missed \in 0..MaxTargets
    BY <2>1, <2>2, Consts
  <2>4. rounds[r].expected \in 0..MaxTargets
    <3>1. ~rounds[r].fin => rounds[r].expected = 0
      BY <1>1 DEF Entry
    <3>2. rounds[r].fin => rounds[r].expected <= MaxTargets /\ rounds[r].expected \in Nat
      BY <1>1, <2>1 DEF Entry, EntryType
    <3> QED
      BY <3>1, <3>2, Consts
  <2> QED
    BY <2>1, <2>3, <2>4 DEF EntryType, Entries
<1>3. rounds \in [Rounds -> Entries]
  BY <1>1, <1>2 DEF Types
<1> QED
  BY <1>1, <1>3 DEF Types, TypeOK

(* The inductive invariant holds of every behaviour of the three goroutines. *)
LEMMA IInvAlways == Spec => []IInv
<1> QED
  BY InitIInv, StepIInv, PTL DEF Spec

-----------------------------------------------------------------------------
(* With a pass shorter than the leak guard no probe is ever forgotten. *)
Exact(r) ==
  /\ Sending(r) => Known(r) = sent
  /\ rounds[r].fin => Known(r) = rounds[r].expected
  /\ Young(r)

(* What a step does to a round forgets none of its probes. *)
LEMMA ExactKept ==
  ASSUME MaxPass < Late, Types, Types', NEW r \in Rounds, Entry(r), Exact(r), Effect(r)
  PROVE  Exact(r)'
<1>1. /\ Known(r) = rounds[r].succeeded + rounds[r].missed + Out(r)
      /\ rounds[r].succeeded \in Nat /\ rounds[r].missed \in Nat /\ rounds[r].expected \in Nat
      /\ Out(r) \in Nat /\ sent \in Nat /\ rounds[r] \in EntryType /\ Known(r) \in Nat
      /\ counter \in Nat /\ r \in Nat /\ passAge \in Nat /\ passAge' \in Nat /\ rounds[r].age \in Nat
      /\ passAge < Late /\ Late \in Nat
  <2>1. passAge \in Nat /\ passAge' \in Nat /\ passAge < Late /\ Late \in Nat /\ sent \in Nat
        /\ counter \in Nat /\ r \in Nat
    BY Consts DEF Types, Rounds, Late
  <2>2. rounds[r].age \in Nat /\ rounds[r] \in EntryType
    BY EntryIs DEF Ages, Late
  <2> QED
    BY <2>1, <2>2, EntryIs DEF Out
<1>2. Known(r)' = rounds'[r].succeeded + rounds'[r].missed + Out(r)'
  BY DEF Known, Out
<1>3. ~NoEntry.open /\ ~NoEntry.fin /\ NoEntry.succeeded = 0 /\ NoEntry.missed = 0 /\ NoEntry.age = 0
  BY DEF NoEntry
<1> HIDE DEF Out, Known, Sending, NoEntry, Late
<1>4. CASE Same(r)
  <2>1. Alike(rounds[r], rounds'[r])
    BY <1>4 DEF Same, Alike
  <2>2. Known(r)' = Known(r)
    BY <1>1, <1>2, <1>4, <2>1 DEF Same, Alike
  <2>3. Young(r)'
    <3>1. Sending(r)' => Sending(r)
      BY <1>4 DEF Same, SameStage
    <3>2. CASE rounds'[r] = rounds[r] /\ (Sending(r) => passAge <= passAge')
      BY <1>1, <3>1, <3>2 DEF Exact, Young
    <3>3. CASE /\ rounds[r].open
               /\ Sending(r) /\ rounds[r].age <= passAge => rounds'[r].age <= passAge'
      BY <3>1, <3>3 DEF Exact, Young
    <3> QED
      BY <1>4, <3>2, <3>3 DEF Same
  <2> QED
    BY <1>4, <2>1, <2>2, <2>3 DEF Same, SameStage, Exact, Alike
<1>5. CASE Begins(r)
  <2>1. Known(r)' = 0 /\ sent' = 0 /\ rounds'[r] = NoEntry
    BY <1>1, <1>2, <1>5 DEF Begins, Entry
  <2> QED
    BY <1>3, <2>1 DEF Exact, Young
<1>6. CASE Sends(r)
  <2>1. Known(r)' = Known(r) + 1 /\ rounds'[r] = rounds[r] /\ Sending(r) /\ sent' = sent + 1
    <3>1. rounds'[r] = rounds[r] /\ Sending(r) /\ sent' = sent + 1 /\ Out(r)' = Out(r) + 1
      BY <1>6 DEF Sends
    <3> QED
      BY <1>1, <1>2, <3>1
  <2>2. passAge' = passAge /\ ~rounds[r].fin
    BY <1>6 DEF Sends, Entry
  <2> QED
    BY <2>1, <2>2 DEF Exact, Young
<1>7. CASE Drops(r)
  <2>1. ~Sending(r)' /\ rounds'[r] = NoEntry
    BY <1>1, <1>7 DEF Drops, SameStage, Exact, Young
  <2> QED
    BY <1>3, <2>1 DEF Exact, Young
<1>8. CASE Ends(r)
  <2>1. Sending(r) /\ ~Sending(r)' /\ Known(r) = sent /\ ~rounds[r].fin
    BY <1>8 DEF Ends, Exact, Entry
  <2>2. CASE rounds'[r] = rounds[r] \/ rounds'[r] = NoEntry
    BY <1>3, <2>1, <2>2 DEF Exact, Young
  <2>3. ASSUME NEW a \in Ages,
               rounds'[r] = [rounds[r] EXCEPT !.open = TRUE, !.expected = sent, !.fin = TRUE, !.age = a]
        PROVE  Exact(r)'
    <3>1. rounds'[r].expected = sent /\ rounds'[r].succeeded = rounds[r].succeeded
          /\ rounds'[r].missed = rounds[r].missed
      BY <1>1, <2>3 DEF EntryType
    <3>2. Known(r)' = sent
      BY <1>1, <1>2, <1>8, <2>1, <3>1 DEF Ends
    <3> QED
      BY <2>1, <3>1, <3>2 DEF Exact, Young
  <2> QED
    BY <1>8, <2>2, <2>3 DEF Ends
<1>9. ASSUME NEW ok \in Nat, NEW missed \in Nat, Counts(r, ok, missed) PROVE Exact(r)'
  <2> DEFINE e == Recorded(rounds[r], ok, missed)
  <2>1. /\ e.open /\ e.fin = rounds[r].fin /\ e.expected = rounds[r].expected
        /\ e.succeeded = rounds[r].succeeded + ok /\ e.missed = rounds[r].missed + missed
        /\ e.age = rounds[r].age
    <3>1. ~rounds[r].open => e.age = 0 /\ rounds[r].age = 0
      BY <1>3 DEF Entry, Recorded, Open, NoEntry
    <3> QED
      BY <3>1, RecordedIs
  <2>2. /\ Out(r)' = Out(r) - ok - missed /\ SameStage(r) /\ passAge' = passAge
        /\ \/ Complete(e) /\ rounds'[r] = NoEntry
           \/ rounds'[r] = e
           \/ rounds'[r] = NoEntry /\ e.age = Late
    BY <1>9 DEF Counts
  <2> HIDE DEF e
  <2>3. CASE rounds'[r] = e
    <3>1. Known(r)' = Known(r)
      BY <1>1, <1>2, <2>1, <2>2, <2>3
    <3>2. Young(r)'
      <4>1. rounds[r].open \/ rounds[r].age = 0
        BY <1>3 DEF Entry
      <4> QED
        BY <1>1, <2>1, <2>2, <2>3, <4>1 DEF SameStage, Exact, Young
    <3> QED
      BY <2>1, <2>2, <2>3, <3>1, <3>2 DEF SameStage, Exact
  <2>4. CASE rounds'[r] = NoEntry /\ ~Sending(r)'
    BY <1>3, <2>4 DEF Exact, Young
  <2>5. CASE rounds'[r] = NoEntry /\ Sending(r)'
    <3>1. Sending(r) /\ ~rounds[r].fin
      BY <2>2, <2>5 DEF SameStage, Entry
    <3>2. ~Complete(e)
      BY <2>1, <3>1 DEF Complete
    <3>3. rounds[r].open \/ rounds[r].age = 0
      BY <1>3 DEF Entry
    <3>4. e.age # Late
      BY <1>1, <2>1, <3>1, <3>3 DEF Exact, Young
    <3>5. e.open /\ ~NoEntry.open
      BY <1>3, <2>1
    <3> QED
      BY <2>2, <2>5, <3>2, <3>4, <3>5
  <2> QED
    BY <2>2, <2>3, <2>4, <2>5
<1> QED
  BY <1>4, <1>5, <1>6, <1>7, <1>8, <1>9 DEF Effect

(* RoundBalance: with no pass of the prober as long as the leak guard, a   *)
(* finalized entry has counted every probe of its round that is not pending *)
(* (prober.go:191): sends, pongs, sweeps and map changes in any order.     *)
THEOREM BalanceAlways == ASSUME MaxPass < Late PROVE Spec => []RoundBalance
<1> DEFINE E == \A r \in Rounds : Exact(r)
<1>1. ASSUME Init PROVE E
  <2>1. IsFiniteSet({}) /\ Cardinality({}) = 0
    BY FS_EmptySet
  <2>2. \A r \in Rounds : Outstanding(r) = {}
    BY <1>1 DEF Init, Outstanding
  <2> QED
    BY <1>1, <2>1, <2>2 DEF Init, Exact, Known, Sending, Young, NoEntry
<1>2. ASSUME IInv, E, [Next]_vars PROVE E'
  <2>1. Moves
    BY <1>2, EveryMove
  <2>2. Types /\ Types' /\ \A r \in Rounds : Entry(r) /\ Effect(r)
    BY <1>2, <2>1 DEF IInv, Moves
  <2>3. \A r \in Rounds : Exact(r)'
    BY <1>2, <2>2, ExactKept
  <2> QED
    BY <2>3
<1>3. IInv /\ E => RoundBalance
  BY Typed DEF RoundBalance, Exact
<1> HIDE DEF E
<1> QED
  BY <1>1, <1>2, <1>3, IInvAlways, PTL DEF Spec

-----------------------------------------------------------------------------
(* The promise is kept, step by step. *)
Sets == [st : Promise!RoundStates, out : Nat, good : BOOLEAN]
Stage(r) == IF r > counter THEN "new"
            ELSE IF Sending(r) /\ Known(r) = sent THEN "sending"
            ELSE IF rounds[r].fin /\ Known(r) = rounds[r].expected THEN "open" ELSE "lost"

(* What a round's abstract state is, case by case. *)
LEMMA StateIs ==
  ASSUME NEW r
  PROVE  /\ verdict[r] # "none" =>
              RoundState(r) = [st |-> "reported", out |-> Out(r), good |-> verdict[r] = "success"]
         /\ verdict[r] = "none" /\ Stage(r) = "lost" =>
              RoundState(r) = [st |-> "lost", out |-> 0, good |-> FALSE]
         /\ verdict[r] = "none" /\ Stage(r) # "lost" =>
              RoundState(r) = [st |-> Stage(r), out |-> Out(r), good |-> rounds[r].succeeded > 0]
BY DEF RoundState, Stage, Out

(* The abstract states are the promise's. *)
LEMMA StateTyped == Types => \A r \in Rounds : RoundState(r) \in Sets
<1> SUFFICES ASSUME Types, NEW r \in Rounds PROVE RoundState(r) \in Sets
  OBVIOUS
<1>1. Out(r) \in Nat
  BY OutFinite DEF Out
<1>2. Stage(r) \in {"new", "sending", "open", "lost"}
  BY DEF Stage
<1> HIDE DEF Stage
<1>3. \A n \in Nat, g \in BOOLEAN, s \in {"new", "sending", "open", "lost", "reported"} :
         [st |-> s, out |-> n, good |-> g] \in Sets
  BY DEF Sets, Promise!RoundStates
<1>4. (verdict[r] = "success") \in BOOLEAN /\ (rounds[r].succeeded > 0) \in BOOLEAN
  OBVIOUS
<1>5. CASE verdict[r] # "none"
  BY <1>1, <1>3, <1>4, <1>5, StateIs
<1>6. CASE verdict[r] = "none" /\ Stage(r) # "lost"
  BY <1>1, <1>2, <1>3, <1>4, <1>6, StateIs
<1>7. CASE verdict[r] = "none" /\ Stage(r) = "lost"
  BY <1>3, <1>7, StateIs
<1> QED
  BY <1>5, <1>6, <1>7

State(s, n, g) == [st |-> s, out |-> n, good |-> g]

(* The promise's steps, on the states the rounds take. *)
LEMMA BeginOrSend ==
  ASSUME NEW n \in Nat, NEW g \in BOOLEAN
  PROVE  /\ Promise!RoundStep(State("new", 0, g), State("sending", 0, g))
         /\ Promise!RoundStep(State("sending", n, g), State("sending", n + 1, g))
BY DEF State, Promise!RoundStep, Promise!Begin, Promise!Send

(* Sends over, with probes out or without; and a round lost. *)
LEMMA CloseOrLose ==
  ASSUME NEW n \in Nat, NEW g \in BOOLEAN, NEW s \in {"sending", "open"}
  PROVE  /\ n > 0 => Promise!RoundStep(State("sending", n, g), State("open", n, g))
         /\ Promise!RoundStep(State("sending", 0, g), State("reported", 0, g))
         /\ Promise!RoundStep(State(s, n, g), State("lost", 0, FALSE))
<1>1. n > 0 => Promise!Close(State("sending", n, g), State("open", n, g))
  BY DEF State, Promise!Close, Promise!Settled
<1>2. Promise!Close(State("sending", 0, g), State("reported", 0, g))
  BY DEF State, Promise!Close, Promise!Settled
<1>3. Promise!Lose(State(s, n, g), State("lost", 0, FALSE))
  BY DEF State, Promise!Lose
<1> QED
  BY <1>1, <1>2, <1>3 DEF Promise!RoundStep

(* One answer or some misses; the last of an open round reports it. *)
LEMMA AnswerOrMiss ==
  ASSUME NEW n \in Nat, NEW g \in BOOLEAN, NEW ok \in Nat, NEW missed \in Nat, ok + missed > 0,
         ok = 0 \/ (ok = 1 /\ missed = 0), ok + missed <= n
  PROVE  LET h == g \/ ok > 0
             m == n - ok - missed IN
         /\ Promise!RoundStep(State("sending", n, g), State("sending", m, h))
         /\ m > 0 => Promise!RoundStep(State("open", n, g), State("open", m, h))
         /\ m = 0 => Promise!RoundStep(State("open", n, g), State("reported", 0, h))
<1> DEFINE h == g \/ ok > 0
           m == n - ok - missed
<1>1. CASE ok = 1 /\ missed = 0
  <2>1. h = TRUE /\ m = n - 1 /\ n > 0 /\ h \in BOOLEAN
    BY <1>1
  <2> HIDE DEF h, m
  <2>2. Promise!Answer(State("sending", n, g), State("sending", m, h))
    BY <2>1 DEF State, Promise!Answer, Promise!Settled
  <2>3. m > 0 => Promise!Answer(State("open", n, g), State("open", m, h))
    <3> DEFINE s == State("open", n, g)
               f == [s EXCEPT !.out = @ - 1, !.good = TRUE]
    <3>1. s \in [st : {"open"}, out : Nat, good : BOOLEAN] /\ s.st = "open" /\ s.out = n
      BY DEF State
    <3>2. State("open", m, TRUE) \in [st : {"open"}, out : Nat, good : BOOLEAN]
          /\ State("open", m, TRUE).out = m /\ State("open", m, TRUE).good = TRUE
      BY <2>1 DEF State
    <3> HIDE DEF s
    <3>3. f \in [st : {"open"}, out : Nat, good : BOOLEAN] /\ f.out = m /\ f.good = TRUE
      <4>1. m \in Nat /\ n - 1 = m
        BY <2>1
      <4>2. f.out = m
        BY <3>1, <4>1
      <4>3. f.good = TRUE
        BY <3>1
      <4>4. f \in [st : {"open"}, out : Nat, good : BOOLEAN]
        BY <3>1, <4>1
      <4> QED
        BY <4>2, <4>3, <4>4
    <3>4. f = State("open", m, TRUE)
      BY <3>2, <3>3
    <3>5. m > 0 => Promise!Settled(f) = f
      BY <2>1, <3>3 DEF Promise!Settled
    <3>6. m > 0 => Promise!Answer(s, State("open", m, TRUE))
      BY <2>1, <3>1, <3>4, <3>5 DEF Promise!Answer
    <3> QED
      BY <2>1, <3>6 DEF s
  <2>4. m = 0 => Promise!Answer(State("open", n, g), State("reported", 0, h))
    BY <2>1 DEF State, Promise!Answer, Promise!Settled
  <2> QED
    BY <2>2, <2>3, <2>4 DEF Promise!RoundStep, h, m
<1>2. CASE ok = 0
  <2>1. h = g /\ m = n - missed /\ missed \in 1..n /\ h \in BOOLEAN /\ m \in Nat
    BY <1>2
  <2> HIDE DEF h, m
  <2>2. Promise!Miss(State("sending", n, g), State("sending", m, h))
    BY <2>1 DEF State, Promise!Miss, Promise!Settled
  <2>3. m > 0 => Promise!Miss(State("open", n, g), State("open", m, h))
    <3>1. [State("open", n, g) EXCEPT !.out = @ - missed] = State("open", m, h)
      BY <2>1 DEF State
    <3>2. m > 0 => Promise!Settled(State("open", m, h)) = State("open", m, h)
      BY DEF State, Promise!Settled
    <3>3. State("open", n, g).st = "open" /\ State("open", n, g).out = n
      BY DEF State
    <3> QED
      BY <2>1, <3>1, <3>2, <3>3 DEF Promise!Miss
  <2>4. m = 0 => Promise!Miss(State("open", n, g), State("reported", 0, h))
    BY <2>1 DEF State, Promise!Miss, Promise!Settled
  <2> QED
    BY <2>2, <2>3, <2>4 DEF Promise!RoundStep, h, m
<1> QED
  BY <1>1, <1>2

(* Every effect of a step on a round is a step of the promise or none. *)
LEMMA StepPromised ==
  ASSUME Types, Types', Pass, Pass', NEW r \in Rounds, Entry(r), Entry(r)', Effect(r)
  PROVE  RoundState(r)' = RoundState(r) \/ Promise!RoundStep(RoundState(r), RoundState(r)')
<1>1. /\ Known(r) = rounds[r].succeeded + rounds[r].missed + Out(r)
      /\ rounds[r].succeeded \in Nat /\ rounds[r].missed \in Nat /\ rounds[r].expected \in Nat
      /\ Out(r) \in Nat /\ sent \in Nat /\ rounds[r] \in EntryType /\ Known(r) \in Nat
      /\ counter \in Nat /\ r \in Nat
  <2>1. sent \in Nat /\ counter \in Nat /\ r \in Nat
    BY Consts DEF Types, Rounds
  <2> QED
    BY <2>1, EntryIs DEF Out
<1>2. Known(r)' = rounds'[r].succeeded + rounds'[r].missed + Out(r)'
  BY DEF Known, Out
<1>3. ~NoEntry.open /\ ~NoEntry.fin /\ NoEntry.succeeded = 0 /\ NoEntry.missed = 0
  BY DEF NoEntry
<1>4. /\ verdict'[r] # "none" =>
           RoundState(r)' = [st |-> "reported", out |-> Out(r)', good |-> verdict'[r] = "success"]
      /\ verdict'[r] = "none" /\ Stage(r)' = "lost" =>
           RoundState(r)' = [st |-> "lost", out |-> 0, good |-> FALSE]
      /\ verdict'[r] = "none" /\ Stage(r)' # "lost" =>
           RoundState(r)' = [st |-> Stage(r)', out |-> Out(r)', good |-> rounds'[r].succeeded > 0]
  BY DEF RoundState, Stage, Out
<1>5. Stage(r)' = IF r > counter' THEN "new"
                  ELSE IF Sending(r)' /\ Known(r)' = sent' THEN "sending"
                  ELSE IF rounds'[r].fin /\ Known(r)' = rounds'[r].expected THEN "open" ELSE "lost"
  BY DEF Stage
<1>6. Sending(r) => ~(r > counter)
  BY <1>1 DEF Sending
<1>7. Sending(r)' => ~(r > counter')
  <2>1. counter' \in Nat
    BY DEF Types
  <2> QED
    BY <1>1, <2>1 DEF Sending
<1> HIDE DEF Out, Known, Sending, NoEntry, RoundState
<1>8. CASE Same(r)
  <2>1. Alike(rounds[r], rounds'[r]) /\ Out(r)' = Out(r) /\ verdict'[r] = verdict[r] /\ SameStage(r)
    BY <1>8 DEF Same, Alike
  <2>2. Known(r)' = Known(r) /\ rounds'[r].succeeded = rounds[r].succeeded
    BY <1>1, <1>2, <2>1 DEF Alike
  <2>3. Stage(r)' = Stage(r)
    BY <1>5, <2>1, <2>2 DEF Stage, SameStage, Alike
  <2> HIDE DEF Stage
  <2>4. RoundState(r)' = RoundState(r)
    BY <1>4, <2>1, <2>2, <2>3, StateIs
  <2> QED
    BY <2>4
<1>9. CASE Begins(r)
  <2>1. /\ r > counter /\ ~(r > counter') /\ verdict[r] = "none" /\ verdict'[r] = "none"
        /\ rounds[r] = NoEntry /\ rounds'[r] = NoEntry /\ Known(r) = 0 /\ Out(r) = 0 /\ Out(r)' = 0
        /\ Sending(r)' /\ sent' = 0
    BY <1>1, <1>7, <1>9 DEF Begins, Entry
  <2>2. Known(r)' = 0
    BY <1>2, <1>3, <2>1
  <2>3. Stage(r) = "new" /\ Stage(r)' = "sending" /\ (NoEntry.succeeded > 0) = FALSE
    BY <1>3, <1>5, <2>1, <2>2 DEF Stage
  <2> HIDE DEF Stage
  <2>4. RoundState(r) = State("new", 0, FALSE) /\ RoundState(r)' = State("sending", 0, FALSE)
    BY <1>4, <2>1, <2>3, StateIs DEF State
  <2> QED
    BY <2>4, BeginOrSend
<1>10. CASE Sends(r)
  <2>1. /\ Sending(r) /\ Sending(r)' /\ verdict[r] = "none" /\ verdict'[r] = "none"
        /\ sent' = sent + 1 /\ rounds'[r] = rounds[r] /\ Out(r)' = Out(r) + 1 /\ ~rounds[r].fin
    BY <1>10 DEF Sends, Entry
  <2>2. Known(r)' = Known(r) + 1
    BY <1>1, <1>2, <2>1
  <2> DEFINE g == rounds[r].succeeded > 0
  <2>3. CASE Known(r) = sent
    <3>1. Stage(r) = "sending" /\ Stage(r)' = "sending"
      BY <1>5, <1>6, <1>7, <2>1, <2>2, <2>3 DEF Stage
    <3> HIDE DEF Stage
    <3>2. RoundState(r) = State("sending", Out(r), g) /\ RoundState(r)' = State("sending", Out(r) + 1, g)
      BY <1>4, <2>1, <3>1, StateIs DEF State
    <3>3. g \in BOOLEAN
      OBVIOUS
    <3> HIDE DEF g
    <3> QED
      BY <1>1, <3>2, <3>3, BeginOrSend
  <2>4. CASE Known(r) # sent
    <3>1. Stage(r) = "lost" /\ Stage(r)' = "lost"
      BY <1>1, <1>5, <1>6, <1>7, <2>1, <2>2, <2>4 DEF Stage
    <3> HIDE DEF Stage
    <3>2. RoundState(r)' = RoundState(r)
      BY <1>4, <2>1, <3>1, StateIs
    <3> QED
      BY <3>2
  <2> QED
    BY <2>3, <2>4
(* An entry dropped takes the round to lost, or leaves what was reported.  *)
<1>11. ASSUME rounds'[r] = NoEntry, verdict'[r] = verdict[r], SameStage(r), rounds[r].open \/ Out(r) > Out(r)',
              Out(r)' <= Out(r), Out(r)' \in Nat
       PROVE  RoundState(r)' = RoundState(r) \/ Promise!RoundStep(RoundState(r), RoundState(r)')
  <2>1. ~(r > counter) /\ ~(r > counter')
    <3>1. r > counter => ~rounds[r].open /\ Known(r) = 0
      BY <1>3 DEF Entry
    <3>2. r > counter => Out(r) = 0
      BY <1>1, <3>1
    <3>3. ~(r > counter)
      BY <1>1, <1>11, <3>1, <3>2
    <3> QED
      BY <1>11, <3>3 DEF SameStage
  <2>2. CASE verdict[r] # "none"
    <3>1. Out(r) = 0 /\ Out(r)' = 0
      BY <1>1, <1>11, <2>2 DEF Entry
    <3>2. RoundState(r)' = RoundState(r)
      BY <1>4, <1>11, <2>2, <3>1, StateIs
    <3> QED
      BY <3>2
  <2>3. CASE verdict[r] = "none"
    <3>1. Stage(r)' = "lost"
      <4>1. Sending(r)' => Known(r)' < sent'
        <5>1. Known(r)' = Out(r)'
          BY <1>2, <1>3, <1>11
        <5>2. Sending(r) => Known(r)' < Known(r)
          BY <1>1, <1>11, <5>1 DEF Entry
        <5>3. Sending(r) => Known(r) <= sent
          BY DEF Entry
        <5> QED
          BY <1>1, <1>11, <5>1, <5>2, <5>3 DEF SameStage
      <4>2. Known(r)' \in Nat /\ sent' \in Nat
        BY <1>2, <1>3, <1>11 DEF Types
      <4> QED
        BY <1>3, <1>5, <1>11, <2>1, <4>1, <4>2
    <3>2. Stage(r) \in {"sending", "open", "lost"}
      BY <2>1 DEF Stage
    <3> HIDE DEF Stage
    <3>3. RoundState(r)' = State("lost", 0, FALSE)
      BY <1>4, <1>11, <2>3, <3>1 DEF State
    <3>4. CASE Stage(r) = "lost"
      BY <2>3, <3>3, <3>4, StateIs DEF State
    <3>5. CASE Stage(r) \in {"sending", "open"}
      <4> DEFINE g == rounds[r].succeeded > 0
      <4>1. RoundState(r) = State(Stage(r), Out(r), g) /\ g \in BOOLEAN
        BY <2>3, <3>5, StateIs DEF State
      <4> HIDE DEF g
      <4> QED
        BY <1>1, <3>3, <3>5, <4>1, CloseOrLose
    <3> QED
      BY <3>2, <3>4, <3>5
  <2> QED
    BY <2>2, <2>3
<1>12. CASE Drops(r)
  BY <1>1, <1>11, <1>12 DEF Drops
<1> DEFINE g == rounds[r].succeeded > 0
<1>13. g \in BOOLEAN
  OBVIOUS
<1>14. CASE Ends(r)
  <2>1. /\ Sending(r) /\ ~Sending(r)' /\ Out(r)' = Out(r) /\ verdict[r] = "none" /\ ~rounds[r].fin
        /\ Known(r) <= sent /\ ~(r > counter) /\ ~(r > counter')
    BY <1>6, <1>14 DEF Ends, Entry
  <2>2. Stage(r) = IF Known(r) = sent THEN "sending" ELSE "lost"
    BY <2>1 DEF Stage
  <2>3. Known(r) = sent => RoundState(r) = State("sending", Out(r), g)
    BY <2>1, <2>2, StateIs DEF State
  <2>4. Known(r) # sent => RoundState(r) = State("lost", 0, FALSE)
    BY <2>1, <2>2, StateIs DEF State
  <2> HIDE DEF g
  <2>5. CASE sent = 0 /\ rounds'[r] = rounds[r] /\ verdict'[r] = verdict[r]
    <3>1. Known(r) = sent
      BY <1>1, <2>1, <2>5
    <3>2. Stage(r)' = "lost"
      BY <1>5, <2>1, <2>5
    <3> HIDE DEF Stage
    <3>3. RoundState(r)' = State("lost", 0, FALSE)
      BY <1>4, <2>1, <2>5, <3>2 DEF State
    <3> QED
      BY <1>1, <1>13, <2>3, <3>1, <3>3, CloseOrLose
  <2>6. ASSUME NEW a \in Ages, sent > 0,
               LET e == [rounds[r] EXCEPT !.open = TRUE, !.expected = sent, !.fin = TRUE, !.age = a] IN
               \/ Complete(e) /\ rounds'[r] = NoEntry /\ verdict'[r] = Outcome(e)
               \/ ~Complete(e) /\ rounds'[r] = e /\ verdict'[r] = verdict[r]
        PROVE  RoundState(r)' = RoundState(r) \/ Promise!RoundStep(RoundState(r), RoundState(r)')
    <3> DEFINE e == [rounds[r] EXCEPT !.open = TRUE, !.expected = sent, !.fin = TRUE, !.age = a]
    <3>1. /\ e.fin /\ e.expected = sent
          /\ e.succeeded = rounds[r].succeeded /\ e.missed = rounds[r].missed
      BY <1>1 DEF EntryType
    <3>2. \/ Complete(e) /\ rounds'[r] = NoEntry /\ verdict'[r] = Outcome(e)
          \/ ~Complete(e) /\ rounds'[r] = e /\ verdict'[r] = verdict[r]
      BY <2>6
    <3> HIDE DEF e
    <3>3. CASE Complete(e) /\ verdict'[r] = Outcome(e)
      <4>1. Known(r) = sent /\ Out(r) = 0
        BY <1>1, <2>1, <3>1, <3>3 DEF Complete
      <4>2. verdict'[r] # "none" /\ (verdict'[r] = "success") = g
        BY <3>1, <3>3 DEF Outcome, g
      <4>3. RoundState(r)' = State("reported", 0, g)
        BY <1>4, <2>1, <4>1, <4>2 DEF State
      <4> QED
        BY <1>1, <1>13, <2>3, <4>1, <4>3, CloseOrLose
    <3>4. CASE ~Complete(e) /\ rounds'[r] = e /\ verdict'[r] = verdict[r]
      <4>1. Known(r)' = Known(r) /\ rounds'[r].fin /\ rounds'[r].expected = sent
            /\ (rounds'[r].succeeded > 0) = g
        BY <1>1, <1>2, <2>1, <3>1, <3>4 DEF g
      <4>2. CASE Known(r) = sent
        <5>1. Out(r) > 0
          BY <1>1, <3>1, <3>4, <4>2 DEF Complete
        <5>2. Stage(r)' = "open"
          BY <1>5, <2>1, <4>1, <4>2
        <5> HIDE DEF Stage
        <5>3. RoundState(r)' = State("open", Out(r), g)
          BY <1>4, <2>1, <3>4, <4>1, <5>2 DEF State
        <5> QED
          BY <1>1, <1>13, <2>3, <4>2, <5>1, <5>3, CloseOrLose
      <4>3. CASE Known(r) # sent
        <5>1. Stage(r)' = "lost"
          BY <1>5, <2>1, <4>1, <4>3
        <5> HIDE DEF Stage
        <5>2. RoundState(r)' = State("lost", 0, FALSE)
          BY <1>4, <2>1, <3>4, <5>1 DEF State
        <5> QED
          BY <2>4, <4>3, <5>2
      <4> QED
        BY <4>2, <4>3
    <3> QED
      BY <3>2, <3>3, <3>4
  <2> QED
    BY <1>14, <2>5, <2>6 DEF Ends
<1>15. ASSUME NEW ok \in Nat, NEW missed \in Nat, Counts(r, ok, missed), ok = 0 \/ (ok = 1 /\ missed = 0)
       PROVE  RoundState(r)' = RoundState(r) \/ Promise!RoundStep(RoundState(r), RoundState(r)')
  <2> DEFINE e == Recorded(rounds[r], ok, missed)
             h == g \/ ok > 0
             m == Out(r) - ok - missed
  <2>1. /\ e.open /\ e.fin = rounds[r].fin /\ e.expected = rounds[r].expected
        /\ e.succeeded = rounds[r].succeeded + ok /\ e.missed = rounds[r].missed + missed
    BY RecordedIs
  <2>2. /\ ok + missed > 0 /\ Out(r)' = m /\ SameStage(r)
        /\ \/ Complete(e) /\ rounds'[r] = NoEntry /\ verdict'[r] = Outcome(e)
           \/ /\ ~Complete(e) /\ verdict'[r] = verdict[r]
              /\ rounds'[r] = e \/ rounds'[r] = NoEntry
    BY <1>15 DEF Counts
  <2>3. Out(r)' \in Nat
    <3>1. Outstanding(r)' \subseteq pending'
      BY DEF Outstanding
    <3> QED
      BY <3>1, FS_Subset, FS_CardinalityType DEF Types, Out
  <2>4. m \in Nat /\ ok + missed <= Out(r) /\ Out(r) > Out(r)' /\ Known(r) > 0
    BY <1>1, <2>2, <2>3
  <2>5. verdict[r] = "none" /\ ~(r > counter) /\ ~(r > counter')
    BY <2>2, <2>4 DEF Entry, SameStage
  <2>6. (e.succeeded > 0) = h /\ h \in BOOLEAN
    BY <1>1, <2>1
  <2> HIDE DEF e, h, m, g
  <2>7. /\ Promise!RoundStep(State("sending", Out(r), g), State("sending", m, h))
        /\ m > 0 => Promise!RoundStep(State("open", Out(r), g), State("open", m, h))
        /\ m = 0 => Promise!RoundStep(State("open", Out(r), g), State("reported", 0, h))
    BY <1>1, <1>13, <1>15, <2>2, <2>4, AnswerOrMiss DEF h, m
  <2>8. Stage(r) \in {"sending", "open", "lost"}
    BY <2>5 DEF Stage
  <2>9. Stage(r) # "lost" => RoundState(r) = State(Stage(r), Out(r), g)
    BY <2>5, StateIs DEF State, g
  <2>10. Stage(r) = "lost" => RoundState(r) = State("lost", 0, FALSE)
    BY <2>5, StateIs DEF State
  <2>11. CASE ~Complete(e) /\ rounds'[r] = e /\ verdict'[r] = verdict[r]
    <3>1. Known(r)' = Known(r)
      BY <1>1, <1>2, <2>1, <2>2, <2>11 DEF m
    <3>2. Stage(r)' = Stage(r)
      BY <1>5, <2>1, <2>2, <2>11, <3>1 DEF Stage, SameStage
    <3>3. Stage(r) = "open" => m > 0
      <4>1. Stage(r) = "open" => rounds[r].fin /\ Known(r) = rounds[r].expected
        BY DEF Stage
      <4>2. Known(r) = e.succeeded + e.missed + m
        BY <1>1, <2>1 DEF m
      <4> QED
        BY <1>1, <2>1, <2>4, <2>11, <4>1, <4>2 DEF Complete
    <3> HIDE DEF Stage
    <3>4. Stage(r) # "lost" => RoundState(r)' = State(Stage(r), m, h)
      BY <1>4, <2>2, <2>5, <2>6, <2>11, <3>2 DEF State
    <3>5. Stage(r) = "lost" => RoundState(r)' = State("lost", 0, FALSE)
      BY <1>4, <2>5, <2>11, <3>2 DEF State
    <3> QED
      BY <2>7, <2>8, <2>9, <2>10, <3>3, <3>4, <3>5
  <2>12. CASE Complete(e) /\ verdict'[r] = Outcome(e)
    <3>1. rounds[r].fin /\ ~Sending(r) /\ Known(r) = rounds[r].expected /\ m = 0
      <4>1. rounds[r].fin /\ e.succeeded + e.missed >= rounds[r].expected
        BY <2>1, <2>12 DEF Complete
      <4>2. ~Sending(r) /\ Known(r) <= rounds[r].expected
        BY <4>1 DEF Entry
      <4>3. Known(r) = e.succeeded + e.missed + m
        BY <1>1, <2>1 DEF m
      <4> QED
        BY <1>1, <2>1, <2>4, <4>1, <4>2, <4>3
    <3>2. Stage(r) = "open"
      BY <2>5, <3>1 DEF Stage
    <3> HIDE DEF Stage
    <3>3. verdict'[r] # "none" /\ (verdict'[r] = "success") = h
      BY <2>6, <2>12 DEF Outcome
    <3>4. RoundState(r)' = State("reported", 0, h)
      BY <1>4, <2>2, <3>1, <3>3 DEF State
    <3> QED
      BY <2>7, <2>9, <3>1, <3>2, <3>4
  <2>13. CASE rounds'[r] = NoEntry /\ verdict'[r] = verdict[r]
    BY <1>1, <1>11, <2>2, <2>3, <2>4, <2>13
  <2> QED
    BY <2>2, <2>11, <2>12, <2>13
<1>16. \A n \in Nat : Counts(r, 0, n) => RoundState(r)' = RoundState(r) \/ Promise!RoundStep(RoundState(r), RoundState(r)')
  BY <1>15
<1>17. Counts(r, 1, 0) => RoundState(r)' = RoundState(r) \/ Promise!RoundStep(RoundState(r), RoundState(r)')
  BY <1>15
<1> QED
  BY <1>8, <1>9, <1>10, <1>12, <1>14, <1>16, <1>17 DEF Effect

(* KeepsPromise: rounds are reported as types.go:124 promises, once, only  *)
(* after all of their probes, and as a success exactly when one was        *)
(* answered, however long a pass takes and whatever is lost or late.       *)
THEOREM PromiseKept == Spec => KeepsPromise
<1>1. Init => Promise!Init
  <2> SUFFICES ASSUME Init PROVE Promise!Init
    OBVIOUS
  <2>1. IsFiniteSet({}) /\ Cardinality({}) = 0
    BY FS_EmptySet
  <2>2. \A r \in Rounds : Out(r) = 0 /\ r > counter /\ verdict[r] = "none" /\ rounds[r].succeeded = 0
    BY <2>1, Consts DEF Init, Out, Outstanding, Rounds, NoEntry
  <2>3. ASSUME NEW r \in Rounds PROVE RoundState(r) = Promise!New
    <3>1. Stage(r) = "new" /\ (rounds[r].succeeded > 0) = FALSE
      BY <2>2 DEF Stage
    <3> HIDE DEF Stage
    <3> QED
      BY <2>2, <3>1, StateIs DEF Promise!New
  <2> QED
    BY <2>3 DEF Promise!Init, Promise!Rounds, Rounds
<1>2. IInv /\ [Next]_vars => [Promise!Next]_([r \in Rounds |-> RoundState(r)])
  <2> SUFFICES ASSUME IInv, [Next]_vars PROVE Promise!Next
    OBVIOUS
  <2>1. Moves /\ IInv'
    BY EveryMove, StepIInv
  <2>2. /\ Types /\ Types' /\ Pass /\ Pass'
        /\ \A r \in Rounds : Entry(r) /\ Entry(r)' /\ Effect(r)
    BY <2>1 DEF IInv, Moves
  <2>3. \A r \in Rounds : RoundState(r)' = RoundState(r) \/ Promise!RoundStep(RoundState(r), RoundState(r)')
    BY <2>2, StepPromised
  <2>4. (\A r \in Rounds : RoundState(r) \in Sets)'
    <3>1. Types'
      BY <2>2
    <3> QED
      BY <3>1, StateTyped, PTL
  <2> QED
    BY <2>3, <2>4 DEF Promise!Next, Promise!Rounds, Rounds, Sets
<1> QED
  BY <1>1, <1>2, IInvAlways, PTL DEF Spec, KeepsPromise, Promise!Spec
=============================================================================
