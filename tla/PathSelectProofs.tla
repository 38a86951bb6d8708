-------------------------- MODULE PathSelectProofs --------------------------
(***************************************************************************)
(* Proofs about PathSelect, for any peers, any relays and any thresholds:  *)
(* the path states are those of the map's peers, and a switch waits for    *)
(* the dwell time of a dated one, counted from its date.                   *)
(***************************************************************************)
EXTENDS PathSelect, TLAPS

(* The date a path state carries is that of its last switch. *)
DatesAgree ==
  \A p \in DOMAIN state :
    state[p].switched # Zero => since[p] = AtMost(state[p].switched, MinDwell)

(* The inductive invariant: well typed, no state without a peer, so that   *)
(* every event finds the one it is about, and dates that can be relied on. *)
IInv == TypeOK /\ StatesMatchMap /\ DatesAgree

(* What DatedSwitchesWait says of one step. *)
Waits ==
  \A p \in Peers : Switches(p) /\ state[p].switched # Zero => since[p] = MinDwell

(* How a path state may become another upon an event of the given age: a   *)
(* switch is dated as the event or not at all, and is made when the last   *)
(* one is not dated or is old enough.                                      *)
Follows(s, t, age) ==
  /\ t.path = s.path => t.switched = s.switched
  /\ t.path # s.path => /\ t.switched \in {age, Zero}
                        /\ s.switched >= MinDwell

-----------------------------------------------------------------------------
(* The invariant holds before the first map. *)
LEMMA InitIInv == Init => IInv
  BY PathAssumption
  DEF Init, IInv, TypeOK, StatesMatchMap, DatesAgree, PeerSets, Nobody, Endpoints, Loops

(* evaluateSwitchLocked keeps a path state well typed and switches it only  *)
(* as Follows says.                                                        *)
LEMMA EvaluateFollows ==
  ASSUME NEW s \in PathStates, NEW age \in 0..Undated
  PROVE  EvaluateSwitch(s, age) \in PathStates /\ Follows(s, EvaluateSwitch(s, age), age)
<1> DEFINE ev == IF age = Undated THEN FallbackAfter ELSE AtMost(age, FallbackAfter)
<1> DEFINE down == [s EXCEPT !.path = "relay", !.switched = Date(age)]
<1> DEFINE up == [s EXCEPT !.path = "direct", !.switched = Date(age), !.streak = 0,
                           !.evidence = ev]
<1>1. Date(age) \in 0..Zero /\ Date(age) \in {age, Zero} /\ 0 \in 0..DowngradeMisses
      /\ ev \in 0..FallbackAfter
  BY PathAssumption DEF Zero, Date, Undated, AtMost
<1> HIDE DEF ev
<1>2. down \in PathStates /\ up \in PathStates
  BY <1>1 DEF PathStates
<1>3. CASE Dwelling(s, age)
  BY <1>3 DEF EvaluateSwitch, Follows
<1>4. CASE ~Dwelling(s, age)
  <2>1. s.switched >= MinDwell
    <3>1. s.switched \in 0..Zero BY DEF PathStates
    <3>2. s.switched = Zero \/ ~(s.switched < MinDwell + age) BY <1>4 DEF Dwelling
    <3> QED BY <3>1, <3>2, PathAssumption DEF Zero, Undated
  <2>2. down.switched = Date(age) /\ up.switched = Date(age) BY DEF PathStates
  <2>3. CASE Downgrade(s)
    BY <1>1, <1>2, <1>4, <2>1, <2>2, <2>3 DEF EvaluateSwitch, Downgrade, Follows, PathStates
  <2>4. CASE ~Downgrade(s) /\ Upgrade(s)
    <3>1. EvaluateSwitch(s, age) = up BY <1>4, <2>4 DEF EvaluateSwitch, ev
    <3>2. up.path = "direct" /\ s.path = "relay" BY <2>4 DEF Upgrade, PathStates
    <3> QED BY <1>1, <1>2, <2>1, <2>2, <3>1, <3>2 DEF Follows
  <2>5. CASE ~Downgrade(s) /\ ~Upgrade(s)
    BY <1>4, <2>5 DEF EvaluateSwitch, Follows
  <2> QED BY <2>3, <2>4, <2>5
<1> QED BY <1>3, <1>4

(* A counter that stops at its threshold stays in its range. *)
LEMMA AtMostRange ==
  ASSUME NEW cap \in Nat, NEW n \in 0..cap
  PROVE  AtMost(n + 1, cap) \in 0..cap
  BY DEF AtMost

(* What the events change of a path state leaves it well typed, and leaves *)
(* its path and date alone.                                                *)
LEMMA SampledKeeps ==
  ASSUME NEW s \in PathStates, NEW b \in Bands
  PROVE  /\ Sampled(s, b) \in PathStates
         /\ Sampled(s, b).path = s.path /\ Sampled(s, b).switched = s.switched
  BY DEF PathStates, Sampled

LEMMA RelayCounted ==
  ASSUME NEW s \in PathStates
  PROVE  LET t == [s EXCEPT !.relay = AtMost(@ + 1, MinRTTSamples)]
         IN t \in PathStates /\ t.path = s.path /\ t.switched = s.switched
<1>1. AtMost(s.relay + 1, MinRTTSamples) \in 0..MinRTTSamples
  BY AtMostRange, PathAssumption DEF PathStates
<1> QED BY <1>1 DEF PathStates

LEMMA DirectCounted ==
  ASSUME NEW s \in PathStates, NEW age \in 0..MaxLag
  PROVE  LET t == [s EXCEPT !.direct = AtMost(@ + 1, MinRTTSamples),
                           !.evidence = AtMost(age, FallbackAfter)]
         IN t \in PathStates /\ t.path = s.path /\ t.switched = s.switched
<1>1. /\ AtMost(s.direct + 1, MinRTTSamples) \in 0..MinRTTSamples
      /\ AtMost(age, FallbackAfter) \in 0..FallbackAfter
  <2>1. AtMost(s.direct + 1, MinRTTSamples) \in 0..MinRTTSamples
    BY AtMostRange, PathAssumption DEF PathStates
  <2>2. AtMost(age, FallbackAfter) \in 0..FallbackAfter
    BY PathAssumption DEF AtMost
  <2> QED BY <2>1, <2>2
<1> QED BY <1>1 DEF PathStates

LEMMA PongRingKeeps ==
  ASSUME NEW s \in PathStates, NEW ok \in BOOLEAN
  PROVE  /\ PongRing(s, ok) \in PathStates
         /\ PongRing(s, ok).path = s.path /\ PongRing(s, ok).switched = s.switched
<1> DEFINE pongs == IF ok THEN AtMost(s.pongs + 1, UpgradePongStreak) ELSE 0
<1> DEFINE streak == IF ok THEN 0 ELSE AtMost(s.streak + 1, DowngradeMisses)
<1>1. AtMost(s.pongs + 1, UpgradePongStreak) \in 0..UpgradePongStreak
  BY AtMostRange, PathAssumption DEF PathStates
<1>2. AtMost(s.streak + 1, DowngradeMisses) \in 0..DowngradeMisses
  BY AtMostRange, PathAssumption DEF PathStates
<1>3. pongs \in 0..UpgradePongStreak /\ streak \in 0..DowngradeMisses
  BY <1>1, <1>2, PathAssumption
<1>4. PongRing(s, ok) = [s EXCEPT !.pongs = pongs, !.streak = streak]
  BY DEF PongRing
<1> HIDE DEF pongs, streak
<1> QED BY <1>3, <1>4 DEF PathStates

(* Storing a state that follows the one before keeps the invariant. *)
LEMMA StoreStep ==
  ASSUME IInv, NEW p \in Peers, Heard(p), NEW t \in PathStates, NEW need \in BOOLEAN,
         NEW age \in 0..Undated, Follows(state[p], t, age), Store(p, t, need, age)
  PROVE  IInv' /\ Waits
<1>1. p \in DOMAIN state /\ Current(p) = state[p] /\ state[p] \in PathStates
  BY DEF IInv, TypeOK, StatesMatchMap, Heard, Current
<1>2. DOMAIN state' = DOMAIN state /\ nm' = nm
  BY <1>1 DEF Store
<1>3. \A q \in DOMAIN state : state'[q] = IF q = p THEN t ELSE state[q]
  BY <1>1 DEF Store
<1>4. since' = [since EXCEPT ![p] =
                  IF t.path # state[p].path THEN AtMost(age, MinDwell) ELSE @]
  BY <1>1 DEF Store
<1>a. AtMost(age, MinDwell) \in 0..MinDwell BY PathAssumption DEF AtMost, Undated
<1>5. TypeOK'
  <2>1. since' \in [Peers -> 0..MinDwell]
    BY <1>4, <1>a DEF IInv, TypeOK
  <2>2. pc' \in [Loops -> {"idle", "recompute", "push"}]
    BY DEF IInv, TypeOK, Store, Loops
  <2> QED
    BY <1>2, <1>3, <2>1, <2>2 DEF IInv, TypeOK, Store
<1>6. StatesMatchMap'
  BY <1>2 DEF IInv, StatesMatchMap
<1>7. DatesAgree'
  <2> SUFFICES ASSUME NEW q \in DOMAIN state, state'[q].switched # Zero
               PROVE  since'[q] = AtMost(state'[q].switched, MinDwell)
    BY <1>2 DEF DatesAgree
  <2>1. q \in Peers /\ since \in [Peers -> 0..MinDwell] BY DEF IInv, TypeOK
  <2>2. CASE q # p BY <1>3, <1>4, <2>1, <2>2 DEF IInv, DatesAgree
  <2>3. CASE q = p BY <1>1, <1>3, <1>4, <2>1, <2>3 DEF IInv, DatesAgree, Follows
  <2> QED BY <2>2, <2>3
<1>8. Waits
  <2> SUFFICES ASSUME NEW q \in Peers, Switches(q), state[q].switched # Zero
               PROVE  since[q] = MinDwell
    BY DEF Waits
  <2>1. q = p BY <1>3 DEF Switches
  <2>2. state[p].switched \in 0..Zero /\ state[p].switched >= MinDwell
    BY <1>1, <1>3, <2>1 DEF Follows, Switches, PathStates
  <2> QED BY <1>1, <2>1, <2>2, PathAssumption DEF IInv, DatesAgree, AtMost, Zero
<1> QED BY <1>5, <1>6, <1>7, <1>8 DEF IInv

(* An event that leaves a well-typed state with its date and path unchanged, *)
(* and then evaluates it.                                                  *)
LEMMA HandleStep ==
  ASSUME IInv, NEW p \in Peers, Heard(p), NEW s \in PathStates, NEW age \in 0..Undated,
         s.path = state[p].path, s.switched = state[p].switched, Handle(p, s, age)
  PROVE  IInv' /\ Waits
<1> DEFINE t == EvaluateSwitch(s, age)
<1>1. t \in PathStates /\ Follows(s, t, age) BY EvaluateFollows
<1>2. Follows(state[p], t, age) BY <1>1 DEF Follows
<1>3. Store(p, t, t.path # s.path, age) BY DEF Handle
<1>4. (t.path # s.path) \in BOOLEAN OBVIOUS
<1> HIDE DEF t
<1> QED BY <1>1, <1>2, <1>3, <1>4, StoreStep

(* Every event keeps the invariant. *)
LEMMA EventStep == ASSUME IInv, OnDiscoEvent PROVE IInv' /\ Waits
<1>1. PICK p \in Peers :
        \/ PongFromPeer(p)
        \/ \E age \in 0..MaxLag :
             \/ ProbeMissed(p, age)
             \/ \E b \in Bands : RelaySample(p, b, age) \/ DirectSample(p, b, age)
        \/ \E ok \in BOOLEAN, age \in 0..Undated : RoundFinalized(p, ok, age)
  BY DEF OnDiscoEvent
<1>2. Heard(p)
  BY <1>1 DEF PongFromPeer, ProbeMissed, RelaySample, DirectSample, RoundFinalized
<1>3. Current(p) = state[p] /\ state[p] \in PathStates
  BY <1>2 DEF IInv, TypeOK, StatesMatchMap, Heard, Current
<1>a. \A age \in 0..MaxLag : age \in 0..Undated BY PathAssumption DEF Undated
<1>b. 0 \in 0..Undated BY PathAssumption DEF Undated
<1>4. CASE PongFromPeer(p)
  <2> DEFINE t == [state[p] EXCEPT !.hinted = TRUE]
  <2>1. t \in PathStates /\ Follows(state[p], t, 0) BY <1>3 DEF PathStates, Follows
  <2>2. Store(p, t, ~state[p].hinted, 0) BY <1>3, <1>4 DEF PongFromPeer
  <2>3. (~state[p].hinted) \in BOOLEAN OBVIOUS
  <2> HIDE DEF t
  <2> QED BY <1>2, <1>b, <2>1, <2>2, <2>3, StoreStep
<1>5. ASSUME NEW age \in 0..MaxLag, ProbeMissed(p, age) PROVE IInv' /\ Waits
  <2>1. Handle(p, state[p], age) BY <1>3, <1>5 DEF ProbeMissed
  <2> QED BY <1>2, <1>3, <1>a, <2>1, HandleStep
<1>6. ASSUME NEW age \in 0..MaxLag, NEW b \in Bands, RelaySample(p, b, age)
      PROVE  IInv' /\ Waits
  <2> DEFINE s == Sampled([state[p] EXCEPT !.relay = AtMost(@ + 1, MinRTTSamples)], b)
  <2>1. s \in PathStates /\ s.path = state[p].path /\ s.switched = state[p].switched
    BY <1>3, RelayCounted, SampledKeeps
  <2>2. Handle(p, s, age) BY <1>3, <1>6 DEF RelaySample
  <2> HIDE DEF s
  <2> QED BY <1>2, <1>a, <2>1, <2>2, HandleStep
<1>7. ASSUME NEW age \in 0..MaxLag, NEW b \in Bands, DirectSample(p, b, age)
      PROVE  IInv' /\ Waits
  <2> DEFINE d == [state[p] EXCEPT !.direct = AtMost(@ + 1, MinRTTSamples),
                                   !.evidence = AtMost(age, FallbackAfter)]
  <2> DEFINE s == Sampled(d, b)
  <2>0. d \in PathStates /\ d.path = state[p].path /\ d.switched = state[p].switched
    BY <1>3, DirectCounted
  <2>1. s \in PathStates /\ s.path = state[p].path /\ s.switched = state[p].switched
    <3> HIDE DEF d
    <3> QED BY <2>0, SampledKeeps
  <2>2. Handle(p, s, age) BY <1>3, <1>7 DEF DirectSample
  <2> HIDE DEF s
  <2> QED BY <1>2, <1>a, <2>1, <2>2, HandleStep
<1>8. ASSUME NEW ok \in BOOLEAN, NEW age \in 0..Undated, RoundFinalized(p, ok, age)
      PROVE  IInv' /\ Waits
  <2> DEFINE s == PongRing(state[p], ok)
  <2>1. s \in PathStates /\ s.path = state[p].path /\ s.switched = state[p].switched
    BY <1>3, PongRingKeeps
  <2>2. Handle(p, s, age) BY <1>3, <1>8 DEF RoundFinalized
  <2> HIDE DEF s
  <2> QED BY <1>2, <2>1, <2>2, HandleStep
<1> QED BY <1>1, <1>4, <1>5, <1>6, <1>7, <1>8

(* A new map: peers that stay keep their state and its date. *)
LEMMA ApplyStep == ASSUME IInv, Apply PROVE IInv' /\ Waits
<1> DEFINE new == [NewForEvent EXCEPT !.evidence = 0]
<1>1. new \in PathStates /\ new.switched = Zero
  <2>1. /\ MinDwell + MaxLag + 1 \in 0..(MinDwell + MaxLag + 1) /\ 0 \in 0..DowngradeMisses
        /\ 0 \in 0..UpgradePongStreak /\ 0 \in 0..MinRTTSamples
        /\ 0 \in 0..FallbackAfter
    BY PathAssumption
  <2> QED BY <2>1 DEF NewForEvent, PathStates, Zero, Bands
<1>2. DOMAIN state' = nm' /\ nm' \subseteq Peers
      /\ \A p \in nm' : state'[p] = IF p \in DOMAIN state THEN state[p] ELSE new
  BY DEF Apply
<1>3. \A p \in Peers : since'[p] = IF p \in DOMAIN state THEN since[p] ELSE MinDwell
  BY DEF Apply
<1> HIDE DEF new
<1>4. TypeOK'
  <2>1. since' \in [Peers -> 0..MinDwell]
    BY PathAssumption DEF IInv, TypeOK, Apply
  <2>2. pc' \in [Loops -> {"idle", "recompute", "push"}]
    BY DEF IInv, TypeOK, Apply
  <2>3. probed' \subseteq Peers BY <1>2 DEF IInv, TypeOK, Apply
  <2>4. DOMAIN state' \subseteq Peers /\ \A p \in DOMAIN state' : state'[p] \in PathStates
    BY <1>1, <1>2 DEF IInv, TypeOK
  <2> QED BY <1>2, <2>1, <2>2, <2>3, <2>4 DEF IInv, TypeOK, Apply
<1>5. StatesMatchMap' BY <1>2 DEF StatesMatchMap
<1>6. DatesAgree' BY <1>1, <1>2, <1>3 DEF IInv, DatesAgree
<1>7. Waits BY <1>2 DEF Waits, Switches
<1> QED BY <1>4, <1>5, <1>6, <1>7 DEF IInv

(* The safety net dates its switches, and makes none within a dwell. *)
LEMMA TickStep == ASSUME IInv, Tick PROVE IInv' /\ Waits
<1> DEFINE live == {p \in nm : Silent(p) /\ Progress(p)}
<1> DEFINE fall == {p \in nm : Silent(p) /\ ~Progress(p)}
<1>1. DOMAIN state' = DOMAIN state /\ nm' = nm BY DEF Tick
<1>2. \A p \in DOMAIN state : state[p] \in PathStates /\ p \in Peers
  BY DEF IInv, TypeOK
<1>3. \A p \in DOMAIN state : state'[p] =
        IF p \in live THEN [state[p] EXCEPT !.seen = TRUE]
        ELSE IF p \in fall THEN Fallback(p) ELSE state[p]
  BY DEF Tick
<1>4. \A p \in Peers : since'[p] = IF p \in fall THEN 0 ELSE since[p]
  BY DEF Tick
<1>5. \A p \in DOMAIN state :
        /\ Fallback(p) \in PathStates /\ Fallback(p).switched = 0
        /\ [state[p] EXCEPT !.seen = TRUE] \in PathStates
        /\ [state[p] EXCEPT !.seen = TRUE].switched = state[p].switched
        /\ [state[p] EXCEPT !.seen = TRUE].path = state[p].path
  <2> SUFFICES ASSUME NEW p \in DOMAIN state
               PROVE  /\ Fallback(p) \in PathStates /\ Fallback(p).switched = 0
                      /\ [state[p] EXCEPT !.seen = TRUE] \in PathStates
                      /\ [state[p] EXCEPT !.seen = TRUE].switched = state[p].switched
                      /\ [state[p] EXCEPT !.seen = TRUE].path = state[p].path
    OBVIOUS
  <2>1. state[p] \in PathStates BY <1>2
  <2>2. 0 \in 0..Zero /\ 0 \in 0..FallbackAfter BY PathAssumption DEF Zero
  <2> QED BY <2>1, <2>2 DEF Fallback, PathStates
<1>6. \A p \in fall : state[p].switched \in 0..Zero /\ state[p].switched >= MinDwell
  <2> SUFFICES ASSUME NEW p \in fall
               PROVE  state[p].switched \in 0..Zero /\ state[p].switched >= MinDwell
    OBVIOUS
  <2>1. p \in DOMAIN state BY DEF IInv, StatesMatchMap
  <2>2. state[p].switched \in 0..Zero BY <1>2, <2>1 DEF PathStates
  <2>3. state[p].switched = Zero \/ ~(state[p].switched < MinDwell + 0)
    BY DEF Silent, Dwelling
  <2> QED BY <2>2, <2>3, PathAssumption DEF Zero
<1>7. TypeOK'
  <2>1. since' \in [Peers -> 0..MinDwell]
    BY PathAssumption DEF IInv, TypeOK, Tick
  <2>2. pc' \in [Loops -> {"idle", "recompute", "push"}]
    BY DEF IInv, TypeOK, Tick
  <2>3. moved' \in [Peers -> BOOLEAN] BY DEF IInv, TypeOK, Tick
  <2>4. \A p \in DOMAIN state' : state'[p] \in PathStates
    BY <1>1, <1>2, <1>3, <1>5
  <2> QED BY <1>1, <2>1, <2>2, <2>3, <2>4 DEF IInv, TypeOK, Tick
<1> HIDE DEF live, fall
<1>8. StatesMatchMap' BY <1>1 DEF IInv, StatesMatchMap
<1>9. DatesAgree'
  <2> SUFFICES ASSUME NEW p \in DOMAIN state, state'[p].switched # Zero
               PROVE  since'[p] = AtMost(state'[p].switched, MinDwell)
    BY <1>1 DEF DatesAgree
  <2>1. fall \cap live = {} /\ AtMost(0, MinDwell) = 0
    BY PathAssumption DEF fall, live, AtMost
  <2>2. CASE p \in fall BY <1>2, <1>3, <1>4, <1>5, <2>1, <2>2
  <2>3. CASE p \notin fall BY <1>2, <1>3, <1>4, <1>5, <2>3 DEF IInv, DatesAgree
  <2> QED BY <2>2, <2>3
<1>10. Waits
  <2> SUFFICES ASSUME NEW p \in Peers, Switches(p), state[p].switched # Zero
               PROVE  since[p] = MinDwell
    BY DEF Waits
  <2>1. p \in DOMAIN state /\ state'[p].path # state[p].path BY DEF Switches
  <2>2. p \in fall BY <1>3, <1>5, <2>1
  <2> QED BY <1>6, <2>1, <2>2, PathAssumption DEF IInv, DatesAgree, AtMost, Zero
<1> QED BY <1>7, <1>8, <1>9, <1>10 DEF IInv

(* The date of a switch and its real age grow together. *)
LEMMA ClockStep == ASSUME IInv, Clock PROVE IInv' /\ Waits
<1>1. DOMAIN state' = DOMAIN state /\ nm' = nm
      /\ \A p \in DOMAIN state : state'[p] = Older(state[p])
  BY DEF Clock
<1>2. \A s \in PathStates :
        /\ Older(s) \in PathStates /\ Older(s).path = s.path
        /\ Older(s).switched = IF s.switched < MinDwell + MaxLag THEN s.switched + 1 ELSE s.switched
  <2> SUFFICES ASSUME NEW s \in PathStates
               PROVE  /\ Older(s) \in PathStates /\ Older(s).path = s.path
                      /\ Older(s).switched =
                           IF s.switched < MinDwell + MaxLag
                           THEN s.switched + 1 ELSE s.switched
    OBVIOUS
  <2>1. AtMost(s.evidence + 1, FallbackAfter) \in 0..FallbackAfter
        /\ AtMost(s.eval + 1, FallbackAfter) \in 0..FallbackAfter
    BY AtMostRange, PathAssumption DEF PathStates
  <2>2. (IF s.switched < MinDwell + MaxLag THEN s.switched + 1 ELSE s.switched) \in 0..Zero
    BY PathAssumption DEF PathStates, Zero
  <2> QED BY <2>1, <2>2 DEF Older, PathStates
<1>3. \A p \in Peers : since'[p] = AtMost(since[p] + 1, MinDwell)
                      /\ since'[p] \in 0..MinDwell
  BY AtMostRange, PathAssumption DEF IInv, TypeOK, Clock
<1>4. TypeOK'
  <2>1. since' \in [Peers -> 0..MinDwell] BY <1>3 DEF Clock
  <2> QED BY <1>1, <1>2, <2>1 DEF IInv, TypeOK, Clock
<1>5. StatesMatchMap' BY <1>1 DEF IInv, StatesMatchMap
<1>6. DatesAgree'
  <2> SUFFICES ASSUME NEW p \in DOMAIN state, state'[p].switched # Zero
               PROVE  since'[p] = AtMost(state'[p].switched, MinDwell)
    BY <1>1 DEF DatesAgree
  <2>1. p \in Peers /\ state[p] \in PathStates /\ state[p].switched \in 0..Zero
    BY DEF IInv, TypeOK, PathStates
  <2>2. state'[p].switched =
          IF state[p].switched < MinDwell + MaxLag
          THEN state[p].switched + 1 ELSE state[p].switched
    BY <1>1, <1>2, <2>1
  <2>3. state[p].switched # Zero BY <2>2, PathAssumption DEF Zero
  <2>4. since[p] = AtMost(state[p].switched, MinDwell)
    BY <2>1, <2>3 DEF IInv, DatesAgree
  <2>5. since'[p] = AtMost(since[p] + 1, MinDwell)
    BY <1>3, <2>1
  <2> QED BY <2>1, <2>2, <2>3, <2>4, <2>5, PathAssumption DEF AtMost, Zero
<1>7. Waits BY <1>1, <1>2 DEF IInv, TypeOK, Waits, Switches
<1> QED BY <1>4, <1>5, <1>6, <1>7 DEF IInv

(* The other steps leave the path states and their dates alone. *)
LEMMA QuietStep ==
  ASSUME IInv, TypeOK', UNCHANGED <<nm, state, since>>
  PROVE  IInv' /\ Waits
  BY DEF IInv, StatesMatchMap, DatesAgree, Waits, Switches

LEMMA NextStep == ASSUME IInv, [Next]_vars PROVE IInv' /\ Waits
<1>1. CASE OnDiscoEvent BY <1>1, EventStep
<1>2. CASE Apply BY <1>2, ApplyStep
<1>3. CASE Tick BY <1>3, TickStep
<1>4. CASE Clock BY <1>4, ClockStep
<1>5. ASSUME NEW g \in Loops, Recompute(g) PROVE IInv' /\ Waits
  <2>1. Wanted \in PeerSets BY DEF Wanted, PickEndpoint, PeerSets, Endpoints
  <2>2. TypeOK' BY <1>5, <2>1 DEF IInv, TypeOK, Recompute
  <2> QED BY <1>5, <2>2, QuietStep DEF Recompute
<1>6. ASSUME NEW g \in Loops, Push(g) PROVE IInv' /\ Waits
  <2>1. Nobody \in PeerSets /\ snap[g] \in PeerSets
    BY DEF IInv, TypeOK, Nobody, PeerSets, Endpoints
  <2>2. moved' \in [Peers -> BOOLEAN] BY <1>6 DEF IInv, TypeOK, Push
  <2>3. TypeOK' BY <1>6, <2>1, <2>2 DEF IInv, TypeOK, Push
  <2> QED BY <1>6, <2>3, QuietStep DEF Push
<1>7. ASSUME NEW p \in Peers, Handshake(p) PROVE IInv' /\ Waits
  <2>1. TypeOK' BY <1>7 DEF IInv, TypeOK, Handshake
  <2> QED BY <1>7, <2>1, QuietStep DEF Handshake
<1>8. ASSUME NEW p \in Peers, Block(p) PROVE IInv' /\ Waits
  <2>1. TypeOK' BY <1>8 DEF IInv, TypeOK, Block
  <2> QED BY <1>8, <2>1, QuietStep DEF Block
<1>9. CASE UNCHANGED vars
  <2>1. TypeOK' BY <1>9 DEF IInv, TypeOK, vars
  <2> QED BY <1>9, <2>1, QuietStep DEF vars
<1> QED BY <1>1, <1>2, <1>3, <1>4, <1>5, <1>6, <1>7, <1>8, <1>9 DEF Next

-----------------------------------------------------------------------------
(* The inductive invariant holds in every reachable state. *)
LEMMA Invariant == Spec => []IInv
<1>1. IInv /\ [Next]_vars => IInv' BY NextStep
<1> QED BY InitIInv, <1>1, PTL DEF Spec

(* Every reachable state of the reconciler and the engine is well typed. *)
THEOREM TypeCorrect == Spec => []TypeOK
<1>1. IInv => TypeOK BY DEF IInv
<1> QED BY Invariant, <1>1, PTL

(* The path states are exactly those of the map's peers: an event that      *)
(* outlives its peer brings nothing back (pathStateForEventLocked).        *)
THEOREM StatesMatch == Spec => []StatesMatchMap
<1>1. IInv => StatesMatchMap BY DEF IInv
<1> QED BY Invariant, <1>1, PTL

(* evaluateSwitchLocked and Tick share one date: neither makes a switch     *)
(* within MinDwell of the date of the last dated one, however late the      *)
(* events that make either are handled.                                    *)
THEOREM SwitchesWait == Spec => DatedSwitchesWait
<1>1. IInv /\ [Next]_vars =>
        [\A p \in Peers :
           Switches(p) /\ state[p].switched # Zero => since[p] = MinDwell]_vars
  BY NextStep DEF Waits
<1> QED BY Invariant, <1>1, PTL DEF Spec, DatedSwitchesWait
=============================================================================
