--------------------------- MODULE RequestProofs ---------------------------
(***************************************************************************)
(* Proofs about what a request of this device goes through.                *)
(*                                                                         *)
(* RequestRouting, for any number of requests and peers and any instance:  *)
(* the counts are exact, a peer is never sent more than it advertised to   *)
(* one of the requests let in, a pin is honoured, and a Public Share peer  *)
(* wins a round only when nothing of the user's own is ready. The          *)
(* invariant has four layers, each inductive given those before it: what   *)
(* the types are and where a request has a slot (Typed, Where, Ordered),   *)
(* what was chosen (Chosen), the slots of the places (Counts) and the      *)
(* turns of the conversations (Tallied).                                   *)
(*                                                                         *)
(* PeerWait, in the last part, for every set of wait policies and every    *)
(* horizon: how a turn's wait may end, whichever of the request, the       *)
(* watch, its timer and the client comes first (WaitInv).                  *)
(***************************************************************************)
EXTENDS RequestRouting, PeerWait, FiniteSetTheorems, WellFoundedInduction, TLAPS

(* A list of at most K elements is a sequence of them.                     *)
LEMMA ListIs ==
  ASSUME NEW S, NEW s \in Lists(S)
  PROVE  /\ Len(s) \in 0..K /\ s \in [1..Len(s) -> S] /\ DOMAIN s = 1..Len(s)
         /\ s # <<>> <=> 1 \in DOMAIN s
<1>1. PICK n \in 0..K : s \in [1..n -> S]
  BY DEF Lists
<1>2. n \in Nat
  BY BoundAssumption
<1>3. Len(s) = n
  BY <1>1, <1>2
<1> QED
  BY <1>1, <1>2, <1>3

LEMMA NoList == ASSUME NEW S PROVE <<>> \in Lists(S) /\ DOMAIN <<>> = {} /\ Len(<<>>) = 0
  BY BoundAssumption DEF Lists

-----------------------------------------------------------------------------
(* The ranking. *)

(* No place twice, and the own before the public. *)
Distinct(s) == \A i, j \in DOMAIN s : s[i] = s[j] => i = j
Orderly(c)  == \A i, j \in DOMAIN c :
                 /\ c[i].place = c[j].place => i = j
                 /\ c[i].place \notin Public /\ c[j].place \in Public => i < j

(* What is ranked keeps its places apart, the own first.                   *)
LEMMA OrdersAre ==
  ASSUME NEW r, NEW S, IsFiniteSet(S), S # {}, NEW s \in Orders(r, S)
  PROVE  \E n \in Nat \ {0} : s \in [1..n -> S] /\ Distinct(s) /\ OwnFirst(s)
<1>1. Cardinality(S) \in Nat \ {0}
  BY FS_EmptySet, FS_CardinalityType
<1>2. s \in [1..Cardinality(S) -> S] /\ Distinct(s) /\ OwnFirst(s)
  BY DEF Orders, SetToSeqs, Distinct
<1> QED
  BY <1>1, <1>2

(* The spread moves a place within its tier: every index keeps its tier.   *)
LEMMA MovedIs ==
  ASSUME NEW n \in Nat, NEW S, NEW s \in [1..n -> S], Distinct(s), OwnFirst(s),
         NEW from \in 1..n, NEW to \in 1..n, from < to, SameTier(s[to], s[from])
  PROVE  Moved(s, from, to) \in [1..n -> S] /\ Distinct(Moved(s, from, to)) /\ OwnFirst(Moved(s, from, to))
<1> DEFINE m == Moved(s, from, to)
           old(i) == IF i = to THEN from ELSE IF i \in from..to - 1 THEN i + 1 ELSE i
<1>1. DOMAIN m = 1..n /\ \A i \in 1..n : old(i) \in 1..n /\ m[i] = s[old(i)]
  BY DEF Moved
<1>2. m \in [1..n -> S]
  BY DEF Moved
<1>3. \A i, j \in 1..n : old(i) = old(j) => i = j
  OBVIOUS
<1>4. \A i \in from..to : SameTier(s[i], s[from])
  BY DEF SameTier, OwnFirst
<1>5. \A i \in 1..n : SameTier(m[i], s[i])
  BY <1>1, <1>4 DEF SameTier
<1> HIDE DEF m, old
<1>6. Distinct(m)
  BY <1>1, <1>3 DEF Distinct
<1>7. OwnFirst(m)
  BY <1>1, <1>5 DEF OwnFirst, SameTier
<1> QED
  BY <1>2, <1>6, <1>7 DEF m

(* The candidates of a round.                                             *)
LEMMA TakesIs ==
  ASSUME Typed, NEW r \in Requests, NEW n \in Nat \ {0}, NEW S \in SUBSET Places,
         NEW s \in [1..n -> S], Distinct(s), OwnFirst(s), NEW from, Takes(r, s, from)
  PROVE  \E c \in Lists(Cand) :
           /\ 1 \in DOMAIN c /\ Orderly(c) /\ \A i \in DOMAIN c : c[i].place \in S
           /\ cands' = [cands EXCEPT ![r] = c]
<1> DEFINE m == IF n <= K THEN n ELSE K
           c == [i \in 1..m |-> [place |-> s[i], cap |-> IF s[i] = Self THEN 0 ELSE cap[s[i]]]]
<1>1. K \in Nat /\ K >= 1
  BY BoundAssumption
<1>2. m \in 0..K /\ 1 \in 1..m /\ m <= n
  BY <1>1
<1>3. cands' = [cands EXCEPT ![r] = c]
  <2>1. {j \in DOMAIN s : j <= K} = 1..m
    BY <1>1
  <2> QED
    BY <2>1 DEF Takes
<1>4. \A i \in 1..m : s[i] \in S /\ s[i] \in Places
  BY <1>2
<1> HIDE DEF m
<1>5. \A i \in 1..m : c[i] \in Cand /\ c[i].place = s[i]
  BY <1>4 DEF Cand, Typed, AskTyped, RoundTyped, Places
<1>6. c \in [1..m -> Cand] /\ DOMAIN c = 1..m
  BY <1>5
<1> HIDE DEF c
<1>7. c \in Lists(Cand)
  BY <1>2, <1>6 DEF Lists
<1>8. Orderly(c)
  BY <1>2, <1>5, <1>6 DEF Orderly, Distinct, OwnFirst
<1> QED
  BY <1>2, <1>3, <1>4, <1>5, <1>6, <1>7, <1>8

(* A request leaves the ranking with nothing, or with such candidates.     *)
Ranks(r) ==
  \E c \in Lists(Cand), from \in Peers \cup {None} :
    /\ 1 \in DOMAIN c /\ Orderly(c)
    /\ pin[r] # None => \A i \in DOMAIN c : c[i].place = pin[r]
    /\ cands' = [cands EXCEPT ![r] = c] /\ spread' = [spread EXCEPT ![r] = from]
    /\ Go(r, "assign") /\ UNCHANGED <<ask, held, res, winner, at>>

LEMMA RankIs ==
  ASSUME Typed, NEW r \in Requests, Rank(r)
  PROVE  \/ End(r) /\ UNCHANGED round
         \/ Go(r, "retry") /\ UNCHANGED <<ask, round>>
         \/ Ranks(r)
<1>0. IsFiniteSet(Places)
  <2>1. IsFiniteSet(Peers \cup {Self})
    BY FiniteAssumption, FS_AddElement
  <2> QED
    BY <2>1 DEF Places
<1>1. inst.places \subseteq Places
  BY BoundAssumption DEF Typed, AskTyped, RoundTyped, Bounds
<1> SUFFICES ASSUME NEW offered \in SUBSET inst.places,
                    NEW S, S = {p \in PinAlone(r, offered) : HasRoom(p)}, S # {},
                    NEW s \in Orders(r, S),
                    \/ Takes(r, s, None)
                    \/ \E from, to \in DOMAIN s :
                         Demotes(r, s, from, to) /\ Takes(r, Moved(s, from, to), BoundTo(r))
             PROVE  Ranks(r)
  BY DEF Rank
<1>2. S \subseteq Places /\ IsFiniteSet(S)
  <2>1. S \subseteq Places
    BY <1>1 DEF PinAlone
  <2> QED
    BY <1>0, <2>1, FS_Subset
<1>3. pin[r] # None => \A p \in S : p = pin[r]
  BY DEF PinAlone
<1>4. PICK n \in Nat \ {0} : s \in [1..n -> S] /\ Distinct(s) /\ OwnFirst(s)
  BY <1>2, OrdersAre
<1>5. BoundTo(r) \in Peers \cup {None}
  BY DEF BoundTo, Typed, AskTyped, RoundTyped
<1>6. ASSUME NEW t \in [1..n -> S], Distinct(t), OwnFirst(t), NEW from \in Peers \cup {None},
             Takes(r, t, from)
      PROVE  Ranks(r)
  <2>1. PICK c \in Lists(Cand) :
           /\ 1 \in DOMAIN c /\ Orderly(c) /\ \A i \in DOMAIN c : c[i].place \in S
           /\ cands' = [cands EXCEPT ![r] = c]
    BY <1>2, <1>6, TakesIs
  <2>2. pin[r] # None => \A i \in DOMAIN c : c[i].place = pin[r]
    BY <1>3, <2>1
  <2>3. spread' = [spread EXCEPT ![r] = from] /\ Go(r, "assign") /\ UNCHANGED <<ask, held, res, winner, at>>
    BY <1>6 DEF Takes
  <2> QED
    BY <2>1, <2>2, <2>3 DEF Ranks
<1>7. CASE Takes(r, s, None)
  BY <1>4, <1>6, <1>7
<1>8. ASSUME NEW from \in DOMAIN s, NEW to \in DOMAIN s, Demotes(r, s, from, to),
             Takes(r, Moved(s, from, to), BoundTo(r))
      PROVE  Ranks(r)
  <2>1. from \in 1..n /\ to \in 1..n /\ from < to /\ SameTier(s[to], s[from])
    BY <1>4, <1>8 DEF Demotes
  <2>2. /\ Moved(s, from, to) \in [1..n -> S] /\ Distinct(Moved(s, from, to))
        /\ OwnFirst(Moved(s, from, to))
    BY <1>4, <2>1, MovedIs
  <2> QED
    BY <1>5, <1>6, <1>8, <2>2
<1> QED
  BY <1>7, <1>8
-----------------------------------------------------------------------------
(* The decision.  The least of a set of naturals is one of them. *)
LEMMA LeastIs == ASSUME NEW S \in SUBSET Nat, S # {}
                 PROVE  Min(S) \in S /\ \A y \in S : Min(S) <= y
<1>1. \E x \in S : \A y \in S : x <= y
  <2>1. PICK x \in S : \A y \in S : <<y, x>> \notin OpToRel(<, Nat)
    BY NatLessThanWellFounded, WFMin, Zenon
  <2>2. \A y \in S : ~(y < x)
    BY <2>1 DEF OpToRel
  <2> QED
    BY <2>2
<1> QED
  BY <1>1 DEF Min

(* The winner is the first that is ready, or ties with it.                 *)
LEMMA Decided ==
  ASSUME NEW n \in Nat, NEW s, Len(s) = n, DOMAIN s = 1..n, NEW tier, Decide(s, tier) # 0
  PROVE  /\ Decide(s, tier) \in 1..n + 1
         /\ Decide(s, tier) <= n =>
              \E lead \in 1..n : /\ \A i \in 1..n : IsReady(s[i]) => lead <= i
                                 /\ lead <= Decide(s, tier) /\ tier[Decide(s, tier)] = tier[lead]
<1> DEFINE ready == {i \in 1..n : IsReady(s[i])}
           lead  == SelectInSeq(s, IsReady)
           ties    == {j \in DOMAIN s : j > lead /\ tier[j] = tier[lead]}
           warmer  == {j \in ties : s[j] = "warm"}
           w == Decide(s, tier)
<1>1. Len(s) = n /\ DOMAIN s = 1..n
  OBVIOUS
<1>2. lead = IF ready # {} THEN Min(ready) ELSE 0
  BY <1>1 DEF SelectInSeq
<1>3. CASE ready = {}
  <2>1. w = n + 1
    BY <1>1, <1>2, <1>3 DEF Decide
  <2> QED
    BY <2>1
<1>4. CASE ready # {}
  <2>1. lead \in ready /\ \A i \in ready : lead <= i
    <3>1. ready \in SUBSET Nat
      OBVIOUS
    <3> HIDE DEF lead, ready
    <3> QED
      BY <1>2, <1>4, <3>1, LeastIs
  <2> HIDE DEF lead
  <2>2. w \in {lead, Min(warmer)} /\ (w = lead \/ warmer # {})
    BY <2>1 DEF Decide, lead
  <2>3. warmer # {} => Min(warmer) \in warmer
    <3>1. warmer \in SUBSET Nat
      BY <1>1
    <3> HIDE DEF warmer
    <3> QED
      BY <3>1, LeastIs
  <2>4. w \in 1..n /\ lead <= w /\ tier[w] = tier[lead]
    BY <1>1, <2>1, <2>2, <2>3
  <2> QED
    BY <2>1, <2>4
<1> QED
  BY <1>3, <1>4

(* Candidates of one rank tier are all the user's own, or all public: by   *)
(* the first index at which they would not be.                             *)
LEMMA TierIs ==
  ASSUME NEW n \in Nat, NEW A, NEW c \in [1..n -> A], NEW t \in Tiers(c),
         NEW i \in 1..n, NEW j \in 1..n, i <= j, t[i] = t[j]
  PROVE  SameTier(c[i].place, c[j].place)
<1> DEFINE Good(b) == t[b] <= b /\ \A a \in 1..b : t[a] = t[b] => SameTier(c[a].place, c[b].place)
           Bad == {b \in 1..n : ~Good(b)}
<1>1. /\ t \in [1..n -> 1..n]
      /\ t[1] = 1
      /\ \A b \in (1..n) \ {1} :
           t[b] \in {b} \cup (IF SameTier(c[b - 1].place, c[b].place) THEN {t[b - 1]} ELSE {})
  BY DEF Tiers
<1>2. Bad = {}
  <2> SUFFICES ASSUME Bad # {} PROVE FALSE
    OBVIOUS
  <2>1. PICK b \in Bad : \A a \in Bad : b <= a
    <3>1. Bad \in SUBSET Nat
      OBVIOUS
    <3> HIDE DEF Bad
    <3> QED
      BY <3>1, LeastIs
  <2>2. b \in 1..n /\ ~Good(b) /\ \A a \in 1..b - 1 : Good(a)
    BY <2>1
  <2>3. b # 1
    BY <1>1, <2>2 DEF SameTier
  <2>4. CASE t[b] = b
    <3>1. \A a \in 1..b : t[a] = t[b] => a = b
      BY <2>2, <2>4
    <3> QED
      BY <2>2, <2>4, <3>1 DEF SameTier
  <2>5. CASE t[b] = t[b - 1] /\ SameTier(c[b - 1].place, c[b].place)
    <3>1. Good(b - 1) /\ b - 1 \in 1..n
      BY <2>2, <2>3
    <3>2. t[b] <= b
      BY <1>1, <2>2, <2>5, <3>1
    <3>3. ASSUME NEW a \in 1..b, t[a] = t[b] PROVE SameTier(c[a].place, c[b].place)
      <4>1. CASE a = b
        BY <4>1 DEF SameTier
      <4>2. CASE a # b
        BY <2>2, <2>5, <3>1, <3>3, <4>2 DEF SameTier
      <4> QED
        BY <4>1, <4>2
    <3> QED
      BY <2>2, <3>2, <3>3
  <2> QED
    BY <1>1, <2>2, <2>3, <2>4, <2>5
<1> QED
  BY <1>2

(* A winner that is public leaves nothing of the user's own ready: the     *)
(* lead is the first that is ready, the winner of its tier.                *)
OwnWins(r, w, f) ==
  w \in DOMAIN cands[r] =>
    (cands[r][w].place \in Public =>
       \A i \in DOMAIN cands[r] : IsReady(f[i]) => cands[r][i].place \in Public)

LEMMA ProbeIs ==
  ASSUME Typed, NEW r \in Requests, Orderly(cands[r]), Probe(r)
  PROVE  \E w \in 1..K + 1, f \in Lists(inst.answers \cup {"quiet", "miss"}) :
           /\ DOMAIN f = DOMAIN cands[r] /\ OwnWins(r, w, f)
           /\ winner' = [winner EXCEPT ![r] = w] /\ at' = [at EXCEPT ![r] = w]
           /\ res' = [res EXCEPT ![r] = f]
<1> DEFINE A == inst.answers \cup {"quiet", "miss"}
           n == Len(cands[r])
<1>1. n \in 0..K /\ cands[r] \in [1..n -> Cand] /\ DOMAIN cands[r] = 1..n /\ n \in Nat /\ K \in Nat
  BY ListIs, BoundAssumption DEF Typed, AskTyped, RoundTyped
<1> HIDE DEF n
<1>2. PICK s \in Heard(cands[r]), tier \in Tiers(cands[r]) :
        LET w == Decide(s, tier) IN
          /\ w # 0
          /\ winner' = [winner EXCEPT ![r] = w] /\ at' = [at EXCEPT ![r] = w]
          /\ res' = [res EXCEPT ![r] =
                       [i \in DOMAIN s |-> IF s[i] = "pending" THEN "miss" ELSE s[i]]]
  BY DEF Probe
<1> DEFINE w == Decide(s, tier)
           f == [i \in DOMAIN s |-> IF s[i] = "pending" THEN "miss" ELSE s[i]]
<1>3. s \in [1..n -> A \cup {"pending"}]
  BY <1>1 DEF Heard
<1>4. f \in [1..n -> A] /\ f \in Lists(A) /\ DOMAIN f = 1..n
  <2>1. f \in [1..n -> A]
    BY <1>3
  <2> QED
    BY <1>1, <2>1 DEF Lists
<1>8. w # 0
  BY <1>2
<1>5. /\ w \in 1..n + 1
      /\ w <= n => \E lead \in 1..n : /\ \A i \in 1..n : IsReady(s[i]) => lead <= i
                                      /\ lead <= w /\ tier[w] = tier[lead]
  <2>1. Len(s) = n /\ DOMAIN s = 1..n
    BY <1>1, <1>3
  <2> HIDE DEF w
  <2>2. w = Decide(s, tier) /\ Decide(s, tier) # 0
    BY <1>8 DEF w
  <2> QED
    BY <1>1, <2>1, <2>2, Decided
<1> HIDE DEF w
<1>6. OwnWins(r, w, f)
  <2> SUFFICES ASSUME w \in 1..n, cands[r][w].place \in Public,
                      NEW i \in 1..n, IsReady(f[i])
               PROVE  cands[r][i].place \in Public
    BY <1>1 DEF OwnWins
  <2>1. IsReady(s[i])
    BY <1>3 DEF IsReady, Ready
  <2>2. PICK lead \in 1..n : lead <= w /\ tier[w] = tier[lead] /\ lead <= i
    BY <1>1, <1>5, <2>1
  <2>3. SameTier(cands[r][lead].place, cands[r][w].place)
    BY <1>1, <2>2, TierIs
  <2>4. cands[r][lead].place \in Public
    BY <2>3 DEF SameTier
  <2>5. cands[r][i].place \notin Public => i < lead
    BY <1>1, <2>4 DEF Orderly
  <2> QED
    BY <1>1, <2>2, <2>5
<1>7. w \in 1..K + 1
  BY <1>1, <1>5
<1> QED
  BY <1>1, <1>2, <1>4, <1>6, <1>7 DEF w

-----------------------------------------------------------------------------
(* Where a request has candidates, results and slots.                      *)
Where ==
  \A r \in Requests :
    /\ held[r] => pc[r] \in {"probe", "walk", "return"}
    /\ held[r] \/ pc[r] \in {"assign", "probe"} => 1 \in DOMAIN cands[r]
    /\ served[r] # None => pc[r] \in {"return", "serve"}
    /\ pc[r] = "serve" => served[r] # None
    /\ pc[r] \in {"idle", "rank", "serve"} => cands[r] = <<>>
    /\ pc[r] \in {"idle", "rank", "assign", "probe", "serve"} => res[r] = <<>>

Ordered == \A r \in Requests : Orderly(cands[r])

(* What the constants and an instance promise.                             *)
LEMMA InstIs ==
  ASSUME Typed
  PROVE  /\ inst.rounds \in Nat \ {0} /\ inst.changes \in Nat /\ inst.caps \subseteq Nat
         /\ K \in Nat \ {0} /\ EngineSlots \in Nat \ {0}
  BY BoundAssumption DEF Typed, AskTyped, RoundTyped, Bounds
LEMMA CandIs ==
  ASSUME Typed, NEW c \in Cand
  PROVE  c.place \in Places /\ c.cap \in Nat /\ c # None /\ (c.place = Self => c.cap = 0)
  BY PlaceAssumption, InstIs DEF Cand

(* What ends a request, and what ends a round, keeps the types. *)
LEMMA EndIs ==
  ASSUME Typed, NEW r \in Requests, End(r)
  PROVE  /\ pc' \in [Requests -> PCs] /\ attempt' \in [Requests -> 0..inst.rounds]
         /\ key' \in [Requests -> Keys \cup {None}] /\ pin' \in [Requests -> Peers \cup {None}]
         /\ pc' = [pc EXCEPT ![r] = "idle"]
<1>1. 0 \in 0..inst.rounds
  BY InstIs
<1> QED
  BY <1>1 DEF End, Typed, AskTyped, Go, PCs

LEMMA RoundSame == ASSUME Typed, UNCHANGED <<inst, round>> PROVE RoundTyped' /\ Cand' = Cand
<1>1. Cand' = Cand
  BY DEF Cand
<1> QED
  BY <1>1 DEF Typed, AskTyped, RoundTyped, round

LEMMA AskSame == ASSUME Typed, UNCHANGED <<inst, pc, ask>> PROVE AskTyped'
  BY DEF Typed, AskTyped, ask

LEMMA ClearIs ==
  ASSUME Typed, NEW r \in Requests, ClearRound(r), UNCHANGED inst
  PROVE  RoundTyped'
<1>1. Cand' = Cand
  BY DEF Cand
<1>2. 0 \in 0..K + 1
  BY InstIs
<1>3. \A S : <<>> \in Lists(S)
  BY NoList
<1> QED
  BY <1>1, <1>2, <1>3 DEF ClearRound, Typed, AskTyped, RoundTyped

(* Types, and where a request has what, are kept by every step.            *)
LEMMA TypedNext == Typed /\ Where /\ Ordered /\ [Next]_vars => Typed' /\ Where' /\ Ordered'
<1> SUFFICES ASSUME Typed, Where, Ordered, [Next]_vars PROVE Typed' /\ Where' /\ Ordered'
  OBVIOUS
<1>0. inst.rounds \in Nat \ {0} /\ inst.changes \in Nat /\ {K, EngineSlots} \subseteq Nat \ {0}
  BY InstIs
<1>1. ASSUME NEW r \in Requests, Rank(r) PROVE Typed' /\ Where' /\ Ordered'
  <2>1. UNCHANGED <<inst, cap, changes, engine, bound, served>> /\ pc[r] = "rank"
    BY <1>1 DEF Rank, world
  <2>2. Cand' = Cand
    BY <2>1 DEF Cand
  <2>3. CASE End(r) /\ UNCHANGED round
    <3>1. Typed'
      <4>1. /\ pc' \in [Requests -> PCs] /\ attempt' \in [Requests -> 0..inst.rounds]
            /\ key' \in [Requests -> Keys \cup {None}] /\ pin' \in [Requests -> Peers \cup {None}]
        BY <1>0, <2>3 DEF End, Typed, AskTyped, RoundTyped, Go, PCs
      <4> QED
        BY <2>1, <2>2, <2>3, <4>1 DEF round, Typed, AskTyped, RoundTyped
    <3>2. Where'
      BY <2>1, <2>3 DEF End, round, Typed, AskTyped, RoundTyped, Where, Go
    <3>3. Ordered'
      BY <2>3 DEF round, Ordered, Orderly
    <3> QED
      BY <3>1, <3>2, <3>3
  <2>4. CASE Go(r, "retry") /\ UNCHANGED <<ask, round>>
    <3>1. Typed'
      BY <2>1, <2>2, <2>4 DEF ask, round, Typed, AskTyped, RoundTyped, Go, PCs
    <3>2. Where'
      BY <2>1, <2>4 DEF ask, round, Typed, AskTyped, RoundTyped, Where, Go
    <3>3. Ordered'
      BY <2>4 DEF round, Ordered, Orderly
    <3> QED
      BY <3>1, <3>2, <3>3
  <2>5. CASE Ranks(r)
    <3>1. PICK c \in Lists(Cand), from \in Peers \cup {None} :
            /\ 1 \in DOMAIN c /\ Orderly(c)
            /\ cands' = [cands EXCEPT ![r] = c] /\ spread' = [spread EXCEPT ![r] = from]
            /\ Go(r, "assign") /\ UNCHANGED <<ask, held, res, winner, at>>
      BY <2>5 DEF Ranks
    <3>2. res[r] = <<>>
      BY <2>1 DEF Where
    <3>3. Typed'
      BY <2>1, <2>2, <3>1, <3>2 DEF ask, Typed, AskTyped, RoundTyped, Go, PCs
    <3>4. Where'
      BY <2>1, <3>1, <3>2 DEF Typed, AskTyped, RoundTyped, Where, Go
    <3>5. Ordered'
      BY <3>1 DEF Typed, AskTyped, RoundTyped, Ordered, Orderly
    <3> QED
      BY <3>3, <3>4, <3>5
  <2> QED
    BY <1>1, <2>3, <2>4, <2>5, RankIs
<1>2. ASSUME NEW r \in Requests, Probe(r) PROVE Typed' /\ Where' /\ Ordered'
  <2>1. /\ UNCHANGED <<inst, cap, changes, engine, bound, ask, cands, spread, held, served>>
        /\ pc[r] = "probe" /\ Go(r, "walk")
    BY <1>2 DEF Probe, world
  <2>2. Cand' = Cand
    BY <2>1 DEF Cand
  <2>3. PICK w \in 1..K + 1, f \in Lists(inst.answers \cup {"quiet", "miss"}) :
           /\ DOMAIN f = DOMAIN cands[r] /\ OwnWins(r, w, f)
           /\ winner' = [winner EXCEPT ![r] = w] /\ at' = [at EXCEPT ![r] = w]
           /\ res' = [res EXCEPT ![r] = f]
    <3>1. Orderly(cands[r])
      BY DEF Ordered
    <3> QED
      BY <1>2, <3>1, ProbeIs
  <2>4. w \in 0..K + 1
    BY <1>0
  <2>5. Typed'
    <3>1. winner' \in [Requests -> 0..K + 1] /\ at' \in [Requests -> 0..K + 1]
      BY <2>3, <2>4 DEF Typed, AskTyped, RoundTyped
    <3>2. /\ res' \in [Requests -> Lists(inst.answers \cup {"quiet", "miss"})]
          /\ \A q \in Requests : res'[q] # <<>> => DOMAIN res'[q] = DOMAIN cands[q]
      BY <2>3 DEF Typed, AskTyped, RoundTyped
    <3>3. pc' \in [Requests -> PCs]
      BY <2>1 DEF Typed, AskTyped, RoundTyped, Go, PCs
    <3> QED
      BY <2>1, <2>2, <3>1, <3>2, <3>3 DEF ask, Typed, AskTyped, RoundTyped
  <2>6. Where'
    BY <2>1, <2>3 DEF Typed, AskTyped, RoundTyped, Where, Go
  <2>7. Ordered'
    BY <2>1 DEF Ordered, Orderly
  <2> QED
    BY <2>5, <2>6, <2>7
<1>3. ASSUME NEW r \in Requests, Arrive(r) PROVE Typed' /\ Where' /\ Ordered'
  <2>1. UNCHANGED <<inst, cap, changes, engine, bound, round, served>> /\ pc[r] = "idle" /\ Go(r, "rank")
    BY <1>3 DEF Arrive, world
  <2>2. /\ key' \in [Requests -> Keys \cup {None}] /\ pin' \in [Requests -> Peers \cup {None}]
        /\ attempt' \in [Requests -> 0..inst.rounds]
    <3>1. PICK a \in inst.asks : key' = [key EXCEPT ![r] = a[1]] /\ pin' = [pin EXCEPT ![r] = a[2]]
      BY <1>3 DEF Arrive
    <3>2. a[1] \in Keys \cup {None} /\ a[2] \in Peers \cup {None}
      BY BoundAssumption DEF Typed, AskTyped, RoundTyped, Bounds
    <3>3. attempt' = [attempt EXCEPT ![r] = 1]
      BY <1>3 DEF Arrive
    <3> QED
      BY <1>0, <3>1, <3>2, <3>3 DEF Typed, AskTyped, RoundTyped
  <2>3. Typed'
    BY <2>1, <2>2 DEF Typed, AskTyped, RoundTyped, Cand, round, Go, PCs
  <2>4. Where'
    BY <2>1 DEF Typed, AskTyped, RoundTyped, Where, round, Go
  <2> QED
    BY <2>1, <2>3, <2>4 DEF round, Ordered, Orderly
<1>4. ASSUME NEW r \in Requests, Assign(r) PROVE Typed' /\ Where' /\ Ordered'
  <2>1. /\ UNCHANGED <<inst, cap, changes, engine, bound, ask, cands, spread, res, winner, at, served>>
        /\ pc[r] = "assign" /\ Go(r, "probe")
        /\ held' \in {held, [held EXCEPT ![r] = TRUE]}
    BY <1>4 DEF Assign, world
  <2>2. Typed'
    BY <2>1 DEF Typed, AskTyped, RoundTyped, Cand, ask, Go, PCs
  <2>3. Where'
    BY <2>1 DEF Typed, AskTyped, RoundTyped, Where, Go
  <2> QED
    BY <2>1, <2>2, <2>3 DEF Ordered, Orderly
<1>5. ASSUME NEW r \in Requests, Walk(r) PROVE Typed' /\ Where' /\ Ordered'
  <2> DEFINE c == cands[r][at[r]]
  <2>1. /\ UNCHANGED <<inst, cap, changes, engine, ask, cands, spread, res, winner>>
        /\ pc[r] = "walk" /\ served[r] = None
    BY <1>5 DEF Walk, world, Where
  <2>2. at[r] \in DOMAIN cands[r] => at[r] + 1 \in 0..K + 1 /\ c \in Cand
    <3>1. cands[r] \in Lists(Cand)
      BY DEF Typed, AskTyped, RoundTyped
    <3> QED
      BY <1>0, <3>1, ListIs
  <2>3. \/ Go(r, "return") /\ UNCHANGED <<bound, held, served, at>>
        \/ /\ at[r] \in DOMAIN cands[r] /\ held' \in {held, [held EXCEPT ![r] = FALSE]}
           /\ Finish(r, c) /\ Go(r, "return") /\ UNCHANGED at
        \/ /\ at[r] \in DOMAIN cands[r] /\ at' = [at EXCEPT ![r] = at[r] + 1]
           /\ UNCHANGED <<bound, held, served, pc>>
    BY <1>5 DEF Walk
  <2>4. Finish(r, c) /\ at[r] \in DOMAIN cands[r] =>
          /\ served' = [served EXCEPT ![r] = c] /\ c # None /\ c \in Cand
          /\ bound' \in [Keys -> Peers \cup {None}]
    BY <2>2, CandIs DEF Finish, Rebinds, Typed, AskTyped, RoundTyped, Cand, Places
  <2>5. Typed'
    <3>1. Cand' = Cand
      BY <2>1 DEF Cand
    <3>2. AskTyped'
      BY <2>1, <2>3 DEF Typed, AskTyped, ask, Go, PCs
    <3>3. held' \in [Requests -> BOOLEAN] /\ at' \in [Requests -> 0..K + 1]
      BY <2>2, <2>3 DEF Typed, RoundTyped
    <3>4. RoundTyped'
      BY <2>1, <3>1, <3>3 DEF Typed, RoundTyped
    <3>5. served' \in [Requests -> Cand \cup {None}] /\ bound' \in [Keys -> Peers \cup {None}]
      BY <2>3, <2>4 DEF Typed
    <3> QED
      BY <2>1, <3>1, <3>2, <3>4, <3>5 DEF Typed
  <2>6. Where'
    BY <2>1, <2>3, <2>4 DEF Typed, AskTyped, RoundTyped, Where, Go
  <2> QED
    BY <2>1, <2>5, <2>6 DEF Ordered, Orderly
<1>6. ASSUME NEW r \in Requests, Return(r) PROVE Typed' /\ Where' /\ Ordered'
  <2>1. /\ UNCHANGED <<inst, cap, changes, engine, bound, key, pin, served>>
        /\ pc[r] = "return" /\ Cand' = Cand
    BY <1>6 DEF Return, world, Cand
  <2>2. CASE served[r] # None /\ Go(r, "serve") /\ ClearRound(r) /\ attempt' = [attempt EXCEPT ![r] = 0]
    <3>1. Typed'
      <4>1. RoundTyped'
        BY <2>1, <2>2, ClearIs
      <4>2. AskTyped'
        BY <1>0, <2>1, <2>2 DEF Typed, AskTyped, Go, PCs
      <4> QED
        BY <2>1, <4>1, <4>2 DEF Typed
    <3>2. Where'
      BY <2>1, <2>2, NoList DEF Typed, AskTyped, RoundTyped, Where, Go, ClearRound
    <3>3. Ordered'
      BY <2>2, NoList DEF Typed, AskTyped, RoundTyped, Ordered, Orderly, ClearRound
    <3> QED
      BY <3>1, <3>2, <3>3
  <2>3. CASE /\ served[r] = None /\ Go(r, "retry") /\ held' = [held EXCEPT ![r] = FALSE]
             /\ UNCHANGED <<attempt, cands, spread, res, winner, at>>
    <3>1. Typed'
      BY <2>1, <2>3 DEF Typed, AskTyped, RoundTyped, Go, PCs
    <3>2. Where'
      BY <2>1, <2>3 DEF Typed, AskTyped, RoundTyped, Where, Go
    <3> QED
      BY <2>3, <3>1, <3>2 DEF Ordered, Orderly
  <2> QED
    BY <1>6, <2>2, <2>3 DEF Return
<1>7. ASSUME NEW r \in Requests, pc[r] = "retry", ClearRound(r),
             UNCHANGED <<world, engine, bound, served>>,
             \/ End(r)
             \/ Go(r, "rank") /\ UNCHANGED <<key, pin>> /\ attempt' \in [Requests -> 0..inst.rounds]
      PROVE  Typed' /\ Where' /\ Ordered'
  <2>1. UNCHANGED <<inst, cap, changes>> /\ Cand' = Cand /\ RoundTyped'
    BY <1>7, ClearIs DEF world, Cand
  <2>2. /\ pc' \in [Requests -> PCs] /\ attempt' \in [Requests -> 0..inst.rounds]
        /\ key' \in [Requests -> Keys \cup {None}] /\ pin' \in [Requests -> Peers \cup {None}]
        /\ pc' \in {[pc EXCEPT ![r] = "idle"], [pc EXCEPT ![r] = "rank"]}
    <3>1. CASE End(r)
      BY <3>1, EndIs
    <3>2. CASE Go(r, "rank") /\ UNCHANGED <<key, pin>> /\ attempt' \in [Requests -> 0..inst.rounds]
      BY <3>2 DEF Typed, AskTyped, RoundTyped, Go, PCs
    <3> QED
      BY <1>7, <3>1, <3>2
  <2>3. Typed'
    BY <1>7, <2>1, <2>2 DEF Typed, AskTyped, RoundTyped
  <2>4. Where'
    BY <1>7, <2>1, <2>2, NoList DEF Typed, AskTyped, RoundTyped, Where, ClearRound
  <2>5. Ordered'
    BY <1>7, NoList DEF Typed, RoundTyped, Ordered, Orderly, ClearRound
  <2> QED
    BY <2>3, <2>4, <2>5
<1>8. ASSUME NEW r \in Requests, Again(r) PROVE Typed' /\ Where' /\ Ordered'
  <2>1. attempt' \in [Requests -> 0..inst.rounds]
    BY <1>0, <1>8 DEF Again, Typed, AskTyped, RoundTyped
  <2> QED
    BY <1>7, <1>8, <2>1 DEF Again
<1>9. ASSUME NEW r \in Requests, pc[r] = "serve", Release(r) PROVE Typed' /\ Where' /\ Ordered'
  <2>1. /\ UNCHANGED <<inst, cap, changes, bound, round>> /\ Cand' = Cand
        /\ served' = [served EXCEPT ![r] = None] /\ engine' = engine \ {r} /\ End(r)
    BY <1>9 DEF Release, world, Cand
  <2>2. engine' \subseteq Requests /\ Cardinality(engine') <= EngineSlots
    <3>1. IsFiniteSet(engine) /\ engine' \subseteq engine
      BY <2>1, FiniteAssumption, FS_Subset DEF Typed, AskTyped, RoundTyped
    <3>2. Cardinality(engine') <= Cardinality(engine) /\ Cardinality(engine) \in Nat /\ Cardinality(engine') \in Nat
      BY <3>1, FS_Subset, FS_CardinalityType
    <3> QED
      BY <3>1, <3>2, <1>0 DEF Typed
  <2>3. Typed'
    <3>1. AskTyped' /\ RoundTyped'
      BY <2>1, EndIs, RoundSame DEF AskTyped
    <3> QED
      BY <2>1, <2>2, <3>1 DEF Typed
  <2>4. Where'
    <3>1. pc' = [pc EXCEPT ![r] = "idle"]
      BY <2>1, EndIs
    <3> QED
      BY <1>9, <2>1, <3>1 DEF Typed, AskTyped, RoundTyped, Where, round
  <2> QED
    BY <2>1, <2>3, <2>4 DEF round, Ordered, Orderly
<1>10. ASSUME NEW r \in Requests, Admit(r) PROVE Typed' /\ Where' /\ Ordered'
  <2>1. /\ UNCHANGED <<inst, cap, changes, bound, pc, ask, round, served>> /\ Cand' = Cand
    BY <1>10 DEF Admit, world, Cand
  <2>2. engine' \subseteq Requests /\ Cardinality(engine') <= EngineSlots
    <3>1. /\ IsFiniteSet(engine) /\ r \notin engine /\ engine' = engine \cup {r}
          /\ Cardinality(engine) < EngineSlots
      BY <1>10, FiniteAssumption, FS_Subset DEF Typed, AskTyped, RoundTyped, Admit
    <3>2. Cardinality(engine') = Cardinality(engine) + 1 /\ Cardinality(engine) \in Nat
      BY <3>1, FS_AddElement, FS_CardinalityType
    <3> QED
      BY <3>1, <3>2, <1>0 DEF Typed
  <2>3. Typed'
    BY <2>1, <2>2 DEF Typed, AskTyped, RoundTyped, ask, round
  <2>4. Where'
    BY <2>1 DEF Where, round
  <2> QED
    BY <2>1, <2>3, <2>4 DEF round, Ordered, Orderly
<1>11. ASSUME UNCHANGED <<inst, engine, pc, ask, round, served>>,
              bound' \in [Keys -> Peers \cup {None}],
              cap' \in [Peers -> inst.caps] /\ changes' \in 0..inst.changes
       PROVE  Typed' /\ Where' /\ Ordered'
  <2>1. Typed'
    BY <1>11, AskSame, RoundSame DEF Typed
  <2>2. Where'
    BY <1>11 DEF Where, round
  <2>3. Ordered'
    BY <1>11 DEF Ordered, Orderly, round
  <2> QED
    BY <2>1, <2>2, <2>3
<1>12. ASSUME NEW k \in Keys, Expire(k) PROVE Typed' /\ Where' /\ Ordered'
  BY <1>11, <1>12 DEF Expire, world, Typed
<1>13. ASSUME NEW p \in Peers, NEW c \in inst.caps, Advertise(p, c) PROVE Typed' /\ Where' /\ Ordered'
  <2>1. changes' \in 0..inst.changes
    BY <1>0, <1>13 DEF Advertise, Typed
  <2>2. cap' \in [Peers -> inst.caps] /\ bound' \in [Keys -> Peers \cup {None}]
    BY <1>13 DEF Advertise, Typed
  <2> QED
    BY <1>11, <1>13, <2>1, <2>2 DEF Advertise
<1>14. ASSUME NEW r \in Requests, GiveUp(r) \/ Leave(r) \/ Done(r) PROVE Typed' /\ Where' /\ Ordered'
  BY <1>7, <1>9, <1>14 DEF GiveUp, Leave, Done
<1>15. CASE UNCHANGED vars
  BY <1>11, <1>15 DEF vars, Typed, ask, round
<1> QED
  BY <1>1, <1>2, <1>3, <1>4, <1>5, <1>6, <1>8, <1>10, <1>11, <1>12, <1>13, <1>14, <1>15 DEF Next, Step

-----------------------------------------------------------------------------
(* The pin holds of what is tried and of what is served, and a request     *)
(* that is served does not hold another slot at the same place.            *)
Pins ==
  \A r \in Requests : pin[r] # None =>
    /\ \A i \in DOMAIN cands[r] : cands[r][i].place = pin[r]
    /\ served[r] # None => served[r].place = pin[r]

Apart ==
  \A r \in Requests : held[r] /\ served[r] # None => served[r].place # cands[r][1].place

Chosen == Pins /\ Apart /\ OwnBeforePublic

(* Only a probe leads into a walk, and only a walk gives a request a place. *)
LEMMA ChosenNext == Typed /\ Where /\ Ordered /\ Chosen /\ [Next]_vars => Chosen'
<1> SUFFICES ASSUME Typed, Where, Ordered, Chosen, [Next]_vars PROVE Chosen'
  OBVIOUS
<1>2. ASSUME NEW r \in Requests, pc'[r] # "walk",
             \A q \in Requests \ {r} : /\ pc'[q] = pc[q] /\ cands'[q] = cands[q]
                                       /\ res'[q] = res[q] /\ winner'[q] = winner[q]
      PROVE  OwnBeforePublic'
  BY <1>2 DEF Chosen, OwnBeforePublic
<1>3. ASSUME NEW r \in Requests,
             \A q \in Requests \ {r} : /\ pin'[q] = pin[q] /\ cands'[q] = cands[q]
                                       /\ served'[q] = served[q] /\ held'[q] = held[q],
             DOMAIN cands'[r] = {}, ~held'[r],
             served'[r] # None => pin'[r] = pin[r] /\ served'[r] = served[r]
      PROVE  Pins' /\ Apart'
  BY <1>3 DEF Chosen, Pins, Apart
<1>4. ASSUME NEW r \in Requests, Rank(r) PROVE Chosen'
  <2>1. UNCHANGED served /\ pc[r] = "rank" /\ ~held[r] /\ served[r] = None /\ cands[r] = <<>>
    BY <1>4 DEF Rank, Typed, RoundTyped, Where
  <2>2. CASE End(r) /\ UNCHANGED round
    <3>1. OwnBeforePublic'
      BY <2>2, <1>2 DEF End, Go, round, Typed, AskTyped
    <3>2. Pins' /\ Apart'
      BY <2>1, <2>2, <1>3, NoList DEF End, round, Typed, AskTyped
    <3> QED
      BY <3>1, <3>2 DEF Chosen
  <2>3. CASE Go(r, "retry") /\ UNCHANGED <<ask, round>>
    <3>1. OwnBeforePublic'
      BY <2>3, <1>2 DEF Go, round, Typed, AskTyped
    <3>2. Pins' /\ Apart'
      BY <2>1, <2>3, <1>3, NoList DEF round, ask
    <3> QED
      BY <3>1, <3>2 DEF Chosen
  <2>4. CASE Ranks(r)
    <3>1. PICK c \in Lists(Cand) :
            /\ pin[r] # None => \A i \in DOMAIN c : c[i].place = pin[r]
            /\ cands' = [cands EXCEPT ![r] = c]
            /\ Go(r, "assign") /\ UNCHANGED <<ask, held, res, winner>>
      BY <2>4 DEF Ranks
    <3>2. OwnBeforePublic'
      BY <3>1, <1>2 DEF Go, Typed, AskTyped, RoundTyped
    <3>3. Pins'
      BY <2>1, <3>1 DEF Chosen, Pins, ask, Typed, RoundTyped
    <3>4. Apart'
      BY <2>1, <3>1 DEF Chosen, Apart, Typed, RoundTyped
    <3> QED
      BY <3>2, <3>3, <3>4 DEF Chosen
  <2> QED
    BY <1>4, <2>2, <2>3, <2>4, RankIs
<1>5. ASSUME NEW r \in Requests, Probe(r) PROVE Chosen'
  <2>1. UNCHANGED <<pin, cands, held, served>> /\ Go(r, "walk")
    BY <1>5 DEF Probe, ask
  <2>2. PICK w \in 1..K + 1, f \in Lists(inst.answers \cup {"quiet", "miss"}) :
           /\ OwnWins(r, w, f)
           /\ winner' = [winner EXCEPT ![r] = w] /\ res' = [res EXCEPT ![r] = f]
    <3>1. Orderly(cands[r])
      BY DEF Ordered
    <3> QED
      BY <1>5, <3>1, ProbeIs
  <2>3. OwnBeforePublic'
    <3> SUFFICES ASSUME NEW q \in Requests, pc'[q] = "walk",
                        winner'[q] \in DOMAIN cands[q], cands[q][winner'[q]].place \in Public,
                        NEW i \in DOMAIN cands[q], IsReady(res'[q][i])
                 PROVE  cands[q][i].place \in Public
      BY <2>1 DEF OwnBeforePublic
    <3>1. CASE q = r
      BY <2>2, <3>1 DEF OwnWins, Typed, RoundTyped
    <3>2. CASE q # r
      BY <2>1, <2>2, <3>2 DEF Chosen, OwnBeforePublic, Go, Typed, AskTyped, RoundTyped
    <3> QED
      BY <3>1, <3>2
  <2> QED
    BY <2>1, <2>3 DEF Chosen, Pins, Apart
<1>6. ASSUME NEW r \in Requests, Arrive(r) PROVE Chosen'
  <2>1. /\ UNCHANGED <<round, served>> /\ Go(r, "rank")
        /\ \A q \in Requests \ {r} : pin'[q] = pin[q]
    BY <1>6 DEF Arrive, Typed, AskTyped
  <2>2. ~held[r] /\ served[r] = None /\ cands[r] = <<>>
    BY <1>6 DEF Arrive, Where, Typed, RoundTyped
  <2>3. OwnBeforePublic'
    BY <2>1, <1>2 DEF Go, round, Typed, AskTyped
  <2>4. Pins' /\ Apart'
    BY <2>1, <2>2, <1>3, NoList DEF round
  <2> QED
    BY <2>3, <2>4 DEF Chosen
<1>7. ASSUME NEW r \in Requests, Assign(r) PROVE Chosen'
  <2>1. UNCHANGED <<pin, cands, res, winner, served>> /\ Go(r, "probe") /\ served[r] = None
        /\ held' \in {held, [held EXCEPT ![r] = TRUE]}
    BY <1>7 DEF Assign, ask, Where
  <2>2. OwnBeforePublic'
    BY <2>1, <1>2 DEF Go, Typed, AskTyped
  <2>3. Apart'
    BY <2>1 DEF Chosen, Apart, Typed, RoundTyped
  <2> QED
    BY <2>1, <2>2, <2>3 DEF Chosen, Pins
<1>8. ASSUME NEW r \in Requests, Walk(r) PROVE Chosen'
  <2> DEFINE c == cands[r][at[r]]
  <2>1. UNCHANGED <<pin, cands, res, winner>> /\ pc[r] = "walk" /\ served[r] = None
    BY <1>8 DEF Walk, ask, Where
  <2>2. \/ Go(r, "return") /\ UNCHANGED <<held, served>>
        \/ UNCHANGED <<held, served, pc>>
        \/ /\ at[r] \in DOMAIN cands[r] /\ Go(r, "return") /\ served' = [served EXCEPT ![r] = c]
           /\ held' = [held EXCEPT ![r] = FALSE] \/ (held' = held /\ ~(at[r] = 1 /\ held[r]))
    BY <1>8 DEF Walk, Finish
  <2>3. OwnBeforePublic'
    BY <2>1, <2>2 DEF Chosen, OwnBeforePublic, Go, Typed, AskTyped
  <2>4. Pins'
    BY <2>1, <2>2 DEF Chosen, Pins, Typed
  <2>5. Apart'
    <3> SUFFICES ASSUME NEW q \in Requests, held'[q], served'[q] # None
                 PROVE  served'[q].place # cands[q][1].place
      BY <2>1 DEF Apart
    <3>1. CASE q = r
      <4>1. /\ at[r] \in DOMAIN cands[r] /\ served'[r] = c /\ held[r] /\ at[r] # 1
        BY <2>1, <2>2, <3>1 DEF Typed, RoundTyped
      <4>2. 1 \in DOMAIN cands[r]
        BY <4>1 DEF Where
      <4> QED
        BY <3>1, <4>1, <4>2 DEF Ordered, Orderly
    <3>2. CASE q # r
      BY <2>2, <3>2 DEF Chosen, Apart, Typed, RoundTyped
    <3> QED
      BY <3>1, <3>2
  <2> QED
    BY <2>3, <2>4, <2>5 DEF Chosen
<1>9. ASSUME NEW r \in Requests, Return(r) PROVE Chosen'
  <2>1. CASE /\ UNCHANGED <<pin, served>> /\ Go(r, "serve") /\ ClearRound(r)
    <3>1. OwnBeforePublic'
      BY <2>1, <1>2 DEF Go, ClearRound, Typed, AskTyped, RoundTyped
    <3>2. Pins' /\ Apart'
      BY <2>1, <1>3, NoList DEF ClearRound, Typed, RoundTyped
    <3> QED
      BY <3>1, <3>2 DEF Chosen
  <2>2. CASE /\ UNCHANGED <<pin, cands, res, winner, served>> /\ Go(r, "retry")
             /\ held' = [held EXCEPT ![r] = FALSE]
    <3>1. OwnBeforePublic'
      BY <2>2, <1>2 DEF Go, Typed, AskTyped
    <3>2. Apart'
      BY <2>2 DEF Chosen, Apart, Typed, RoundTyped
    <3> QED
      BY <2>2, <3>1, <3>2 DEF Chosen, Pins
  <2> QED
    BY <1>9, <2>1, <2>2 DEF Return
<1>10. ASSUME NEW r \in Requests, pc[r] = "retry", ClearRound(r), UNCHANGED served,
              End(r) \/ (Go(r, "rank") /\ UNCHANGED pin)
       PROVE  Chosen'
  <2>1. OwnBeforePublic'
    BY <1>10, <1>2 DEF End, Go, ClearRound, Typed, AskTyped, RoundTyped
  <2>2. served[r] = None
    BY <1>10 DEF Where
  <2>3. Pins' /\ Apart'
    BY <1>10, <1>3, <2>2, NoList DEF End, ClearRound, Typed, RoundTyped, AskTyped
  <2> QED
    BY <2>1, <2>3 DEF Chosen
<1>11. ASSUME NEW r \in Requests, pc[r] = "serve", Release(r) PROVE Chosen'
  <2>1. UNCHANGED round /\ served' = [served EXCEPT ![r] = None] /\ End(r) /\ cands[r] = <<>> /\ ~held[r]
    BY <1>11 DEF Release, Where, Typed, RoundTyped
  <2>2. OwnBeforePublic'
    BY <1>2, <2>1 DEF End, Go, round, Typed, AskTyped
  <2>3. Pins' /\ Apart'
    BY <1>3, <2>1, NoList DEF End, round, Typed, AskTyped
  <2> QED
    BY <2>2, <2>3 DEF Chosen
<1>12. CASE UNCHANGED <<pc, pin, cands, held, res, winner, served>>
  BY <1>12 DEF Chosen, Pins, Apart, OwnBeforePublic
<1>13. ASSUME NEW r \in Requests, Again(r) \/ GiveUp(r) \/ Leave(r) \/ Done(r) \/ Admit(r) PROVE Chosen'
  BY <1>10, <1>11, <1>12, <1>13 DEF Again, GiveUp, Leave, Done, Admit, round, ask
<1>14. ASSUME NEW k \in Keys, Expire(k) PROVE Chosen'
  BY <1>12, <1>14 DEF Expire, round, ask
<1>15. ASSUME NEW p \in Peers, NEW c \in inst.caps, Advertise(p, c) PROVE Chosen'
  BY <1>12, <1>15 DEF Advertise, round, ask
<1>16. CASE UNCHANGED vars
  BY <1>12, <1>16 DEF vars
<1> QED
  BY <1>4, <1>5, <1>6, <1>7, <1>8, <1>9, <1>13, <1>14, <1>15, <1>16 DEF Next, Step

-----------------------------------------------------------------------------
(* Slots.  A request has two at most: the one its first candidate holds,   *)
(* and the one it is served with; in it is a candidate.                    *)
Slot == Requests \X {"held", "served"}

slots == [x \in Slot |->
            IF x[2] = "served" THEN served[x[1]]
            ELSE IF held[x[1]] THEN cands[x[1]][1] ELSE None]

(* The counts of all places, this device's among them.                     *)
total == [p \in Places |-> IF p = Self THEN local ELSE inflight[p]]

At(f, p)     == {x \in Slot : f[x] # None /\ f[x].place = p}
Low(f, p, m) == {x \in At(f, p) : f[x].cap \in 1..m}

(* A count is the number of slots; and those that read a capacity of m at  *)
(* most are m at most, whatever the others read.                           *)
Counted(f, count) ==
  /\ count \in [Places -> Int]
  /\ \A p \in Places : /\ count[p] = Cardinality(At(f, p))
                       /\ \A m \in Nat : Cardinality(Low(f, p, m)) <= m

Counts == inflight \in [Peers -> Int] /\ Counted(slots, total)

(* Sets of slots, and what a step does to them. *)
LEMMA SlotsFinite == ASSUME NEW f, NEW p, NEW m
                     PROVE  /\ IsFiniteSet(At(f, p)) /\ Cardinality(At(f, p)) \in Nat
                            /\ IsFiniteSet(Low(f, p, m)) /\ Cardinality(Low(f, p, m)) \in Nat
                            /\ Cardinality(Low(f, p, m)) <= Cardinality(At(f, p))
<1>1. IsFiniteSet({"held", "served"})
  <2>1. IsFiniteSet({"held"})
    BY FS_Singleton
  <2>2. IsFiniteSet({"held"} \cup {"served"})
    BY <2>1, FS_AddElement
  <2>3. {"held", "served"} = {"held"} \cup {"served"}
    OBVIOUS
  <2> QED
    BY <2>2, <2>3
<1>2. IsFiniteSet(Slot)
  BY <1>1, FS_Product, FiniteAssumption DEF Slot
<1>3. At(f, p) \subseteq Slot /\ Low(f, p, m) \subseteq At(f, p)
  BY DEF At, Low
<1>4. IsFiniteSet(At(f, p)) /\ IsFiniteSet(Low(f, p, m))
  BY <1>2, <1>3, FS_Subset
<1> QED
  BY <1>3, <1>4, FS_Subset, FS_CardinalityType

(* A count goes up, or down, by one.                                       *)
LEMMA AcquireIs ==
  ASSUME Typed, total \in [Places -> Int], inflight \in [Peers -> Int], NEW c \in Cand, Acquire(c)
  PROVE  /\ total' = [total EXCEPT ![c.place] = @ + 1]
         /\ c.cap = 0 \/ total[c.place] < c.cap
         /\ inflight' \in [Peers -> Int]
<1>1. c.place \in Places /\ c.cap \in Nat /\ (c.place = Self => c.cap = 0)
  BY CandIs
<1>2. Self \in Places /\ Self \notin Peers /\ Peers \subseteq Places
  BY PlaceAssumption DEF Places
<1>3. CASE c.place = Self /\ local' = local + 1 /\ UNCHANGED inflight
  BY <1>1, <1>2, <1>3 DEF total
<1>4. CASE /\ c.place # Self /\ (c.cap = 0 \/ inflight[c.place] < c.cap)
           /\ inflight' = [inflight EXCEPT ![c.place] = @ + 1] /\ UNCHANGED local
  <2>1. c.place \in Peers
    BY <1>1, <1>4 DEF Places
  <2>2. \A p \in Peers : inflight'[p] = IF p = c.place THEN inflight[p] + 1 ELSE inflight[p]
    BY <1>4, <2>1
  <2>3. \A p \in Places : total'[p] = IF p = c.place THEN total[p] + 1 ELSE total[p]
    BY <1>2, <1>4, <2>1, <2>2 DEF total, Places
  <2>4. total' = [total EXCEPT ![c.place] = @ + 1]
    BY <1>1, <2>3 DEF total
  <2> QED
    BY <1>1, <1>4, <2>1, <2>4 DEF total
<1> QED
  BY <1>3, <1>4 DEF Acquire

LEMMA GiveBackIs ==
  ASSUME Typed, total \in [Places -> Int], inflight \in [Peers -> Int], NEW c \in Cand, GiveBack(c)
  PROVE  total' = [total EXCEPT ![c.place] = @ - 1] /\ inflight' \in [Peers -> Int]
<1>1. c.place \in Places
  BY CandIs
<1>2. Self \in Places /\ Self \notin Peers /\ Peers \subseteq Places
  BY PlaceAssumption DEF Places
<1>3. CASE c.place = Self /\ local' = local - 1 /\ UNCHANGED inflight
  BY <1>1, <1>2, <1>3 DEF total
<1>4. CASE /\ c.place # Self
           /\ inflight' = [inflight EXCEPT ![c.place] = @ - 1] /\ UNCHANGED local
  <2>1. c.place \in Peers
    BY <1>1, <1>4 DEF Places
  <2>2. \A p \in Peers : inflight'[p] = IF p = c.place THEN inflight[p] - 1 ELSE inflight[p]
    BY <1>4, <2>1
  <2>3. \A p \in Places : total'[p] = IF p = c.place THEN total[p] - 1 ELSE total[p]
    BY <1>2, <1>4, <2>1, <2>2 DEF total, Places
  <2> QED
    BY <1>1, <1>4, <2>1, <2>3 DEF total
<1> QED
  BY <1>3, <1>4 DEF GiveBack

(* A slot is taken: its place had room by the capacity the request read.   *)
LEMMA Taken ==
  ASSUME Typed, Counted(slots, total), NEW x \in Slot, slots[x] = None, NEW c \in Cand,
         total' = [total EXCEPT ![c.place] = @ + 1],
         c.cap = 0 \/ total[c.place] < c.cap,
         \A y \in Slot : slots'[y] = IF y = x THEN c ELSE slots[y]
  PROVE  Counted(slots', total')
<1> DEFINE g == slots'
           n == total'
<1>1. \A y \in Slot : g[y] = IF y = x THEN c ELSE slots[y]
  OBVIOUS
<1>2. c.place \in Places /\ c.cap \in Nat /\ c # None
  BY CandIs
<1>3. n \in [Places -> Int] /\ \A p \in Places : n[p] = IF p = c.place THEN total[p] + 1 ELSE total[p]
  BY <1>2 DEF Counted
<1> HIDE DEF g, n
<1>4. ASSUME NEW p \in Places, c.place # p
      PROVE  /\ n[p] = Cardinality(At(g, p))
             /\ \A m \in Nat : Cardinality(Low(g, p, m)) <= m
  <2>1. At(g, p) = At(slots, p)
    BY <1>1, <1>4 DEF At
  <2>2. \A m \in Nat : Low(g, p, m) = Low(slots, p, m)
    BY <1>1, <2>1 DEF Low, At
  <2> QED
    BY <1>3, <1>4, <2>1, <2>2 DEF Counted
<1>5. /\ n[c.place] = Cardinality(At(g, c.place))
      /\ \A m \in Nat : Cardinality(Low(g, c.place, m)) <= m
  <2> DEFINE p == c.place
  <2>1. At(g, p) = At(slots, p) \cup {x} /\ x \notin At(slots, p)
    BY <1>1, <1>2 DEF At
  <2>2. Cardinality(At(g, p)) = Cardinality(At(slots, p)) + 1
    BY <2>1, SlotsFinite, FS_AddElement
  <2>3. total[p] = Cardinality(At(slots, p)) /\ total[p] \in Int
    BY <1>2 DEF Counted
  <2>4. ASSUME NEW m \in Nat PROVE Cardinality(Low(g, p, m)) <= m
    <3>1. CASE c.cap \in 1..m
      <4>1. Cardinality(At(g, p)) <= m
        BY <1>2, <2>2, <2>3, <3>1
      <4> QED
        BY <4>1, SlotsFinite
    <3>2. CASE c.cap \notin 1..m
      <4>1. Low(g, p, m) = Low(slots, p, m)
        BY <1>1, <2>1, <3>2 DEF Low, At
      <4> QED
        BY <1>2, <4>1 DEF Counted
    <3> QED
      BY <3>1, <3>2
  <2> QED
    BY <1>2, <1>3, <2>2, <2>3, <2>4
<1> QED
  BY <1>3, <1>4, <1>5 DEF Counted, g, n

(* A slot is given back.                                                   *)
LEMMA GivenBack ==
  ASSUME Typed, Counted(slots, total), NEW x \in Slot, slots[x] \in Cand,
         total' = [total EXCEPT ![slots[x].place] = @ - 1],
         \A y \in Slot : slots'[y] = IF y = x THEN None ELSE slots[y]
  PROVE  Counted(slots', total')
<1> DEFINE g == slots'
           n == total'
           c == slots[x]
<1>1. \A y \in Slot : g[y] = IF y = x THEN None ELSE slots[y]
  OBVIOUS
<1>2. c.place \in Places /\ c # None
  BY CandIs
<1>3. n \in [Places -> Int] /\ \A p \in Places : n[p] = IF p = c.place THEN total[p] - 1 ELSE total[p]
  BY <1>2 DEF Counted
<1> HIDE DEF g, n
<1>4. \A p \in Places : At(g, p) = At(slots, p) \ {x}
  BY <1>1 DEF At
<1>5. ASSUME NEW p \in Places, NEW m \in Nat PROVE Cardinality(Low(g, p, m)) <= m
  <2>1. Low(g, p, m) \subseteq Low(slots, p, m)
    BY <1>1, <1>4 DEF Low, At
  <2>2. Cardinality(Low(g, p, m)) <= Cardinality(Low(slots, p, m))
    BY <2>1, SlotsFinite, FS_Subset
  <2>3. Cardinality(Low(slots, p, m)) <= m
    BY DEF Counted
  <2> QED
    BY <2>2, <2>3, SlotsFinite
<1>6. ASSUME NEW p \in Places PROVE n[p] = Cardinality(At(g, p))
  <2>1. total[p] = Cardinality(At(slots, p))
    BY DEF Counted
  <2>2. CASE c.place = p
    <3>1. x \in At(slots, p)
      BY <1>2, <2>2 DEF At
    <3>2. Cardinality(At(g, p)) = Cardinality(At(slots, p)) - 1
      <4>1. At(g, p) = At(slots, p) \ {x} /\ IsFiniteSet(At(slots, p))
        BY <1>4, SlotsFinite
      <4> QED
        BY <3>1, <4>1, FS_RemoveElement
    <3> QED
      BY <1>3, <2>1, <2>2, <3>2
  <2>3. CASE c.place # p
    <3>1. At(g, p) = At(slots, p)
      BY <1>4, <2>3 DEF At
    <3> QED
      BY <1>3, <2>1, <2>3, <3>1
  <2> QED
    BY <2>2, <2>3
<1> QED
  BY <1>3, <1>5, <1>6 DEF Counted, g, n

(* A slot that is held becomes the one the request is served with.         *)
LEMMA HeldIsServed ==
  ASSUME Counted(slots, total), NEW x \in Slot, NEW y \in Slot, x # y, slots[y] = None,
         UNCHANGED total,
         \A z \in Slot : slots'[z] = IF z = y THEN slots[x] ELSE IF z = x THEN None ELSE slots[z]
  PROVE  Counted(slots', total')
<1> DEFINE g == slots'
<1>1. \A z \in Slot : g[z] = IF z = y THEN slots[x] ELSE IF z = x THEN None ELSE slots[z]
  OBVIOUS
<1> HIDE DEF g
<1>2. ASSUME NEW S, NEW T, IsFiniteSet(S),
             T = IF x \in S THEN (S \ {x}) \cup {y} ELSE S, y \notin S
      PROVE  Cardinality(T) = Cardinality(S)
  <2>1. CASE x \in S
    <3>1. IsFiniteSet(S \ {x}) /\ Cardinality(S \ {x}) = Cardinality(S) - 1
      BY <1>2, <2>1, FS_RemoveElement
    <3>2. Cardinality((S \ {x}) \cup {y}) = Cardinality(S \ {x}) + 1
      BY <1>2, <3>1, FS_AddElement
    <3> QED
      BY <1>2, <2>1, <3>1, <3>2, FS_CardinalityType
  <2> QED
    BY <1>2, <2>1
<1>3. ASSUME NEW p \in Places PROVE Cardinality(At(g, p)) = Cardinality(At(slots, p))
  <2>1. At(g, p) = (IF x \in At(slots, p) THEN (At(slots, p) \ {x}) \cup {y} ELSE At(slots, p))
    BY <1>1 DEF At
  <2>2. y \notin At(slots, p)
    BY DEF At
  <2> HIDE DEF At
  <2> QED
    BY <1>2, <2>1, <2>2, SlotsFinite
<1>4. ASSUME NEW p \in Places, NEW m \in Nat
      PROVE  Cardinality(Low(g, p, m)) = Cardinality(Low(slots, p, m))
  <2>1. Low(g, p, m) = (IF x \in Low(slots, p, m) THEN (Low(slots, p, m) \ {x}) \cup {y}
                                                  ELSE Low(slots, p, m))
    BY <1>1 DEF Low, At
  <2>2. y \notin Low(slots, p, m)
    BY DEF Low, At
  <2> QED
    BY <1>2, <2>1, <2>2, SlotsFinite
<1> QED
  BY <1>3, <1>4 DEF Counted, g

(* A slot is named by a request and a kind, and what is in it goes by them. *)
HeldBy(r, z) ==
  /\ slots[z]  = (IF held[r] THEN cands[r][1] ELSE None)
  /\ slots'[z] = (IF held'[r] THEN cands'[r][1] ELSE None)
  /\ \A q \in Requests : z # <<q, "served">> /\ (z = <<q, "held">> <=> q = r)
ServedBy(r, z) ==
  /\ slots[z] = served[r] /\ slots'[z] = served'[r]
  /\ \A q \in Requests : z # <<q, "held">> /\ (z = <<q, "served">> <=> q = r)

LEMMA SlotValues ==
  /\ \A z \in Slot : \E r \in Requests : HeldBy(r, z) \/ ServedBy(r, z)
  /\ \A r \in Requests : HeldBy(r, <<r, "held">>) /\ ServedBy(r, <<r, "served">>)
<1>1. ASSUME NEW r \in Requests PROVE HeldBy(r, <<r, "held">>)
  <2> DEFINE z == <<r, "held">>
  <2>1. z \in Slot /\ z[1] = r /\ z[2] = "held"
    BY DEF Slot
  <2>2. slots[z] = (IF held[r] THEN cands[r][1] ELSE None)
    BY <2>1 DEF slots
  <2>3. slots'[z] = (IF held'[r] THEN cands'[r][1] ELSE None)
    BY <2>1 DEF slots
  <2>4. \A q \in Requests : z # <<q, "served">> /\ (z = <<q, "held">> <=> q = r)
    OBVIOUS
  <2> QED
    BY <2>2, <2>3, <2>4 DEF HeldBy
<1>2. ASSUME NEW r \in Requests PROVE ServedBy(r, <<r, "served">>)
  <2> DEFINE z == <<r, "served">>
  <2>1. z \in Slot /\ z[1] = r /\ z[2] = "served"
    BY DEF Slot
  <2>2. slots[z] = served[r] /\ slots'[z] = served'[r]
    BY <2>1 DEF slots
  <2>3. \A q \in Requests : z # <<q, "held">> /\ (z = <<q, "served">> <=> q = r)
    OBVIOUS
  <2> QED
    BY <2>2, <2>3 DEF ServedBy
<1>3. ASSUME NEW z \in Slot PROVE \E r \in Requests : HeldBy(r, z) \/ ServedBy(r, z)
  <2>1. PICK r \in Requests : z = <<r, "held">> \/ z = <<r, "served">>
    BY DEF Slot
  <2> QED
    BY <1>1, <1>2, <2>1
<1> QED
  BY <1>1, <1>2, <1>3

(* Nothing in a slot changes.                                              *)
LEMMA Untouched ==
  ASSUME Counts, UNCHANGED <<inflight, local>>,
         \A r \in Requests : /\ held'[r] = held[r] /\ served'[r] = served[r]
                             /\ held[r] => cands'[r][1] = cands[r][1]
  PROVE  Counts'
<1>1. slots' = slots
  <2>1. \A x \in Slot : x[1] \in Requests
    BY DEF Slot
  <2> QED
    BY <2>1 DEF slots
<1>2. total' = total
  BY DEF total
<1> QED
  BY <1>1, <1>2 DEF Counts

(* Every count stays the number of slots at its place: one action at a     *)
(* time, by what it does to the slots.                                     *)
LEMMA CountsNext == Typed /\ Where /\ Counts /\ [Next]_vars => Counts'
<1> SUFFICES ASSUME Typed, Where, Counts, [Next]_vars PROVE Counts'
  OBVIOUS
<1>0. /\ held \in [Requests -> BOOLEAN] /\ served \in [Requests -> Cand \cup {None}]
      /\ cands \in [Requests -> Lists(Cand)]
      /\ total \in [Places -> Int] /\ inflight \in [Peers -> Int] /\ Counted(slots, total)
  BY DEF Typed, RoundTyped, Counts, Counted
<1>1. ASSUME NEW r \in Requests, NEW i \in DOMAIN cands[r] PROVE cands[r][i] \in Cand
  <2>1. cands[r] \in Lists(Cand)
    BY <1>0
  <2> QED
    BY <2>1, ListIs
<1>2. \A r \in Requests : <<r, "held">> \in Slot /\ <<r, "served">> \in Slot /\ <<r, "held">> # <<r, "served">>
  BY DEF Slot
<1>3. ASSUME NEW r \in Requests, Rank(r) PROVE Counts'
  <2>1. UNCHANGED <<inflight, local, served>> /\ pc[r] = "rank" /\ ~held[r]
    BY <1>0, <1>3 DEF Rank, counts, Where
  <2>2. UNCHANGED held /\ \A q \in Requests \ {r} : cands'[q] = cands[q]
    BY <1>0, <1>3, RankIs DEF round, Ranks
  <2> QED
    BY <1>0, <2>1, <2>2, Untouched
<1>4. ASSUME NEW r \in Requests, Assign(r) PROVE Counts'
  <2> DEFINE c == cands[r][1]
             x == <<r, "held">>
  <2>1. ~held[r] /\ c \in Cand /\ UNCHANGED <<cands, served>>
    BY <1>0, <1>1, <1>4 DEF Assign, Where
  <2>2. CASE UNCHANGED <<inflight, local, held>>
    BY <2>1, <2>2, Untouched
  <2>3. CASE Acquire(c) /\ held' = [held EXCEPT ![r] = TRUE]
    <3>1. slots[x] = None
      BY <2>1, SlotValues DEF HeldBy
    <3>2. ASSUME NEW z \in Slot PROVE slots'[z] = IF z = x THEN c ELSE slots[z]
      <4>1. PICK q \in Requests : HeldBy(q, z) \/ ServedBy(q, z)
        BY SlotValues
      <4>2. CASE HeldBy(q, z)
        BY <1>0, <2>1, <2>3, <4>2 DEF HeldBy
      <4>3. CASE ServedBy(q, z)
        BY <1>0, <2>1, <2>3, <4>3 DEF ServedBy
      <4> QED
        BY <4>1, <4>2, <4>3
    <3>3. /\ total' = [total EXCEPT ![c.place] = @ + 1] /\ inflight' \in [Peers -> Int]
          /\ c.cap = 0 \/ total[c.place] < c.cap
      BY <1>0, <2>1, <2>3, AcquireIs
    <3>4. Counted(slots', total')
      BY <1>0, <1>2, <2>1, <3>1, <3>2, <3>3, Taken
    <3> QED
      BY <3>3, <3>4 DEF Counts
  <2> QED
    BY <1>4, <2>2, <2>3 DEF Assign
<1>5. ASSUME NEW r \in Requests, Walk(r) PROVE Counts'
  <2> DEFINE i == at[r]
             c == cands[r][i]
             x == <<r, "held">>
             y == <<r, "served">>
  <2>1. served[r] = None /\ UNCHANGED cands /\ (i \in DOMAIN cands[r] => c \in Cand)
    BY <1>1, <1>5 DEF Walk, Where
  <2>2. slots[y] = None
    BY <2>1, SlotValues DEF ServedBy
  <2>3. CASE UNCHANGED <<inflight, local, held, served>>
    BY <2>1, <2>3, Untouched
  <2>4. CASE /\ i = 1 /\ held[r] /\ held' = [held EXCEPT ![r] = FALSE]
             /\ served' = [served EXCEPT ![r] = c] /\ UNCHANGED <<inflight, local>>
    <3>1. slots[x] = c
      BY <2>4, SlotValues DEF HeldBy
    <3>2. ASSUME NEW z \in Slot
          PROVE  slots'[z] = IF z = y THEN slots[x] ELSE IF z = x THEN None ELSE slots[z]
      <4>1. PICK q \in Requests : HeldBy(q, z) \/ ServedBy(q, z)
        BY SlotValues
      <4>2. CASE HeldBy(q, z)
        BY <1>0, <2>1, <2>4, <3>1, <4>2 DEF HeldBy
      <4>3. CASE ServedBy(q, z)
        BY <1>0, <2>1, <2>4, <3>1, <4>3 DEF ServedBy
      <4> QED
        BY <4>1, <4>2, <4>3
    <3>3. total' = total
      BY <2>4 DEF total
    <3>4. Counted(slots', total')
      BY <1>0, <1>2, <2>2, <3>2, <3>3, HeldIsServed
    <3> QED
      BY <1>0, <2>4, <3>4 DEF Counts
  <2>5. CASE /\ i \in DOMAIN cands[r] /\ Acquire(c)
             /\ served' = [served EXCEPT ![r] = c] /\ UNCHANGED held
    <3>1. ASSUME NEW z \in Slot PROVE slots'[z] = IF z = y THEN c ELSE slots[z]
      <4>1. PICK q \in Requests : HeldBy(q, z) \/ ServedBy(q, z)
        BY SlotValues
      <4>2. CASE HeldBy(q, z)
        BY <1>0, <2>1, <2>5, <4>2 DEF HeldBy
      <4>3. CASE ServedBy(q, z)
        BY <1>0, <2>1, <2>5, <4>3 DEF ServedBy
      <4> QED
        BY <4>1, <4>2, <4>3
    <3>2. /\ total' = [total EXCEPT ![c.place] = @ + 1] /\ inflight' \in [Peers -> Int]
          /\ c.cap = 0 \/ total[c.place] < c.cap
      BY <1>0, <2>1, <2>5, AcquireIs
    <3>3. Counted(slots', total')
      BY <1>0, <1>2, <2>1, <2>2, <2>5, <3>1, <3>2, Taken
    <3> QED
      BY <3>2, <3>3 DEF Counts
  <2> QED
    BY <1>5, <2>3, <2>4, <2>5 DEF Walk, counts, Finish
<1>6. ASSUME NEW r \in Requests, Return(r) PROVE Counts'
  <2> DEFINE x == <<r, "held">>
             c == cands[r][1]
  <2>1. /\ held' = [held EXCEPT ![r] = FALSE] /\ UNCHANGED served
        /\ \A q \in Requests \ {r} : cands'[q] = cands[q]
    BY <1>0, <1>6 DEF Return, ClearRound
  <2>2. CASE ~held[r] /\ UNCHANGED <<inflight, local>>
    BY <1>0, <2>1, <2>2, Untouched
  <2>3. CASE held[r] /\ GiveBack(c)
    <3>1. c \in Cand /\ slots[x] = c
      BY <1>1, <2>3, SlotValues DEF HeldBy, Where
    <3>2. ASSUME NEW z \in Slot PROVE slots'[z] = IF z = x THEN None ELSE slots[z]
      <4>1. PICK q \in Requests : HeldBy(q, z) \/ ServedBy(q, z)
        BY SlotValues
      <4>2. CASE HeldBy(q, z)
        BY <1>0, <2>1, <4>2 DEF HeldBy
      <4>3. CASE ServedBy(q, z)
        BY <1>0, <2>1, <4>3 DEF ServedBy
      <4> QED
        BY <4>1, <4>2, <4>3
    <3>3. total' = [total EXCEPT ![c.place] = @ - 1] /\ inflight' \in [Peers -> Int]
      BY <1>0, <2>3, <3>1, GiveBackIs
    <3>4. Counted(slots', total')
      BY <1>0, <1>2, <3>1, <3>2, <3>3, GivenBack
    <3> QED
      BY <3>3, <3>4 DEF Counts
  <2> QED
    BY <1>6, <2>2, <2>3 DEF Return
<1>7. ASSUME NEW r \in Requests, pc[r] = "serve", Release(r) PROVE Counts'
  <2> DEFINE y == <<r, "served">>
             c == served[r]
  <2>1. c \in Cand /\ GiveBack(c) /\ served' = [served EXCEPT ![r] = None] /\ UNCHANGED <<cands, held>>
    BY <1>0, <1>7 DEF Release, round, Where
  <2>2. slots[y] = c
    BY SlotValues DEF ServedBy
  <2>3. ASSUME NEW z \in Slot PROVE slots'[z] = IF z = y THEN None ELSE slots[z]
    <3>1. PICK q \in Requests : HeldBy(q, z) \/ ServedBy(q, z)
      BY SlotValues
    <3>2. CASE HeldBy(q, z)
      BY <1>0, <2>1, <3>2 DEF HeldBy
    <3>3. CASE ServedBy(q, z)
      BY <1>0, <2>1, <3>3 DEF ServedBy
    <3> QED
      BY <3>1, <3>2, <3>3
  <2>4. total' = [total EXCEPT ![c.place] = @ - 1] /\ inflight' \in [Peers -> Int]
    BY <1>0, <2>1, GiveBackIs
  <2>5. Counted(slots', total')
    BY <1>0, <1>2, <2>1, <2>2, <2>3, <2>4, GivenBack
  <2> QED
    BY <2>4, <2>5 DEF Counts
<1>8. ASSUME NEW r \in Requests, pc[r] = "retry", ClearRound(r), UNCHANGED <<counts, served>> PROVE Counts'
  <2>1. ~held[r] /\ UNCHANGED held /\ \A q \in Requests \ {r} : cands'[q] = cands[q]
    BY <1>0, <1>8 DEF ClearRound, Where
  <2> QED
    BY <1>0, <1>8, <2>1, Untouched DEF counts
<1>9. CASE UNCHANGED <<counts, cands, held, served>>
  BY <1>9, Untouched DEF counts
<1>10. ASSUME NEW r \in Requests,
              \/ Arrive(r) \/ Probe(r) \/ Again(r) \/ GiveUp(r) \/ Admit(r) \/ Done(r) \/ Leave(r)
       PROVE  Counts'
  BY <1>7, <1>8, <1>9, <1>10 DEF Arrive, Probe, Again, GiveUp, Admit, Done, Leave, round
<1>11. ASSUME NEW k \in Keys, Expire(k) PROVE Counts'
  BY <1>9, <1>11 DEF Expire, round
<1>12. ASSUME NEW p \in Peers, NEW c \in inst.caps, Advertise(p, c) PROVE Counts'
  BY <1>9, <1>12 DEF Advertise, round
<1>13. CASE UNCHANGED vars
  BY <1>9, <1>13 DEF vars, counts
<1> QED
  BY <1>3, <1>4, <1>5, <1>6, <1>10, <1>11, <1>12, <1>13 DEF Next, Step

-----------------------------------------------------------------------------
(* The turns of a conversation that a peer is serving.                     *)
Turns(k, p) == {r \in Requests : served[r] # None /\ served[r].place = p /\ key[r] = k}

Tallied ==
  /\ sticky \in [Keys \X Peers -> Int]
  /\ \A k \in Keys, p \in Peers : sticky[<<k, p>>] = Cardinality(Turns(k, p))

LEMMA TurnsFinite ==
  /\ \A k, p : IsFiniteSet(Turns(k, p)) /\ Cardinality(Turns(k, p)) \in Nat
  /\ \A k, p : IsFiniteSet(Turns(k, p)')
<1>1. \A k, p : Turns(k, p) \subseteq Requests /\ Turns(k, p)' \subseteq Requests
  BY DEF Turns
<1> QED
  BY <1>1, FiniteAssumption, FS_Subset, FS_CardinalityType

(* A turn is counted from its commit to its release.                       *)
LEMMA TalliedNext == Typed /\ Where /\ Tallied /\ [Next]_vars => Tallied'
<1> SUFFICES ASSUME Typed, Where, Tallied, [Next]_vars PROVE Tallied'
  OBVIOUS
<1>0. /\ served \in [Requests -> Cand \cup {None}] /\ key \in [Requests -> Keys \cup {None}]
      /\ None \notin Keys /\ sticky \in [Keys \X Peers -> Int]
  BY PlaceAssumption DEF Typed, AskTyped, Tallied
<1>1. ASSUME UNCHANGED sticky,
             \A r \in Requests : /\ served'[r] = served[r]
                                 /\ served[r] # None => key'[r] = key[r]
      PROVE  Tallied'
  <2>1. \A k, p : Turns(k, p)' = Turns(k, p)
    BY <1>1 DEF Turns
  <2> QED
    BY <1>1, <2>1 DEF Tallied
<1>2. ASSUME NEW r \in Requests, NEW c \in Cand, served[r] = None,
             UNCHANGED key, Finish(r, c)
      PROVE  Tallied'
  <2>1. served' = [served EXCEPT ![r] = c] /\ c.place \in Places /\ c # None
    BY <1>2, CandIs DEF Finish
  <2>2. CASE key[r] = None \/ c.place = Self
    <3>1. UNCHANGED sticky
      BY <1>2, <2>2 DEF Finish
    <3>2. \A k \in Keys, p \in Peers : Turns(k, p)' = Turns(k, p)
      BY <1>0, <1>2, <2>1, <2>2, PlaceAssumption DEF Turns
    <3> QED
      BY <3>1, <3>2 DEF Tallied
  <2>3. CASE key[r] # None /\ c.place # Self
    <3>0. key[r] \in Keys /\ c.place \in Peers
      BY <1>0, <2>1, <2>3 DEF Places
    <3>1. PICK k0 \in Keys, p0 \in Peers :
            k0 = key[r] /\ p0 = c.place /\ sticky' = [sticky EXCEPT ![<<k0, p0>>] = @ + 1]
      BY <1>0, <1>2, <2>3, <3>0 DEF Finish
    <3>2. /\ Turns(k0, p0)' = Turns(k0, p0) \cup {r} /\ r \notin Turns(k0, p0)
          /\ \A k \in Keys, p \in Peers : <<k, p>> # <<k0, p0>> => Turns(k, p)' = Turns(k, p)
      BY <1>0, <1>2, <2>1, <3>1 DEF Turns
    <3>3. Cardinality(Turns(k0, p0)') = Cardinality(Turns(k0, p0)) + 1
      BY <3>2, TurnsFinite, FS_AddElement
    <3>4. /\ sticky' \in [Keys \X Peers -> Int]
          /\ sticky'[<<k0, p0>>] = sticky[<<k0, p0>>] + 1
          /\ \A k \in Keys, p \in Peers : <<k, p>> # <<k0, p0>> => sticky'[<<k, p>>] = sticky[<<k, p>>]
      BY <1>0, <3>1
    <3>5. ASSUME NEW k \in Keys, NEW p \in Peers PROVE sticky'[<<k, p>>] = Cardinality(Turns(k, p)')
      <4>1. CASE <<k, p>> = <<k0, p0>>
        <5>1. k = k0 /\ p = p0
          BY <4>1
        <5>2. sticky[<<k0, p0>>] = Cardinality(Turns(k0, p0))
          BY DEF Tallied
        <5> QED
          BY <3>3, <3>4, <5>1, <5>2
      <4>2. CASE <<k, p>> # <<k0, p0>>
        BY <3>2, <3>4, <4>2 DEF Tallied
      <4> QED
        BY <4>1, <4>2
    <3> QED
      BY <3>4, <3>5 DEF Tallied
  <2> QED
    BY <2>2, <2>3
<1>3. ASSUME NEW r \in Requests, pc[r] = "serve", Release(r) PROVE Tallied'
  <2> DEFINE c == served[r]
  <2>1. /\ c \in Cand /\ c.place \in Places /\ c # None /\ served' = [served EXCEPT ![r] = None]
        /\ key' = [key EXCEPT ![r] = None]
    <3>1. c \in Cand /\ c # None
      BY <1>0, <1>3 DEF Where
    <3> QED
      BY <1>3, <3>1, CandIs DEF Release, End
  <2>2. CASE key[r] = None \/ c.place = Self
    <3>1. UNCHANGED sticky
      BY <1>3, <2>2 DEF Release
    <3>2. \A k \in Keys, p \in Peers : Turns(k, p)' = Turns(k, p)
      BY <1>0, <2>1, <2>2, PlaceAssumption DEF Turns
    <3> QED
      BY <3>1, <3>2 DEF Tallied
  <2>3. CASE key[r] # None /\ c.place # Self
    <3>0. key[r] \in Keys /\ c.place \in Peers
      BY <1>0, <2>1, <2>3 DEF Places
    <3>1. PICK k0 \in Keys, p0 \in Peers :
            k0 = key[r] /\ p0 = c.place /\ sticky' = [sticky EXCEPT ![<<k0, p0>>] = @ - 1]
      BY <1>0, <1>3, <2>3, <3>0 DEF Release
    <3>2. /\ Turns(k0, p0)' = Turns(k0, p0) \ {r} /\ r \in Turns(k0, p0)
          /\ \A k \in Keys, p \in Peers : <<k, p>> # <<k0, p0>> => Turns(k, p)' = Turns(k, p)
      BY <1>0, <2>1, <3>1 DEF Turns
    <3>3. Cardinality(Turns(k0, p0)') = Cardinality(Turns(k0, p0)) - 1
      BY <3>2, TurnsFinite, FS_RemoveElement
    <3>4. /\ sticky' \in [Keys \X Peers -> Int]
          /\ sticky'[<<k0, p0>>] = sticky[<<k0, p0>>] - 1
          /\ \A k \in Keys, p \in Peers : <<k, p>> # <<k0, p0>> => sticky'[<<k, p>>] = sticky[<<k, p>>]
      BY <1>0, <3>1
    <3>5. ASSUME NEW k \in Keys, NEW p \in Peers PROVE sticky'[<<k, p>>] = Cardinality(Turns(k, p)')
      <4>1. CASE <<k, p>> = <<k0, p0>>
        <5>1. k = k0 /\ p = p0
          BY <4>1
        <5>2. sticky[<<k0, p0>>] = Cardinality(Turns(k0, p0))
          BY DEF Tallied
        <5> QED
          BY <3>3, <3>4, <5>1, <5>2
      <4>2. CASE <<k, p>> # <<k0, p0>>
        BY <3>2, <3>4, <4>2 DEF Tallied
      <4> QED
        BY <4>1, <4>2
    <3> QED
      BY <3>4, <3>5 DEF Tallied
  <2> QED
    BY <2>2, <2>3
<1>4. ASSUME NEW r \in Requests, Walk(r) PROVE Tallied'
  <2>1. UNCHANGED key /\ served[r] = None
    BY <1>4 DEF Walk, ask, Where
  <2>2. CASE UNCHANGED <<sticky, served>>
    BY <1>1, <2>1, <2>2
  <2>3. CASE at[r] \in DOMAIN cands[r] /\ Finish(r, cands[r][at[r]])
    <3>1. cands[r] \in Lists(Cand)
      BY DEF Typed, RoundTyped
    <3>2. cands[r][at[r]] \in Cand
      BY <2>3, <3>1, ListIs
    <3> QED
      BY <1>2, <2>1, <2>3, <3>2
  <2> QED
    BY <1>4, <2>2, <2>3 DEF Walk, counts
<1>5. ASSUME NEW r \in Requests, served[r] = None, UNCHANGED <<sticky, served>>,
             \A q \in Requests \ {r} : key'[q] = key[q]
      PROVE  Tallied'
  BY <1>1, <1>5
<1>6. ASSUME NEW r \in Requests, End(r) PROVE \A q \in Requests \ {r} : key'[q] = key[q]
  BY <1>0, <1>6 DEF End
<1>7. ASSUME NEW r \in Requests, Arrive(r) \/ Rank(r) \/ Again(r) \/ GiveUp(r) \/ (pc[r] = "retry" /\ Leave(r))
      PROVE  Tallied'
  <2>1. served[r] = None /\ UNCHANGED <<sticky, served>>
    BY <1>7 DEF Arrive, Rank, Again, GiveUp, Leave, counts, Where
  <2>2. \A q \in Requests \ {r} : key'[q] = key[q]
    <3>1. CASE Arrive(r)
      BY <1>0, <3>1 DEF Arrive
    <3>2. CASE Rank(r)
      BY <1>6, <3>2, RankIs DEF ask, Ranks
    <3>3. CASE ~Arrive(r) /\ ~Rank(r)
      BY <1>6, <1>7, <3>3 DEF Again, GiveUp, Leave
    <3> QED
      BY <3>1, <3>2, <3>3
  <2> QED
    BY <1>5, <2>1, <2>2
<1>8. ASSUME NEW r \in Requests, Assign(r) \/ Probe(r) \/ Return(r) \/ Admit(r) PROVE Tallied'
  BY <1>1, <1>8 DEF Assign, Probe, Return, Admit, counts, ask
<1>9. ASSUME NEW r \in Requests, Done(r) \/ (pc[r] = "serve" /\ Leave(r)) PROVE Tallied'
  BY <1>3, <1>9 DEF Done, Leave
<1>10. ASSUME NEW r \in Requests, Leave(r) PROVE Tallied'
  BY <1>7, <1>9, <1>10 DEF Leave
<1>11. ASSUME NEW k \in Keys, Expire(k) PROVE Tallied'
  BY <1>1, <1>11 DEF Expire, counts, ask
<1>12. ASSUME NEW p \in Peers, NEW c \in inst.caps, Advertise(p, c) PROVE Tallied'
  BY <1>1, <1>12 DEF Advertise, counts, ask
<1>13. CASE UNCHANGED vars
  BY <1>1, <1>13 DEF vars
<1> QED
  BY <1>4, <1>7, <1>8, <1>9, <1>10, <1>11, <1>12, <1>13 DEF Next, Step

-----------------------------------------------------------------------------
IInv == Typed /\ Where /\ Ordered /\ Chosen /\ Counts /\ Tallied

LEMMA InitIInv == Init => IInv
<1> SUFFICES ASSUME Init PROVE IInv
  OBVIOUS
<1>1. Typed
  <2>1. inst \in Instances /\ inst.changes \in Nat /\ inst.rounds \in Nat /\ K \in Nat /\ EngineSlots \in Nat
    BY BoundAssumption DEF Init, Bounds
  <2>2. Cardinality({}) = 0 /\ \A S : <<>> \in Lists(S)
    BY FS_EmptySet, NoList
  <2>3. AskTyped
    BY <2>1 DEF Init, AskTyped, PCs
  <2>4. RoundTyped
    BY <2>1, <2>2 DEF Init, RoundTyped
  <2> QED
    BY <2>1, <2>2, <2>3, <2>4 DEF Init, Typed
<1>2. Where /\ Ordered
  BY NoList DEF Init, Where, Ordered, Orderly
<1>3. Chosen
  BY DEF Init, Chosen, Pins, Apart, OwnBeforePublic
<1>4. Counts
  <2>1. Cardinality({}) = 0
    BY FS_EmptySet
  <2>2. \A x \in Slot : slots[x] = None
    BY DEF Init, Slot, slots
  <2>3. \A p \in Places : At(slots, p) = {}
    BY <2>2 DEF At
  <2>4. \A p \in Places, m \in Nat : Low(slots, p, m) = {}
    BY <2>3 DEF Low
  <2>5. \A p \in Places, m \in Nat : Cardinality(Low(slots, p, m)) <= m
    <3> SUFFICES ASSUME NEW p \in Places, NEW m \in Nat PROVE Cardinality(Low(slots, p, m)) <= m
      OBVIOUS
    <3>1. Cardinality(Low(slots, p, m)) = 0
      BY <2>1, <2>4
    <3> QED
      BY <3>1
  <2>6. total \in [Places -> Int] /\ inflight \in [Peers -> Int] /\ \A p \in Places : total[p] = 0
    BY DEF Init, total, Places
  <2> QED
    BY <2>1, <2>3, <2>5, <2>6 DEF Counts, Counted
<1>5. Tallied
  <2>1. \A k, p : Turns(k, p) = {}
    BY DEF Init, Turns
  <2>2. sticky \in [Keys \X Peers -> Int] /\ \A k \in Keys, p \in Peers : sticky[<<k, p>>] = 0
    BY DEF Init
  <2> QED
    BY <2>1, <2>2, FS_EmptySet DEF Tallied
<1> QED
  BY <1>1, <1>2, <1>3, <1>4, <1>5 DEF IInv

LEMMA NextIInv == IInv /\ [Next]_vars => IInv'
  BY TypedNext, ChosenNext, CountsNext, TalliedNext DEF IInv

LEMMA Invariant == Spec => []IInv
  BY InitIInv, NextIInv, PTL DEF Spec

(* The slots at a place are those of the requests it serves and of those   *)
(* that hold one there: no request does both.                              *)
LEMMA SlotsAre ==
  ASSUME IInv, NEW p \in Places
  PROVE  /\ Cardinality(At(slots, p)) = Cardinality(Serving(p)) + Cardinality(Holding(p))
         /\ Cardinality(At(slots, p)) <= Cardinality(Requests)
         /\ Cardinality(At(slots, p)) \in Nat
<1> DEFINE S == {x \in At(slots, p) : x[2] = "served"}
           H == {x \in At(slots, p) : x[2] = "held"}
           s == [r \in Serving(p) |-> <<r, "served">>]
           h == [r \in Holding(p) |-> <<r, "held">>]
<1>1. IsFiniteSet(At(slots, p)) /\ Cardinality(At(slots, p)) \in Nat
  BY SlotsFinite
<1>2. At(slots, p) = S \cup H /\ S \cap H = {}
  BY DEF At, Slot
<1>3. \A r \in Requests : held[r] => cands[r][1] # None
  <2>1. \A r \in Requests : held[r] => 1 \in DOMAIN cands[r] /\ cands[r] \in Lists(Cand)
    BY DEF IInv, Where, Typed, RoundTyped
  <2>2. ASSUME NEW r \in Requests, held[r] PROVE cands[r][1] \in Cand
    BY <2>1, <2>2, ListIs
  <2> QED
    BY <2>2, CandIs DEF IInv
<1>4. \A r \in Requests : /\ slots[<<r, "served">>] = served[r] /\ <<r, "served">> \in Slot
                          /\ slots[<<r, "held">>] = (IF held[r] THEN cands[r][1] ELSE None)
                          /\ <<r, "held">> \in Slot
  BY SlotValues DEF HeldBy, ServedBy, Slot
<1>5. s \in Bijection(Serving(p), S)
  <2>1. \A r \in Serving(p) : s[r] \in S
    BY <1>4 DEF Serving, At
  <2>2. \A x \in S : \E r \in Serving(p) : s[r] = x
    <3> SUFFICES ASSUME NEW x \in S PROVE \E r \in Serving(p) : s[r] = x
      OBVIOUS
    <3>1. PICK r \in Requests : x = <<r, "served">>
      BY DEF At, Slot
    <3>2. r \in Serving(p)
      BY <1>4, <3>1 DEF At, Serving
    <3> QED
      BY <3>1, <3>2
  <2>3. \A a, b \in Serving(p) : s[a] = s[b] => a = b
    OBVIOUS
  <2>4. s \in [Serving(p) -> S]
    BY <2>1
  <2> HIDE DEF S, s
  <2> QED
    BY <2>2, <2>3, <2>4 DEF Bijection, Injection, IsInjective, Surjection
<1>6. h \in Bijection(Holding(p), H)
  <2>1. \A r \in Holding(p) : h[r] \in H
    BY <1>3, <1>4 DEF Holding, At
  <2>2. \A x \in H : \E r \in Holding(p) : h[r] = x
    <3> SUFFICES ASSUME NEW x \in H PROVE \E r \in Holding(p) : h[r] = x
      OBVIOUS
    <3>1. PICK r \in Requests : x = <<r, "held">>
      BY DEF At, Slot
    <3>2. r \in Holding(p)
      BY <1>4, <3>1 DEF At, Holding
    <3> QED
      BY <3>1, <3>2
  <2>3. \A a, b \in Holding(p) : h[a] = h[b] => a = b
    OBVIOUS
  <2>4. h \in [Holding(p) -> H]
    BY <2>1
  <2> HIDE DEF H, h
  <2> QED
    BY <2>2, <2>3, <2>4 DEF Bijection, Injection, IsInjective, Surjection
<1>7. Serving(p) \subseteq Requests /\ Holding(p) \subseteq Requests /\ Serving(p) \cap Holding(p) = {}
  BY DEF Serving, Holding, IInv, Chosen, Apart
<1> HIDE DEF S, H, s, h
<1>8. /\ IsFiniteSet(Serving(p)) /\ IsFiniteSet(Holding(p)) /\ IsFiniteSet(Requests)
      /\ IsFiniteSet(Serving(p) \cup Holding(p)) /\ Serving(p) \cup Holding(p) \subseteq Requests
  BY <1>7, FS_Subset, FiniteAssumption
<1>9. Cardinality(S) = Cardinality(Serving(p)) /\ IsFiniteSet(S)
  BY <1>5, <1>8, FS_Bijection DEF ExistsBijection
<1>10. Cardinality(H) = Cardinality(Holding(p)) /\ IsFiniteSet(H)
  BY <1>6, <1>8, FS_Bijection DEF ExistsBijection
<1>11. /\ {Cardinality(Serving(p)), Cardinality(Holding(p)), Cardinality(Requests)} \subseteq Nat
       /\ Cardinality({}) = 0
  BY <1>8, FS_CardinalityType, FS_EmptySet
<1>12. Cardinality(At(slots, p)) = Cardinality(S) + Cardinality(H)
  <2>1. Cardinality(S \cup H) = Cardinality(S) + Cardinality(H) - Cardinality(S \cap H)
    BY <1>9, <1>10, FS_Union
  <2>2. Cardinality(S \cap H) = 0 /\ Cardinality(S \cup H) = Cardinality(At(slots, p))
    BY <1>2, <1>11
  <2> QED
    BY <1>9, <1>10, <1>11, <2>1, <2>2
<1>13. Cardinality(Serving(p)) + Cardinality(Holding(p)) <= Cardinality(Requests)
  <2>1. Cardinality(Serving(p) \cup Holding(p)) = Cardinality(Serving(p)) + Cardinality(Holding(p)) - Cardinality({})
    BY <1>7, <1>8, FS_Union
  <2>2. Cardinality(Serving(p) \cup Holding(p)) <= Cardinality(Requests)
    BY <1>8, FS_Subset
  <2> QED
    BY <1>11, <2>1, <2>2
<1> QED
  BY <1>1, <1>9, <1>10, <1>12, <1>13

-----------------------------------------------------------------------------
(* Each count is at all times the number of requests assigned or committed *)
(* and not given back (endpoint_router.go:2411), for any number of         *)
(* requests and peers, and so never more than there are requests.          *)
THEOREM CountsAlways == Spec => []CountsExact
<1>1. IInv => CountsExact
  <2> SUFFICES ASSUME IInv PROVE CountsExact
    OBVIOUS
  <2>1. Self \in Places /\ Self \notin Peers /\ Peers \subseteq Places /\ Cardinality(Requests) \in Nat
    BY PlaceAssumption, FiniteAssumption, FS_CardinalityType DEF Places
  <2>2. \A p \in Places : /\ total[p] = Cardinality(Serving(p)) + Cardinality(Holding(p))
                          /\ total[p] \in 0..Cardinality(Requests)
    BY <2>1, SlotsAre DEF IInv, Counts, Counted
  <2>3. \A p \in Peers : total[p] = inflight[p]
    BY <2>1 DEF total
  <2>4. total[Self] = local
    BY <2>1 DEF total
  <2>5. \A k \in Keys, p \in Peers : sticky[<<k, p>>] = Cardinality(Turns(k, p))
    BY DEF IInv, Tallied
  <2>6. \A k, p : Turns(k, p) = {r \in Serving(p) : key[r] = k} /\ Turns(k, p) \subseteq Requests
    BY DEF Turns, Serving
  <2>7. \A k, p : Cardinality(Turns(k, p)) \in 0..Cardinality(Requests)
    BY <2>1, <2>6, TurnsFinite, FiniteAssumption, FS_Subset
  <2>8. sticky \in [Keys \X Peers -> 0..Cardinality(Requests)]
    <3>1. \A kp \in Keys \X Peers : sticky[kp] \in 0..Cardinality(Requests)
      BY <2>5, <2>7
    <3> QED
      BY <3>1 DEF IInv, Tallied
  <2>9. TypeOK
    <3>1. inflight \in [Peers -> 0..Cardinality(Requests)] /\ local \in 0..Cardinality(Requests)
      BY <2>1, <2>2, <2>3, <2>4 DEF IInv, Counts
    <3> QED
      BY <2>8, <3>1 DEF TypeOK, IInv
  <2> QED
    BY <2>1, <2>2, <2>3, <2>4, <2>5, <2>6, <2>9 DEF CountsExact
<1> QED
  BY Invariant, <1>1, PTL

(* A pinned request is served by its pin or not at all (probe.go:975),      *)
(* however often its round is tried again.                                 *)
THEOREM PinAlways == Spec => []PinHonoured
<1>1. IInv => PinHonoured
  BY DEF IInv, Chosen, Pins, PinHonoured
<1> QED
  BY Invariant, <1>1, PTL

(* A Public Share peer wins a round only when no computer of the user's    *)
(* own answered ready (endpoint_router.go:2117), for every order, sticky    *)
(* hoist, spread and tie-break.                                            *)
THEOREM OwnAlways == Spec => []OwnBeforePublic
<1>1. IInv => OwnBeforePublic
  BY DEF IInv, Chosen
<1> QED
  BY Invariant, <1>1, PTL

(* A peer that is being sent something is sent no more than it advertised  *)
(* to one of the requests that were let in (inflight.go:71), whatever the  *)
(* maps said before and after.                                             *)
THEOREM AdmissionAlways == Spec => []AdmissionKept
<1>1. IInv => AdmissionKept
  <2> SUFFICES ASSUME IInv, NEW p \in Peers, inflight[p] > 0,
                      \A c \in {served[r] : r \in Serving(p)} \cup {cands[r][1] : r \in Holding(p)} :
                        c.cap # 0 /\ ~(inflight[p] <= c.cap)
               PROVE  FALSE
    BY DEF AdmissionKept
  <2> DEFINE m == inflight[p] - 1
  <2>0. p \in Places /\ p # Self
    BY PlaceAssumption DEF Places
  <2>1. inflight[p] \in Int /\ m \in Nat /\ inflight[p] = Cardinality(At(slots, p))
    BY <2>0 DEF IInv, Counts, Counted, total
  <2>2. Cardinality(Low(slots, p, m)) <= m
    BY <2>0, <2>1 DEF IInv, Counts, Counted
  <2>3. ASSUME NEW x \in At(slots, p) PROVE slots[x].cap \in 1..m
    <3>1. x \in Slot /\ slots[x] # None /\ slots[x].place = p
      BY DEF At
    <3>2. slots[x] \in {served[r] : r \in Serving(p)} \cup {cands[r][1] : r \in Holding(p)}
      BY <3>1 DEF slots, Slot, Serving, Holding
    <3>3. slots[x] \in Cand
      <4>1. PICK r \in Requests : (held[r] /\ slots[x] = cands[r][1]) \/ (served[r] # None /\ slots[x] = served[r])
        BY <3>2 DEF Serving, Holding
      <4>2. cands[r] \in Lists(Cand) /\ (held[r] => 1 \in DOMAIN cands[r])
        BY DEF IInv, Where, Typed, RoundTyped
      <4>3. held[r] => cands[r][1] \in Cand
        BY <4>2, ListIs
      <4> QED
        BY <4>1, <4>3 DEF IInv, Typed
    <3>4. slots[x].cap \in Nat
      BY <3>3, CandIs DEF IInv
    <3> QED
      BY <2>1, <3>2, <3>4
  <2>4. Low(slots, p, m) = At(slots, p)
    BY <2>3 DEF Low
  <2> QED
    BY <2>1, <2>2, <2>4
<1> QED
  BY Invariant, <1>1, PTL

-----------------------------------------------------------------------------
(* The wait of a streamed turn for its peer. *)
Silent2 == <<"silent", "silent">>

(* Who has decided.  A cancel, done or on its way, follows a reason; the   *)
(* turn's end disarms the watch, and is what the reason says when there    *)
(* was one by then.                                                        *)
TurnDecided ==
  /\ disarmed <=> outcome # Nil
  /\ cancelled \/ timer = "tripped" \/ loop = "cancel" => reason # Nil
  /\ outcome # Nil /\ reason # Nil => outcome = reason

(* What was heard.  The count of misses is that of the answers lost last,  *)
(* and the watch that goes on has lost fewer than it may.                  *)
MissesCounted ==
  /\ loop \in {"sleep", "check", "probe"} => misses < Misses
  /\ misses >= 1 => heard[2] = "silent"
  /\ loop = "trip" /\ finding = Unreachable => heard = Silent2
  /\ reason = Unreachable => heard = Silent2 /\ loop \in {"cancel", "done"}

(* When.  The watch first looks after the grace, and its next look and its *)
(* ceiling are no earlier.                                                 *)
AfterGrace ==
  /\ loop # "done" => policy.watch
  /\ loop = "sleep" => wake >= policy.budget
  /\ loop \in {"check", "probe"} => now >= policy.budget
  /\ loop = "trip" /\ finding # Nil => now >= policy.budget
  /\ reason # Nil => now >= policy.budget

WaitInv == WaitTypeOK /\ TurnDecided /\ MissesCounted /\ AfterGrace

-----------------------------------------------------------------------------
(* A turn that is about to wait has decided and heard nothing. *)
LEMMA WaitInvInit == WaitInit => WaitInv
<1> SUFFICES ASSUME WaitInit PROVE WaitInv
  OBVIOUS
<1> USE PolicyAssumption, NoneAssumption DEF WaitInit, Policy, Misses, Outcomes, Reasons
<1>1. policy \in Policy
  OBVIOUS
<1>2. WaitTypeOK
  <2>1. wake \in 0..2 * Horizon
    BY <1>1
  <2>2. heard \in (Verdicts \cup {Nil}) \X (Verdicts \cup {Nil})
    OBVIOUS
  <2>3. loop \in {"sleep", "check", "probe", "trip", "cancel", "done"}
    OBVIOUS
  <2>4. client \in BOOLEAN /\ cancelled \in BOOLEAN /\ disarmed \in BOOLEAN /\ stopped \in BOOLEAN /\ working \in BOOLEAN
    BY Zenon
  <2>5. reason \in Reasons \cup {Nil} /\ finding \in Reasons \cup {Nil} /\ outcome \in Outcomes \cup {Nil}
    OBVIOUS
  <2>6. now \in 0..Horizon /\ misses \in 0..Misses
    OBVIOUS
  <2> QED
    BY <2>1, <2>2, <2>3, <2>4, <2>5, <2>6 DEF WaitTypeOK
<1>3. TurnDecided
  BY DEF TurnDecided
<1>4. MissesCounted
  BY DEF MissesCounted
<1>5. AfterGrace
  BY <1>1 DEF AfterGrace
<1> QED
  BY <1>2, <1>3, <1>4, <1>5 DEF WaitInv

(* classifyPeerWork says one of four things. *)
LEMMA ClassifyType == \A p \in Probes, f \in Facts : Classify(p, f) \in Verdicts
BY DEF Classify, Verdicts

(* Whatever the request, the watch, the timer and the client do next, the  *)
(* invariant stands.                                                       *)
LEMMA WaitInvStep == WaitInv /\ [WaitNext]_waitVars => WaitInv'
<1> SUFFICES ASSUME WaitInv, [WaitNext]_waitVars PROVE WaitInv'
  OBVIOUS
<1> USE PolicyAssumption, NoneAssumption
    DEF WaitInv, WaitTypeOK, TurnDecided, MissesCounted, AfterGrace, Policy, Misses, Silent2, Outcomes, Reasons, Verdicts,
        Timeout, StillBusy, Stopped, Unreachable, leg, watch
<1>1. ASSUME Tick PROVE WaitInv'
  BY <1>1 DEF Tick
<1>2. ASSUME Headers PROVE WaitInv'
  BY <1>2 DEF Headers
<1>3. ASSUME Fails PROVE WaitInv'
  BY <1>3 DEF Fails
<1>4. ASSUME HangUp PROVE WaitInv'
  <2>1. WaitTypeOK'
    <3>1. client' \in BOOLEAN /\ stopped' \in BOOLEAN
      BY <1>4, Zenon DEF HangUp
    <3> QED
      BY <1>4, <3>1 DEF HangUp
  <2>2. TurnDecided'
    BY <1>4 DEF HangUp
  <2>3. MissesCounted'
    BY <1>4 DEF HangUp
  <2>4. AfterGrace'
    BY <1>4 DEF HangUp
  <2> QED
    BY <2>1, <2>2, <2>3, <2>4
<1>5. ASSUME Disarm PROVE WaitInv'
  BY <1>5 DEF Disarm
<1>6. ASSUME Wakes PROVE WaitInv'
  BY <1>6 DEF Wakes, Returns
<1>7. ASSUME Check PROVE WaitInv'
  BY <1>7 DEF Check, Returns
<1>8. ASSUME Answer PROVE WaitInv'
  <2>1. PICK q \in Probes, f \in Facts :
          LET v == Classify(q, f) IN
          /\ heard' = <<heard[2], v>>
          /\ misses' = MissesAfter(v) /\ working' = (v = "working")
          /\ \/ v = "idle" /\ Returns(Stopped) /\ UNCHANGED wake
             \/ v = "unknowable" /\ Returns(Timeout) /\ UNCHANGED wake
             \/ v = "silent" /\ misses' >= Misses /\ Returns(Unreachable) /\ UNCHANGED wake
             \/ /\ v = "working" \/ (v = "silent" /\ misses' < Misses)
                /\ \/ stopped /\ Returns(Nil) /\ UNCHANGED wake
                   \/ /\ ~stopped /\ loop' = "sleep" /\ UNCHANGED finding
                      /\ wake' = IF policy.ceiling - now < policy.interval
                                 THEN policy.ceiling ELSE now + policy.interval
    BY <1>8 DEF Answer
  <2> DEFINE v == Classify(q, f)
  <2>2. v \in Verdicts
    BY ClassifyType
  <2>3. /\ loop = "probe"
        /\ UNCHANGED <<policy, now, leg, cancelled, reason, stopped, timer>>
    BY <1>8 DEF Answer
  <2>4. policy \in Policy /\ (policy.watch => policy.ceiling > policy.budget)
    OBVIOUS
  <2>5. /\ heard' = <<heard[2], v>>
        /\ misses' = IF v = "silent" THEN misses + 1 ELSE 0
        /\ working' = (v = "working")
    BY <2>1 DEF MissesAfter
  <2> HIDE DEF v
  <2>6. WaitTypeOK'
    BY <2>1, <2>2, <2>3, <2>4, <2>5 DEF Returns
  <2>7. TurnDecided'
    BY <2>1, <2>2, <2>3, <2>4, <2>5 DEF Returns
  <2>8. MissesCounted'
    BY <2>1, <2>2, <2>3, <2>4, <2>5 DEF Returns
  <2>9. AfterGrace'
    BY <2>1, <2>2, <2>3, <2>4, <2>5 DEF Returns
  <2> QED
    BY <2>6, <2>7, <2>8, <2>9
<1>9. ASSUME LoopTrips PROVE WaitInv'
  BY <1>9 DEF LoopTrips, Trip, Took
<1>10. ASSUME LoopCancels PROVE WaitInv'
  BY <1>10 DEF LoopCancels
<1>11. ASSUME TimerFires PROVE WaitInv'
  BY <1>11 DEF TimerFires, Trip, Took
<1>12. ASSUME TimerCancels PROVE WaitInv'
  BY <1>12 DEF TimerCancels
<1>13. ASSUME UNCHANGED waitVars PROVE WaitInv'
  BY <1>13 DEF waitVars
<1> QED
  BY <1>1, <1>2, <1>3, <1>4, <1>5, <1>6, <1>7, <1>8, <1>9, <1>10, <1>11, <1>12, <1>13 DEF WaitNext, Watch, Timer

-----------------------------------------------------------------------------
(* The invariant holds in every reachable state. *)
LEMMA WaitInvAlways == WaitSpec => []WaitInv
<1>1. WaitInit => WaitInv
  BY WaitInvInit
<1>2. WaitInv /\ [WaitNext]_waitVars => WaitInv'
  BY WaitInvStep
<1> QED
  BY <1>1, <1>2, PTL DEF WaitSpec

(* For all policies: a turn whose stream began is not cut by the watch or  *)
(* by its timer, and one that is cut ends with the reason it was cut for   *)
(* (preCommitWatch.trip and disarm, peerwait.go).                          *)
THEOREM CutsClean == WaitSpec => []CutsAreClean
<1>1. WaitInv => CutsAreClean
  BY NoneAssumption
  DEF WaitInv, WaitTypeOK, TurnDecided, CutsAreClean, StreamNotCut, CutIsNamed, Outcomes, Reasons, Timeout, StillBusy,
      Stopped, Unreachable
<1> QED
  BY <1>1, WaitInvAlways, PTL

(* For all policies: a turn ends with an unreachable peer only when its    *)
(* last two answers were lost, and nothing ends it before its grace        *)
(* (watchPeerWhileItWorks, peerwait.go).                                   *)
THEOREM SilentTwiceAlways == WaitSpec => []SilentTwice
<1>1. WaitInv => SilentTwice
  BY DEF WaitInv, MissesCounted, AfterGrace, SilentTwice, Silent2
<1> QED
  BY <1>1, WaitInvAlways, PTL
=============================================================================
