--------------------------- MODULE RequestRouting ---------------------------
(***************************************************************************)
(* How concurrent requests of this device share its peers and its own      *)
(* engine: the selection under Assignments' lock (router/assignments.go,   *)
(* endpoint_router.go), the readiness probes and the commit of one         *)
(* candidate (gateway/probe.go), the admission counts (inflight.go), the   *)
(* sticky bindings (sticky.go) and the release at the end (anthropic.go).  *)
(*                                                                         *)
(* What a peer is worth is abstracted to an arbitrary order of the         *)
(* candidates, which of them tie, and which peers the map offers; the      *)
(* order, the filters and the moves the code makes on top of it are kept.  *)
(* A pinned request is one a model row pins (PinnedStrict): it may not     *)
(* fall through to other computers.                                        *)
(***************************************************************************)
EXTENDS Integers, Sequences, FiniteSets, SequencesExt

CONSTANTS Requests,
          Peers,
          Public,     \* the peers there by a Public Share grant
          Self,       \* this device's own engine
          None,
          Keys,       \* sticky ids
          K,          \* probeFanoutK
          Attempts,   \* probeAttempts
          EngineSlots, \* slots of this device's engine
          Instances   \* bounds: see Bounds

Places == Peers \cup {Self}

(* Ready and resident, ready and not, ready without saying; not ready for  *)
(* want of capacity, for another reason; no answer.                        *)
AllAnswers == {"warm", "cold", "quiet", "full", "down", "miss"}
Ready      == {"warm", "cold", "quiet"}

(* What an instance lets happen: the requests made, <<sticky id or None,   *)
(* pin or None>>; the places the maps offer and the capacities they        *)
(* advertise, 0 for no limit; what probes find; how many rounds fit into a *)
(* request's capacity wait; how often an advertised capacity changes.      *)
Bounds == [asks : SUBSET ((Keys \cup {None}) \X (Peers \cup {None})),
           places : SUBSET Places, caps : SUBSET Nat, answers : SUBSET AllAnswers,
           rounds : Nat \ {0}, changes : Nat]

ASSUME PlaceAssumption == Public \subseteq Peers /\ Self \notin Peers /\ None \notin Places
                          /\ None \notin Keys /\ None \notin [place : Places, cap : Nat]
ASSUME FiniteAssumption == IsFiniteSet(Requests) /\ IsFiniteSet(Peers)
ASSUME BoundAssumption == Instances \subseteq Bounds
                          /\ {K, Attempts, EngineSlots} \subseteq Nat \ {0}

VARIABLES
  inst,
  cap,      \* peer -> the capacity the map advertises
  inflight, \* peer -> InFlightTracker count
  local,    \* Assignments.local
  engine,   \* the requests that hold a slot of this device's engine
  bound,    \* sticky id -> the peer it is bound to, or None
  sticky,   \* <<sticky id, peer>> -> StickyInFlight count
  pc, key, pin, attempt,
  cands,    \* the candidates of the round: place and the capacity read
  spread,   \* the peer the request is spread from, or None
  held,     \* the first candidate holds its assigned slot
  res,      \* what each probe found
  winner,   \* the index decided on, Len(cands) + 1 for none
  at,       \* the index the walk is at
  served,   \* the candidate committed, or None
  changes

vars == <<inst, cap, inflight, local, engine, bound, sticky, pc, key, pin, attempt,
          cands, spread, held, res, winner, at, served, changes>>

counts == <<inflight, local, sticky>>
round  == <<cands, spread, held, res, winner, at>>
ask    == <<key, pin, attempt>>
world  == <<inst, cap, changes>>

(* A candidate, with the capacity read; this device has no limit.          *)
Cand == {c \in [place : Places, cap : inst.caps \cup {0}] : c.place = Self => c.cap = 0}
PCs == {"idle", "rank", "assign", "probe", "walk", "return", "retry", "serve"}

Lists(S) == UNION {[1..n -> S] : n \in 0..K}

AskTyped ==
  /\ pc \in [Requests -> PCs]
  /\ key \in [Requests -> Keys \cup {None}] /\ pin \in [Requests -> Peers \cup {None}]
  /\ attempt \in [Requests -> 0..inst.rounds]

RoundTyped ==
  /\ cands \in [Requests -> Lists(Cand)]
  /\ res \in [Requests -> Lists(inst.answers \cup {"quiet", "miss"})]
  /\ \A r \in Requests : res[r] # <<>> => DOMAIN res[r] = DOMAIN cands[r]
  /\ winner \in [Requests -> 0..K + 1] /\ at \in [Requests -> 0..K + 1]
  /\ held \in [Requests -> BOOLEAN]
  /\ spread \in [Requests -> Peers \cup {None}]

(* All but the counts, whose bounds are more than types. *)
Typed ==
  /\ inst \in Instances
  /\ cap \in [Peers -> inst.caps] /\ changes \in 0..inst.changes
  /\ engine \subseteq Requests /\ Cardinality(engine) <= EngineSlots
  /\ bound \in [Keys -> Peers \cup {None}]
  /\ AskTyped /\ RoundTyped
  /\ served \in [Requests -> Cand \cup {None}]

TypeOK ==
  /\ Typed
  /\ inflight \in [Peers -> 0..Cardinality(Requests)]
  /\ local \in 0..Cardinality(Requests)
  /\ sticky \in [Keys \X Peers -> 0..Cardinality(Requests)]

Init ==
  /\ inst \in Instances
  /\ cap \in [Peers -> inst.caps] /\ changes = 0
  /\ inflight = [p \in Peers |-> 0] /\ local = 0 /\ engine = {}
  /\ bound = [k \in Keys |-> None] /\ sticky = [kp \in Keys \X Peers |-> 0]
  /\ pc = [r \in Requests |-> "idle"]
  /\ key = [r \in Requests |-> None] /\ pin = [r \in Requests |-> None]
  /\ attempt = [r \in Requests |-> 0]
  /\ cands = [r \in Requests |-> <<>>] /\ res = [r \in Requests |-> <<>>]
  /\ held = [r \in Requests |-> FALSE]
  /\ spread = [r \in Requests |-> None]
  /\ winner = [r \in Requests |-> 0] /\ at = [r \in Requests |-> 0]
  /\ served = [r \in Requests |-> None]

-----------------------------------------------------------------------------
Go(r, where) == pc' = [pc EXCEPT ![r] = where]

(* The request ends: nothing of it is kept. *)
End(r) ==
  /\ Go(r, "idle")
  /\ key' = [key EXCEPT ![r] = None] /\ pin' = [pin EXCEPT ![r] = None]
  /\ attempt' = [attempt EXCEPT ![r] = 0]

ClearRound(r) ==
  /\ cands' = [cands EXCEPT ![r] = <<>>] /\ res' = [res EXCEPT ![r] = <<>>]
  /\ held' = [held EXCEPT ![r] = FALSE]
  /\ spread' = [spread EXCEPT ![r] = None]
  /\ winner' = [winner EXCEPT ![r] = 0] /\ at' = [at EXCEPT ![r] = 0]

(* A request arrives, of a conversation or of none, pinned or not. *)
Arrive(r) ==
  /\ pc[r] = "idle" /\ Go(r, "rank")
  /\ \E a \in inst.asks : key' = [key EXCEPT ![r] = a[1]] /\ pin' = [pin EXCEPT ![r] = a[2]]
  /\ attempt' = [attempt EXCEPT ![r] = 1]
  /\ UNCHANGED <<world, counts, engine, bound, round, served>>

-----------------------------------------------------------------------------
(* SelectKAssigned: the ranking and the assignment of its first choice,    *)
(* both under Assignments' lock, which a request holds at "assign".        *)

BoundTo(r) == IF key[r] = None THEN None ELSE bound[key[r]]

(* Mutant: a pinned request keeps the other computers behind the pin, as   *)
(* before waired-agent#1365.                                               *)
PinAhead(r, S) == S

(* The pin alone is left of the list, when there is one. *)
PinAlone(r, S) == IF pin[r] = None THEN S ELSE S \cap {pin[r]}

(* The admission filter: this device is never full, a peer is when its     *)
(* count has reached what it advertises.                                   *)
HasRoom(p) == p = Self \/ cap[p] = 0 \/ inflight[p] < cap[p]

(* applyStickyFirst, after which the own come first again: the bound peer  *)
(* is ahead of its tier.                                                   *)
SameTier(p, q) == (p \in Public) = (q \in Public)
StickyFirst(r, s) ==
  \A i, j \in DOMAIN s : s[i] = BoundTo(r) /\ SameTier(s[i], s[j]) => i <= j

(* Mutant: the hoists keep the last word. *)
HoistsFirst(s) == TRUE

(* partitionOwnFirst *)
OwnFirst(s) == \A i, j \in DOMAIN s : s[i] \notin Public /\ s[j] \in Public => i < j

(* Scores put the candidates in any order but for that.                    *)
Orders(r, S) == {s \in SetToSeqs(S) : StickyFirst(r, s) /\ OwnFirst(s)}

(* demoteBusySticky: the bound peer, while it serves another request of    *)
(* the conversation, goes from its place to the last one of its tier in    *)
(* the window.                                                             *)
Demotes(r, s, from, to) ==
  /\ s[from] = BoundTo(r) /\ pin[r] # s[from] /\ sticky[<<key[r], s[from]>>] > 0
  /\ from < to /\ to <= K /\ SameTier(s[to], s[from])
  /\ \A i \in DOMAIN s : i <= K /\ SameTier(s[i], s[from]) => i <= to
Moved(s, from, to) ==
  [i \in DOMAIN s |-> IF i = to THEN s[from]
                      ELSE IF i \in from..to - 1 THEN s[i + 1] ELSE s[i]]

(* The first K become the round's candidates. *)
Takes(r, s, from) ==
  /\ cands' = [cands EXCEPT ![r] =
       [i \in {j \in DOMAIN s : j <= K} |->
          [place |-> s[i], cap |-> IF s[i] = Self THEN 0 ELSE cap[s[i]]]]]
  /\ spread' = [spread EXCEPT ![r] = from]
  /\ Go(r, "assign") /\ UNCHANGED <<ask, held, res, winner, at>>

(* No candidate at all is an error of its own, and the request ends; a     *)
(* list the admission filter empties is a round that found no capacity.    *)
Rank(r) ==
  /\ pc[r] = "rank" /\ \A q \in Requests : pc[q] # "assign"
  /\ \E offered \in SUBSET inst.places :
       LET listed   == PinAlone(r, offered)
           eligible == {p \in listed : HasRoom(p)}
       IN
       \/ listed = {} /\ End(r) /\ UNCHANGED round
       \/ /\ listed # {} /\ eligible = {}
          /\ Go(r, "retry") /\ UNCHANGED <<ask, round>>
       \/ /\ eligible # {}
          /\ \E s \in Orders(r, eligible) :
               \/ /\ \A from, to \in DOMAIN s : ~Demotes(r, s, from, to)
                  /\ Takes(r, s, None)
               \/ \E from, to \in DOMAIN s :
                    Demotes(r, s, from, to) /\ Takes(r, Moved(s, from, to), BoundTo(r))
  /\ UNCHANGED <<world, counts, engine, bound, served>>

(* Mutant: the count is read and raised in two steps (here: not compared). *)
AcquireBlind(c) ==
  \/ c.place = Self /\ local' = local + 1 /\ UNCHANGED inflight
  \/ /\ c.place # Self
     /\ inflight' = [inflight EXCEPT ![c.place] = @ + 1] /\ UNCHANGED local

(* InFlightTracker.Acquire, or addLocal. *)
Acquire(c) ==
  \/ c.place = Self /\ local' = local + 1 /\ UNCHANGED inflight
  \/ /\ c.place # Self /\ (c.cap = 0 \/ inflight[c.place] < c.cap)
     /\ inflight' = [inflight EXCEPT ![c.place] = @ + 1] /\ UNCHANGED local

Full(c) == c.place # Self /\ c.cap # 0 /\ inflight[c.place] >= c.cap

GiveBack(c) ==
  \/ c.place = Self /\ local' = local - 1 /\ UNCHANGED inflight
  \/ /\ c.place # Self
     /\ inflight' = [inflight EXCEPT ![c.place] = @ - 1] /\ UNCHANGED local

(* Candidate.assign, and the unlock. *)
Assign(r) ==
  /\ pc[r] = "assign" /\ Go(r, "probe")
  /\ \/ Acquire(cands[r][1]) /\ held' = [held EXCEPT ![r] = TRUE]
     \/ Full(cands[r][1]) /\ UNCHANGED <<inflight, local, held>>
  /\ UNCHANGED <<world, sticky, engine, bound, ask, cands, spread, res, winner, at,
                 served>>

-----------------------------------------------------------------------------
(* ParallelProbe: nothing of the round is seen by others meanwhile, so it  *)
(* is one step; an answer not in when the winner is decided is "pending".  *)

IsReady(x) == x \in Ready
Settled(s) == {i \in DOMAIN s : s[i] # "pending"}

(* bestSettledReady and warmerInSameTier: the first ready candidate once   *)
(* all before it have settled; a cold one gives way to a warm one of its   *)
(* tier, once that too is known. 0 is undecided, Len(s) + 1 is none.       *)
Decide(s, tier) ==
  LET lead    == SelectInSeq(s, IsReady)
      ties    == {j \in DOMAIN s : j > lead /\ tier[j] = tier[lead]}
      warmer  == {j \in ties : s[j] = "warm"}
      known(j) == \A i \in ties : i < j => i \in Settled(s)
  IN IF lead = 0 THEN IF Settled(s) = DOMAIN s THEN Len(s) + 1 ELSE 0
     ELSE IF ~(1..lead \subseteq Settled(s)) THEN 0
     ELSE IF s[lead] # "cold" THEN lead
     ELSE IF warmer # {} THEN IF known(Min(warmer)) THEN Min(warmer) ELSE 0
     ELSE IF ties \subseteq Settled(s) THEN lead ELSE 0

(* assignRankTiers: contiguous, and never across own and public.           *)
Tiers(c) ==
  {t \in [DOMAIN c -> DOMAIN c] :
     /\ t[1] = 1
     /\ \A i \in DOMAIN c \ {1} :
          t[i] \in {i} \cup (IF SameTier(c[i - 1].place, c[i].place) THEN {t[i - 1]} ELSE {})}

(* What the probes may have said by the decision: this device as the first *)
(* choice is not probed, nor anything behind it; elsewhere it is ready.    *)
Heard(c) ==
  IF c[1].place = Self THEN {[i \in DOMAIN c |-> IF i = 1 THEN "quiet" ELSE "pending"]}
  ELSE {s \in [DOMAIN c -> inst.answers \cup {"miss", "quiet", "pending"}] :
          \A i \in DOMAIN c : c[i].place = Self => s[i] = "quiet"}

Probe(r) ==
  /\ pc[r] = "probe" /\ Go(r, "walk")
  /\ \E s \in Heard(cands[r]), tier \in Tiers(cands[r]) :
       LET w == Decide(s, tier) IN
       /\ w # 0
       /\ winner' = [winner EXCEPT ![r] = w] /\ at' = [at EXCEPT ![r] = w]
       /\ res' = [res EXCEPT ![r] =
                    [i \in DOMAIN s |-> IF s[i] = "pending" THEN "miss" ELSE s[i]]]
  /\ UNCHANGED <<world, counts, engine, bound, ask, cands, spread, held, served>>

-----------------------------------------------------------------------------
(* tryProbeAndCommit: commit the winner, or walk down the ready ones. *)

Rebinds(r, p) == key[r] # None /\ p # Self /\ spread[r] \in {None, p}

(* Candidate.finish: the sticky count and the binding. *)
Finish(r, c) ==
  /\ served' = [served EXCEPT ![r] = c]
  /\ sticky' = IF key[r] = None \/ c.place = Self THEN sticky
               ELSE [sticky EXCEPT ![<<key[r], c.place>>] = @ + 1]
  /\ bound' = IF Rebinds(r, c.place) THEN [bound EXCEPT ![key[r]] = c.place] ELSE bound

(* Candidate.Commit, with the slot held since the assignment or a new one; *)
(* a candidate that is not ready, or full by now, is passed.               *)
Walk(r) ==
  /\ pc[r] = "walk"
  /\ LET i == at[r] c == cands[r][i] IN
     \/ /\ i \notin DOMAIN cands[r] /\ Go(r, "return")
        /\ UNCHANGED <<counts, bound, held, served, at>>
     \/ /\ i \in DOMAIN cands[r] /\ IsReady(res[r][i]) /\ i = 1 /\ held[r]
        /\ held' = [held EXCEPT ![r] = FALSE]
        /\ Finish(r, c) /\ Go(r, "return") /\ UNCHANGED <<inflight, local, at>>
     \/ /\ i \in DOMAIN cands[r] /\ IsReady(res[r][i]) /\ ~(i = 1 /\ held[r])
        /\ Acquire(c) /\ Finish(r, c) /\ Go(r, "return") /\ UNCHANGED <<held, at>>
     \/ /\ i \in DOMAIN cands[r]
        /\ ~IsReady(res[r][i]) \/ (Full(c) /\ ~(i = 1 /\ held[r]))
        /\ at' = [at EXCEPT ![r] = i + 1]
        /\ UNCHANGED <<counts, bound, held, served, pc>>
  /\ UNCHANGED <<world, engine, ask, cands, spread, res, winner>>

(* Mutant: what the round did not commit is not given back. *)
ReturnHolding(r) ==
  /\ pc[r] = "return"
  /\ UNCHANGED <<inflight, local>>
  /\ \/ /\ served[r] # None /\ Go(r, "serve") /\ ClearRound(r)
        /\ attempt' = [attempt EXCEPT ![r] = 0]
     \/ /\ served[r] = None /\ Go(r, "retry") /\ held' = [held EXCEPT ![r] = FALSE]
        /\ UNCHANGED <<attempt, cands, spread, res, winner, at>>
  /\ UNCHANGED <<world, sticky, engine, bound, key, pin, served>>

(* The deferred Abandon of every candidate, and the result of the round. *)
Return(r) ==
  /\ pc[r] = "return"
  /\ IF held[r] THEN GiveBack(cands[r][1]) ELSE UNCHANGED <<inflight, local>>
  /\ \/ /\ served[r] # None /\ Go(r, "serve") /\ ClearRound(r)
        /\ attempt' = [attempt EXCEPT ![r] = 0]
     \/ /\ served[r] = None /\ Go(r, "retry") /\ held' = [held EXCEPT ![r] = FALSE]
        /\ UNCHANGED <<attempt, cands, spread, res, winner, at>>
  /\ UNCHANGED <<world, sticky, engine, bound, key, pin, served>>

(* selectAndProbe after a round without a selection: another after the     *)
(* brief queue delay, as long as attempts are left or the peers are full   *)
(* and the capacity wait lasts; a pin that failed its probe ends it.       *)
Answered(r) == cands[r] = <<>> \/ \E i \in DOMAIN res[r] : res[r][i] # "miss"
PinFailed(r) == pin[r] # None /\ cands[r] # <<>> /\ res[r][1] \in {"down", "miss"}

Again(r) ==
  /\ pc[r] = "retry"
  /\ PinFailed(r) => res[r][1] = "miss"
  /\ attempt[r] < inst.rounds /\ (attempt[r] < Attempts \/ Answered(r))
  /\ attempt' = [attempt EXCEPT ![r] = @ + 1]
  /\ Go(r, "rank") /\ ClearRound(r)
  /\ UNCHANGED <<world, counts, engine, bound, key, pin, served>>

GiveUp(r) ==
  /\ pc[r] = "retry" /\ (PinFailed(r) \/ attempt[r] >= Min({Attempts, inst.rounds}))
  /\ End(r) /\ ClearRound(r)
  /\ UNCHANGED <<world, counts, engine, bound, served>>

-----------------------------------------------------------------------------
(* The leg: on a peer, or here once the engine has a slot. *)

Admit(r) ==
  /\ pc[r] = "serve" /\ served[r].place = Self /\ r \notin engine
  /\ Cardinality(engine) < EngineSlots
  /\ engine' = engine \cup {r}
  /\ UNCHANGED <<world, counts, bound, pc, ask, round, served>>

(* Mutant: the engine's slot is not given back. *)
ReleaseNoSlot(r) ==
  /\ GiveBack(served[r])
  /\ sticky' = IF key[r] = None \/ served[r].place = Self THEN sticky
               ELSE [sticky EXCEPT ![<<key[r], served[r].place>>] = @ - 1]
  /\ served' = [served EXCEPT ![r] = None]
  /\ engine' = engine
  /\ End(r)
  /\ UNCHANGED <<world, bound, round>>

(* Selection.Release, deferred by the handler: whatever ended the leg. *)
Release(r) ==
  /\ GiveBack(served[r])
  /\ sticky' = IF key[r] = None \/ served[r].place = Self THEN sticky
               ELSE [sticky EXCEPT ![<<key[r], served[r].place>>] = @ - 1]
  /\ served' = [served EXCEPT ![r] = None]
  /\ engine' = engine \ {r}
  /\ End(r)
  /\ UNCHANGED <<world, bound, round>>

(* The response has been sent, or its client is gone. *)
Done(r) ==
  /\ pc[r] = "serve" /\ (served[r].place = Self => r \in engine)
  /\ Release(r)

(* The client leaves, or the request is refused, before it has an engine:  *)
(* between two rounds, or here before a slot is free (a prompt over the    *)
(* window, no adapter).                                                    *)
Leave(r) ==
  \/ /\ pc[r] = "retry" /\ End(r) /\ ClearRound(r)
     /\ UNCHANGED <<world, counts, engine, bound, served>>
  \/ pc[r] = "serve" /\ served[r].place = Self /\ r \notin engine /\ Release(r)

(* A binding past its TTL or its hard cap is dropped by Lookup or GC. *)
Expire(k) ==
  /\ bound[k] # None /\ bound' = [bound EXCEPT ![k] = None]
  /\ UNCHANGED <<world, counts, engine, pc, ask, round, served>>

(* A network map with another capacity. *)
Advertise(p, c) ==
  /\ changes < inst.changes /\ changes' = changes + 1
  /\ cap[p] # c /\ cap' = [cap EXCEPT ![p] = c]
  /\ UNCHANGED <<inst, counts, engine, bound, pc, ask, round, served>>

-----------------------------------------------------------------------------
Step(r) ==
  \/ Rank(r) \/ Assign(r) \/ Probe(r) \/ Walk(r) \/ Return(r) \/ Again(r) \/ GiveUp(r) \/ Admit(r) \/ Done(r)

Next ==
  \/ \E r \in Requests : Arrive(r) \/ Step(r) \/ Leave(r)
  \/ \E k \in Keys : Expire(k)
  \/ \E p \in Peers : \E c \in inst.caps : Advertise(p, c)

Spec == Init /\ [][Next]_vars

(* Handlers run; probes have a budget; legs end (PeerWait); a mutex and    *)
(* the queue for the engine are fair.                                      *)
Fairness == \A r \in Requests : WF_vars(Step(r)) /\ SF_vars(Rank(r)) /\ SF_vars(Admit(r))

FairSpec == Spec /\ Fairness

-----------------------------------------------------------------------------
(* Properties *)

Serving(p) == {r \in Requests : served[r] # None /\ served[r].place = p}
Holding(p) == {r \in Requests : held[r] /\ cands[r][1].place = p}

(* A count is raised at assignment or at commit and given back by Abandon  *)
(* or by the leg's end, "the same closure" (endpoint_router.go:2411): each *)
(* is at all times the number of requests assigned or committed and not    *)
(* given back, so a burst of abandoned rounds leaves no peer looking busy. *)
CountsExact ==
  /\ TypeOK
  /\ \A p \in Peers : inflight[p] = Cardinality(Serving(p)) + Cardinality(Holding(p))
  /\ local = Cardinality(Serving(Self)) + Cardinality(Holding(Self))
  /\ \A k \in Keys, p \in Peers :
       sticky[<<k, p>>] = Cardinality({r \in Serving(p) : key[r] = k})

(* A peer is never sent more than it advertised to the last request that   *)
(* was let in: some outstanding request read a capacity that covers the    *)
(* count (inflight.go:71), although each reads it from its own snapshot    *)
(* and the maps change under them.                                         *)
AdmissionKept ==
  \A p \in Peers : inflight[p] > 0 =>
    \E c \in {served[r] : r \in Serving(p)} \cup {cands[r][1] : r \in Holding(p)} :
      c.cap = 0 \/ inflight[p] <= c.cap

(* "silent fallback was rejected because it would hide an explicit         *)
(* operator action" (probe.go:975): a pinned request is served by its pin  *)
(* or not at all, also when the pin is full or a round is tried again.     *)
PinHonoured ==
  \A r \in Requests : served[r] # None /\ pin[r] # None => served[r].place = pin[r]

(* Sticky hoist, spread and tie-break notwithstanding, a Public Share peer *)
(* wins a round only when no computer of the user's own answered ready     *)
(* (endpoint_router.go:2117).                                              *)
OwnBeforePublic ==
  \A r \in Requests : pc[r] = "walk" /\ winner[r] \in DOMAIN cands[r] =>
    (cands[r][winner[r]].place \in Public =>
       \A i \in DOMAIN cands[r] : IsReady(res[r][i]) => cands[r][i].place \in Public)

(* Every request is answered: no lock, queue or count holds one for ever. *)
RequestsEnd == \A r \in Requests : (pc[r] = "rank") ~> (pc[r] = "idle")
=============================================================================
