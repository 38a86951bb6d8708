------------------------- MODULE RelaySessionsProofs -------------------------
(***************************************************************************)
(* Proofs about RelaySessions, for any relays and any bounds: the map of   *)
(* the bind knows every session that is not cancelled, and none is pinned  *)
(* to a fingerprint that was replaced.                                     *)
(***************************************************************************)
EXTENDS RelaySessions, TLAPS

(* The types the argument needs: what is a function over what, and the     *)
(* range of the fingerprints; and the rest of the type invariant.          *)
Shape ==
  /\ relays \in [URLs -> Sessions \cup {None}]
  /\ run \in [Sessions -> {"free", "handshake", "pump", "exited", "failed", "local"}]
  /\ url \in [Sessions -> URLs] /\ pin \in [Sessions -> Certs \cup {NoPin}]
  /\ pins \in [URLs -> Certs \cup {NoPin}] /\ cert \in [URLs -> Certs]
  /\ cancelled \subseteq Sessions
  /\ rp \in {"idle", "swapping", "dropping"}
  /\ \/ dialing = Idle
     \/ dialing \in [at : {"factory", "store"}, url : URLs, pin : Certs \cup {NoPin}]

Clocks ==
  /\ fails \in [URLs -> 0..FailCap] /\ wait \in [URLs -> 0..((6 * RedialMax) \div 5)]
  /\ age \in [Sessions -> 0..HealthyAfter] /\ closed \in {"open", "closing", "closed"}
  /\ repinned \subseteq URLs /\ omitted \subseteq URLs
  /\ omits \in 0..MaxOmits /\ breaks \in 0..MaxBreaks /\ reopens \in 0..MaxReopens

(* The sender that holds relayMu finds no handle until it has stored its   *)
(* own, and a goroutine's id is left for it.                               *)
DialIsFirst ==
  dialing # Idle => /\ relays[dialing.url] = None
                    /\ \E s \in Sessions : run[s] = "free"

(* A handle in the map is that of a session that runs, under its URL.      *)
MapIsLive ==
  \A u \in URLs : relays[u] # None => relays[u] \in Live /\ url[relays[u]] = u

(* The map knows every session that is not cancelled.                      *)
SessionsKnown == \A s \in Live \ cancelled : relays[url[s]] = s

(* A fingerprint p is fit for u: it is the map's, or none, or u is on the  *)
(* list replacePeers has still to drop.                                    *)
Fit(p, u) == p \in {pins[u], NoPin} \/ u \in repinned

(* So is each session's, and that of the one being built.                  *)
PinsFit ==
  /\ \A u \in URLs \ omitted : relays[u] # None => Fit(pin[relays[u]], u)
  /\ dialing.at = "store" /\ dialing.url \notin omitted => Fit(dialing.pin, dialing.url)
  /\ rp = "idle" => repinned = {}

IInv == Shape /\ DialIsFirst /\ MapIsLive /\ SessionsKnown /\ PinsFit

-----------------------------------------------------------------------------
(* The bounds give one session and one certificate at least. *)
LEMMA Ranges == None \notin Sessions /\ NoPin \notin Certs /\ 1 \in Certs
BY BoundAssumption DEF None, NoPin, Sessions, Certs

(* A bind that is open and has no session. *)
LEMMA InitIInv == Init => IInv
<1> SUFFICES ASSUME Init PROVE IInv
  OBVIOUS
<1> USE DEF Init
<1>1. Live = {}
  BY DEF Live
<1>2. Shape
  <2>1. url \in [Sessions -> URLs]
    BY BoundAssumption
  <2> QED
    BY <2>1, Ranges DEF Shape, Idle
<1>3. DialIsFirst /\ MapIsLive /\ SessionsKnown
  BY <1>1 DEF DialIsFirst, MapIsLive, SessionsKnown
<1>4. PinsFit
  BY DEF PinsFit, Idle
<1> QED
  BY <1>2, <1>3, <1>4 DEF IInv

-----------------------------------------------------------------------------
(* Senders: relayMu is held from Ensure to Store. *)
LEMMA EnsureKeeps == ASSUME IInv, NEW u \in URLs, Ensure(u) PROVE IInv'
<1> USE DEF Ensure, sessions, provider
<1>1. Shape'
  BY Ranges DEF IInv, Shape
<1>2. DialIsFirst'
  BY DEF IInv, DialIsFirst
<1>3. MapIsLive' /\ SessionsKnown'
  BY DEF IInv, MapIsLive, SessionsKnown, Live
<1>4. PinsFit'
  BY DEF IInv, PinsFit, Fit
<1> QED
  BY <1>1, <1>2, <1>3, <1>4 DEF IInv

LEMMA FactoryKeeps == ASSUME IInv, Factory PROVE IInv'
<1> USE DEF Factory, sessions, provider
<1>1. dialing \in [at : {"factory", "store"}, url : URLs, pin : Certs \cup {NoPin}]
  BY DEF IInv, Shape, Idle
<1>2. dialing' = [at |-> "store", url |-> dialing.url, pin |-> pins[dialing.url]]
  BY <1>1
<1>3. Shape'
  BY <1>1, <1>2 DEF IInv, Shape
<1>4. DialIsFirst'
  BY <1>1, <1>2 DEF IInv, DialIsFirst, Idle
<1>5. MapIsLive' /\ SessionsKnown'
  BY DEF IInv, MapIsLive, SessionsKnown, Live
<1>6. PinsFit'
  BY <1>1, <1>2 DEF IInv, PinsFit, Fit
<1> QED
  BY <1>3, <1>4, <1>5, <1>6 DEF IInv

(* The new session is the only one of its URL that is not cancelled: the   *)
(* map held none.                                                          *)
LEMMA StoreKeeps == ASSUME IInv, Store PROVE IInv'
<1> DEFINE s == CHOOSE f \in Sessions : run[f] = "free"
           u == dialing.url
<1>1. dialing \in [at : {"factory", "store"}, url : URLs, pin : Certs \cup {NoPin}] /\ dialing # Idle
  BY DEF IInv, Shape, Idle, Store
<1>2. s \in Sessions /\ run[s] = "free"
  BY <1>1 DEF IInv, DialIsFirst
<1>3. u \in URLs /\ dialing.pin \in Certs \cup {NoPin} /\ relays[u] = None
  BY <1>1 DEF IInv, DialIsFirst
<1>4. /\ relays' = [relays EXCEPT ![u] = s] /\ run' = [run EXCEPT ![s] = "handshake"]
      /\ url' = [url EXCEPT ![s] = u] /\ pin' = [pin EXCEPT ![s] = dialing.pin]
      /\ cancelled' = (IF closed = "open" THEN cancelled ELSE cancelled \cup {s})
      /\ dialing' = Idle
      /\ UNCHANGED <<pins, rp, repinned, omitted, cert>>
  BY DEF Store, provider
<1> HIDE DEF s, u
<1>5. Live' = Live \cup {s} /\ s \notin Live
  BY <1>2, <1>4 DEF IInv, Shape, Live
<1>6. Shape'
  BY <1>2, <1>3, <1>4 DEF IInv, Shape
<1>7. DialIsFirst'
  BY <1>4 DEF DialIsFirst
<1>8. MapIsLive'
  BY <1>2, <1>3, <1>4, <1>5 DEF IInv, Shape, MapIsLive
<1>9. SessionsKnown'
  BY <1>2, <1>3, <1>4, <1>5, Ranges DEF IInv, Shape, SessionsKnown, Live
<1>10. PinsFit'
  <2>1. ASSUME NEW v \in URLs \ omitted, relays'[v] # None PROVE Fit(pin'[relays'[v]], v)
    <3>1. CASE v = u
      BY <1>1, <1>2, <1>3, <1>4, <3>1 DEF IInv, Shape, PinsFit, u, Store
    <3>2. CASE v # u
      BY <1>2, <1>3, <1>4, <1>5, <2>1, <3>2 DEF IInv, Shape, MapIsLive, PinsFit
    <3> QED
      BY <3>1, <3>2
  <2> QED
    BY <1>4, <2>1 DEF IInv, PinsFit, Fit, Idle
<1> QED
  BY <1>6, <1>7, <1>8, <1>9, <1>10 DEF IInv

-----------------------------------------------------------------------------
(* Session goroutines. *)

(* A goroutine that goes on leaves the map and the fingerprints alone. *)
LEMMA GoesOn ==
  ASSUME IInv, NEW s \in Live, NEW where \in {"pump", "exited", "failed", "local"},
         Go(s, where),
         UNCHANGED <<relays, dialing, url, pin, cancelled, pins, rp, repinned, omitted, cert>>
  PROVE  IInv'
<1> USE DEF Go
<1>1. Live' = Live /\ s \in Sessions
  BY DEF IInv, Shape, Live
<1>2. Shape'
  BY <1>1 DEF IInv, Shape
<1>3. DialIsFirst'
  BY <1>1 DEF IInv, DialIsFirst, Live, Shape
<1>4. MapIsLive' /\ SessionsKnown'
  BY <1>1 DEF IInv, MapIsLive, SessionsKnown
<1>5. PinsFit'
  BY DEF IInv, PinsFit, Fit
<1> QED
  BY <1>2, <1>3, <1>4, <1>5 DEF IInv

(* The session that ends takes its own entry with it, not its successor's. *)
LEMMA EvictKeeps == ASSUME IInv, NEW s \in Sessions, Evict(s) PROVE IInv'
<1>1. /\ relays' = (IF relays[url[s]] = s THEN [relays EXCEPT ![url[s]] = None] ELSE relays)
      /\ run' = [run EXCEPT ![s] = "free"] /\ cancelled' = cancelled \ {s}
      /\ pin' = [pin EXCEPT ![s] = NoPin]
      /\ UNCHANGED <<url, dialing, pins, rp, repinned, omitted, cert>>
      /\ dialing = Idle
  BY DEF Evict, Gone, Go, provider, RelayMuFree
<1>2. Live' = Live \ {s}
  BY <1>1 DEF IInv, Shape, Live
<1>3. Shape'
  BY <1>1 DEF IInv, Shape
<1>4. DialIsFirst'
  BY <1>1 DEF DialIsFirst
<1>5. MapIsLive'
  BY <1>1, <1>2, Ranges DEF IInv, Shape, MapIsLive
<1>6. SessionsKnown'
  BY <1>1, <1>2 DEF IInv, Shape, SessionsKnown, Live
<1>7. PinsFit'
  BY <1>1, <1>5, Ranges DEF IInv, Shape, PinsFit, Fit, Idle, MapIsLive
<1> QED
  BY <1>3, <1>4, <1>5, <1>6, <1>7 DEF IInv

-----------------------------------------------------------------------------
(* The network map. *)

(* What differs from the previous map is on the list or was left out.      *)
LEMMA ReplacePinsKeeps == ASSUME IInv, NEW out \in SUBSET URLs, ReplacePins(out) PROVE IInv'
<1> USE DEF ReplacePins, sessions
<1>1. Shape'
  BY DEF IInv, Shape
<1>2. DialIsFirst' /\ MapIsLive' /\ SessionsKnown'
  BY DEF IInv, DialIsFirst, MapIsLive, SessionsKnown, Live
<1>3. ASSUME NEW p, NEW u \in URLs \ omitted', p \in {pins[u], NoPin} PROVE Fit(p, u)'
  BY <1>3, Ranges DEF IInv, Shape, Fit
<1>4. omitted \subseteq omitted' /\ repinned = {}
  BY DEF IInv, PinsFit
<1>5. PinsFit'
  <2>1. ASSUME NEW u \in URLs \ omitted', relays'[u] # None PROVE Fit(pin[relays[u]], u)'
    BY <1>3, <1>4, <2>1 DEF IInv, PinsFit, Fit
  <2>2. ASSUME dialing'.at = "store", dialing'.url \notin omitted'
        PROVE  Fit(dialing.pin, dialing.url)'
    <3>1. dialing.url \in URLs
      BY <2>2 DEF IInv, Shape, Idle
    <3> QED
      BY <1>3, <1>4, <2>2, <3>1 DEF IInv, PinsFit, Fit
  <2> QED
    BY <2>1, <2>2 DEF PinsFit, Fit
<1> QED
  BY <1>1, <1>2, <1>5 DEF IInv

(* DropRelay: the list gets shorter by a URL the map has no session of.    *)
LEMMA DropRelayKeeps == ASSUME IInv, NEW u \in URLs, DropRelay(u) PROVE IInv'
<1>1. /\ relays' = [v \in URLs |-> IF v = u THEN None ELSE relays[v]]
      /\ cancelled' = cancelled \cup ({relays[u]} \ {None})
      /\ repinned' = repinned \ {u} /\ rp = "dropping" /\ dialing = Idle
      /\ UNCHANGED <<dialing, run, url, pin, pins, rp, omitted, cert>>
  BY DEF DropRelay, Forget, RelayMuFree
<1>2. Live' = Live
  BY <1>1 DEF Live
<1>3. Shape'
  BY <1>1 DEF IInv, Shape
<1>4. DialIsFirst'
  BY <1>1 DEF DialIsFirst
<1>5. MapIsLive'
  BY <1>1, <1>2 DEF IInv, MapIsLive
<1>6. SessionsKnown'
  BY <1>1, <1>2, Ranges DEF IInv, Shape, SessionsKnown, Live
<1>7. PinsFit'
  BY <1>1 DEF IInv, Shape, PinsFit, Fit, Idle
<1> QED
  BY <1>3, <1>4, <1>5, <1>6, <1>7 DEF IInv

(* The other two steps of replacePeers touch none of this but rp. *)
LEMMA ReplaceKeeps == ASSUME IInv, UnlockProvider \/ ReplaceDone PROVE IInv'
<1>1. /\ rp' \in {"idle", "dropping"} /\ (rp' = "idle" => repinned = {})
      /\ UNCHANGED <<relays, dialing, run, url, pin, cancelled, pins, repinned, omitted, cert>>
  BY DEF UnlockProvider, ReplaceDone, sessions
<1>2. Shape' /\ DialIsFirst' /\ MapIsLive' /\ SessionsKnown'
  BY <1>1 DEF IInv, Shape, DialIsFirst, MapIsLive, SessionsKnown, Live
<1>3. PinsFit'
  BY <1>1 DEF IInv, PinsFit, Fit
<1> QED
  BY <1>2, <1>3 DEF IInv

-----------------------------------------------------------------------------
(* BindUpdate, and the world. *)
LEMMA CloseKeeps == ASSUME IInv, CloseStart \/ CloseSessions PROVE IInv'
<1>1. /\ UNCHANGED <<dialing, run, url, pin, pins, rp, repinned, omitted, cert>>
      /\ cancelled \subseteq cancelled' /\ cancelled' \subseteq Sessions
      /\ \/ relays' = relays
         \/ /\ relays' = [u \in URLs |-> None] /\ dialing = Idle
            /\ \A u \in URLs : relays[u] # None => relays[u] \in cancelled'
  BY DEF CloseStart, CloseSessions, provider, RelayMuFree, IInv, Shape, Live
<1>2. Live' = Live
  BY <1>1 DEF Live
<1>3. Shape'
  BY <1>1 DEF IInv, Shape
<1>4. DialIsFirst'
  BY <1>1 DEF IInv, DialIsFirst
<1>5. MapIsLive'
  BY <1>1, <1>2 DEF IInv, MapIsLive
<1>6. SessionsKnown'
  BY <1>1, <1>2, Ranges DEF IInv, Shape, SessionsKnown, Live
<1>7. PinsFit'
  BY <1>1 DEF IInv, PinsFit, Fit
<1> QED
  BY <1>3, <1>4, <1>5, <1>6, <1>7 DEF IInv

(* Open, Tick and a relay's restart change none of this but the            *)
(* certificates.                                                           *)
LEMMA WorldKeeps ==
  ASSUME IInv, cert' \in [URLs -> Certs],
         UNCHANGED <<relays, dialing, run, url, pin, cancelled, pins, rp, repinned, omitted>>
  PROVE  IInv'
<1>1. Shape' /\ DialIsFirst' /\ MapIsLive' /\ SessionsKnown'
  BY DEF IInv, Shape, DialIsFirst, MapIsLive, SessionsKnown, Live
<1>2. PinsFit'
  BY DEF IInv, PinsFit, Fit
<1> QED
  BY <1>1, <1>2 DEF IInv

LEMMA NextIInv == IInv /\ [Next]_vars => IInv'
<1> SUFFICES ASSUME IInv, [Next]_vars PROVE IInv'
  OBVIOUS
<1>1. cert \in [URLs -> Certs]
  BY DEF IInv, Shape
<1>2. ASSUME NEW u \in URLs, RelayRestarts(u) PROVE IInv'
  <2>1. cert'  \in [URLs -> Certs]
    BY <1>1, <1>2, BoundAssumption DEF RelayRestarts, Certs
  <2> QED
    BY <1>2, <2>1, WorldKeeps DEF RelayRestarts, sessions, provider
<1>3. ASSUME NEW s \in Sessions, Session(s) \/ RunBreaks(s) PROVE IInv'
  <2>1. CASE Evict(s)
    BY <2>1, EvictKeeps
  <2>2. CASE Handshake(s) \/ RunReturns(s) \/ RunBreaks(s) \/ Judge(s)
    <3>1. s \in Live
      BY <2>2 DEF Handshake, RunReturns, RunBreaks, Judge, Live
    <3>2. PICK where \in {"pump", "exited", "failed", "local"} : Go(s, where)
      BY <2>2 DEF Handshake, RunReturns, RunBreaks, Judge
    <3>3. UNCHANGED <<relays, dialing, url, pin, cancelled, pins, rp, repinned, omitted, cert>>
      BY <2>2 DEF Handshake, RunReturns, RunBreaks, Judge, provider
    <3> QED
      BY <3>1, <3>2, <3>3, GoesOn
  <2> QED
    BY <1>3, <2>1, <2>2 DEF Session
<1>4. CASE Open \/ Tick \/ UNCHANGED vars
  BY <1>1, <1>4, WorldKeeps DEF Open, Tick, vars, sessions, provider
<1>5. CASE Replace
  BY <1>5, ReplaceKeeps, DropRelayKeeps DEF Replace
<1> QED
  BY <1>2, <1>3, <1>4, <1>5, EnsureKeeps, FactoryKeeps, StoreKeeps, ReplacePinsKeeps,
     CloseKeeps DEF Next

LEMMA Inductive == Spec => []IInv
<1>1. IInv /\ [Next]_vars => IInv'
  BY NextIInv
<1> QED
  BY InitIInv, <1>1, PTL DEF Spec

-----------------------------------------------------------------------------
(* The rest of the type invariant: the backoff, the ages, the budgets. *)

(* A delay is the maximum at most, and a jittered one a fifth more.        *)
LEMMA DelayBounded ==
  ASSUME NEW n, NEW d \in Jittered(Delay(n))
  PROVE  d \in 0..((6 * RedialMax) \div 5)
<1>1. Delay(n) \in 0..RedialMax
  BY BackoffAssumption DEF Delay
<1>2. d \in Nat /\ 5 * d <= 6 * Delay(n)
  BY <1>1 DEF Jittered
<1> HIDE DEF Delay
<1> QED
  BY <1>1, <1>2, BackoffAssumption

LEMMA BackoffTyped ==
  ASSUME Shape, Clocks, NEW s \in Sessions, ArmBackoff(s)
  PROVE  fails' \in [URLs -> 0..FailCap] /\ wait' \in [URLs -> 0..((6 * RedialMax) \div 5)]
<1>1. CASE UNCHANGED retry
  BY <1>1 DEF retry, Clocks
<1>2. CASE run[s] = "failed" /\ ~UNCHANGED retry
  <2>1. PICK n \in 0..FailCap : /\ fails' = [fails EXCEPT ![url[s]] = n]
                                /\ \E d \in Jittered(Delay(n)) : wait' = [wait EXCEPT ![url[s]] = d]
    <3>1. url[s] \in URLs /\ fails[url[s]] \in 0..FailCap /\ FailCap \in Nat \ {0}
      BY BackoffAssumption DEF Shape, Clocks, FailCap
    <3>2. (IF age[s] >= HealthyAfter THEN 1 ELSE AtMost(fails[url[s]] + 1, FailCap)) \in 0..FailCap
      BY <3>1 DEF AtMost
    <3> QED
      BY <1>2, <3>2 DEF ArmBackoff
  <2>2. PICK d \in Jittered(Delay(n)) : wait' = [wait EXCEPT ![url[s]] = d]
    BY <2>1
  <2> QED
    BY <2>1, <2>2, DelayBounded DEF Clocks
<1> QED
  BY <1>1, <1>2 DEF ArmBackoff

LEMMA ClocksKept == IInv /\ Clocks /\ [Next]_vars => Clocks'
<1> SUFFICES ASSUME Shape, Clocks, [Next]_vars PROVE Clocks'
  BY DEF IInv
<1> USE BoundAssumption, BackoffAssumption DEF Clocks
<1>1. ASSUME NEW s \in Sessions, Evict(s) PROVE Clocks'
  BY <1>1, BackoffTyped DEF Evict, Gone, provider, env
<1>2. ASSUME NEW u \in URLs, DropRelay(u) PROVE Clocks'
  BY <1>2 DEF DropRelay, Forget, env, FailCap
<1>3. ASSUME NEW out \in SUBSET URLs, ReplacePins(out) PROVE Clocks'
  BY <1>3 DEF ReplacePins, env, sessions, retry
<1>4. CASE Store
  <2>1. PICK s : age' = [age EXCEPT ![s] = 0]
    BY <1>4 DEF Store
  <2>2. UNCHANGED <<fails, wait, closed, repinned, omitted, omits, breaks, reopens>>
    BY <1>4 DEF Store, retry, provider, env
  <2>3. age' \in [Sessions -> 0..HealthyAfter]
    <3>1. 0 \in 0..HealthyAfter
      OBVIOUS
    <3> QED
      BY <2>1, <3>1
  <2> QED
    BY <2>2, <2>3
<1>5. CASE CloseStart \/ CloseSessions \/ Open
  BY <1>5 DEF CloseStart, CloseSessions, Open, retry, sessions, provider, env, FailCap
<1>6. CASE Tick
  <2>1. wait' \in [URLs -> 0..((6 * RedialMax) \div 5)]
    BY <1>6 DEF Tick
  <2>2. age' \in [Sessions -> 0..HealthyAfter]
    BY <1>6 DEF Tick, AtMost
  <2> QED
    BY <1>6, <2>1, <2>2 DEF Tick, provider, env
<1>7. ASSUME NEW s \in Sessions, RunBreaks(s) PROVE Clocks'
  BY <1>7 DEF RunBreaks, retry, provider
<1>8. ASSUME NEW s \in Sessions, Handshake(s) \/ RunReturns(s) \/ Judge(s) PROVE Clocks'
  BY <1>8 DEF Handshake, RunReturns, Judge, retry, provider, env
<1>9. ASSUME NEW u \in URLs, Ensure(u) \/ RelayRestarts(u) PROVE Clocks'
  BY <1>9 DEF Ensure, RelayRestarts, retry, sessions, provider, env
<1>10. CASE Factory \/ UnlockProvider \/ ReplaceDone \/ UNCHANGED vars
  BY <1>10 DEF Factory, UnlockProvider, ReplaceDone, vars, retry, sessions, provider, env
<1> QED
  BY <1>1, <1>2, <1>3, <1>4, <1>5, <1>6, <1>7, <1>8, <1>9, <1>10 DEF Next, Session, Replace

LEMMA InitClocks == Init => Clocks
BY BoundAssumption, BackoffAssumption DEF Init, Clocks, FailCap

(* Whatever the order of failures, evictions, drops and re-dials over the  *)
(* two locks, a session that nothing has cancelled is the one the map has  *)
(* for its URL, so a URL has one at most; with the types of everything.    *)
THEOREM OneKnownSession == Spec => []OneSession
<1>1. IInv /\ Clocks => OneSession
  BY DEF IInv, Shape, Clocks, SessionsKnown, OneSession, TypeOK
<1>2. Spec => []Clocks
  BY Inductive, InitClocks, ClocksKept, PTL DEF Spec
<1> QED
  BY Inductive, <1>1, <1>2, PTL

(* Once replacePeers has returned no session is kept under a fingerprint   *)
(* that was replaced, although a dial under way may have read it before.   *)
THEOREM NoPinOutlivesItsMap == Spec => []NoStalePin
<1>1. IInv => NoStalePin
  BY DEF IInv, PinsFit, Fit, NoStalePin
<1> QED
  BY Inductive, <1>1, PTL
=============================================================================
