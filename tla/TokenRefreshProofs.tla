------------------------- MODULE TokenRefreshProofs -------------------------
(***************************************************************************)
(* Proofs about TokenRefresh, for any sets of faults and any bounds: the   *)
(* state stays well typed, no token is live before it is durable, lost     *)
(* answers and failed writes have the device taken for stolen only through *)
(* a rotation left open for a whole replay window, and one of them alone   *)
(* never takes that long.                                                  *)
(***************************************************************************)
EXTENDS TokenRefresh, TLAPS

(* Nothing on the wire or in memory is newer than the token on disk, and   *)
(* an accepted answer hands out the control plane's current token, one     *)
(* after the live one.                                                     *)
Generations ==
  /\ 0 < mem.refresh /\ mem.refresh <= disk.refresh /\ disk.refresh <= cp.cur
  /\ cp.cur <= disk.refresh + 1
  /\ \A r \in wire : r.token <= mem.refresh
  /\ reply = "ok" \/ pc \in Saving => got = cp.cur /\ got = mem.refresh + 1
  /\ pc \in {"meta", "publish"} => disk.refresh = got

(* Only refreshOnce waits, for one answer to its one request, made with    *)
(* the live token.                                                         *)
OneRequest ==
  /\ reply # "none" => pc = "wait"
  /\ stage = "down" => pc = "idle"
  /\ \A r \in wire : r.live => /\ pc = "wait" /\ reply = "none"
                              /\ r.token = mem.refresh
  /\ \A r, s \in wire : r.live /\ s.live => r = s

(* A refusal that ends Run is the control plane's last word. *)
RefusedForGood == reply = "terminal" \/ pc = "ended" => cp.standing # "ok"

(* The inductive invariant. *)
IInv == TypeOK /\ Generations /\ OneRequest /\ RefusedForGood

-----------------------------------------------------------------------------
(* With faults that leave the agent its memory. *)

(* Before the activation nothing has been sent. *)
FreshStart ==
  stage = "down" => /\ pend = NoPend /\ wire = {} /\ pc = "idle"
                    /\ mem = disk /\ mem.refresh = cp.cur

(* The pending rotation is the live token's, and while one is open the     *)
(* token's refresh point is the last one to have passed.                   *)
PendingIsLive ==
  /\ pend # NoPend => pend.token = mem.refresh /\ expired <= pend.token
  /\ pc \in Saving \cup {"wait"} => pend # NoPend
  /\ mem.meta = mem.refresh /\ expired <= cp.cur

(* A token the control plane has burned is pending, with the nonce that    *)
(* burned it.                                                              *)
BurnedIsPending ==
  mem.refresh # cp.cur => /\ cp.cur = mem.refresh + 1
                          /\ pend # NoPend /\ pend.nonce = cp.by

(* What is on the wire is the pending request, or a copy of the last one   *)
(* after it was answered, and then no new one is made yet.                 *)
WireIsPending ==
  /\ pend # NoPend =>
       \A r \in wire : r.token = pend.token /\ r.nonce = pend.nonce
  /\ pend = NoPend =>
       \A r \in wire : /\ r.token + 1 = cp.cur /\ r.nonce = cp.by
                       /\ pc # "send" /\ expired < mem.meta

(* All of it, of a device in good standing: nothing was ever refused. *)
AllKept ==
  /\ FreshStart /\ PendingIsLive /\ BurnedIsPending /\ WireIsPending
  /\ reply \notin {"busy", "terminal"}

RememberInv ==
  faults \subseteq Remembered /\ ~late =>
    cp.standing # "theft" /\ (cp.standing = "ok" => AllKept)

-----------------------------------------------------------------------------
(* Until a rotation has outlived its window: the attempt that opens one is *)
(* the first of its refreshOnce, and one fault leaves it inside.           *)
FitsInv ==
  ~late =>
    /\ pend # NoPend => pend.token = mem.refresh
    /\ pc \in Saving \cup {"wait"} => pend # NoPend
    /\ pc = "send" /\ attempt = 2 => pend # NoPend
    /\ pc \in {"idle", "send"} =>
         /\ pend.failed = 0 => pend = NoPend
         /\ pend.failed <= 1 => pend.age < Window
    /\ pc = "wait" /\ pend.failed = 0 => attempt = 1 /\ pend.age = 0
    /\ pc \in Saving /\ pend.failed = 0 => pend.age < Timeout
    /\ stage \in {"build", "down"} => pc = "idle"
    /\ pc = "idle" => attempt = 1

-----------------------------------------------------------------------------
(* Generations and requests *)

LEMMA InitIInv == Init => IInv
<1> SUFFICES ASSUME Init PROVE IInv
  OBVIOUS
<1>1. nfaults \in 0..MaxFaults BY BoundAssumption DEF Init
<1>2. late \in BOOLEAN BY DEF Init
<1>4. TypeOK BY <1>1, <1>2 DEF Init, TypeOK, NoPend, PCs, Saving
<1>3. Generations /\ OneRequest /\ RefusedForGood
  BY DEF Init, Generations, OneRequest, RefusedForGood, Saving
<1> QED BY <1>3, <1>4 DEF IInv

(* Abandoned requests are those that were on the wire, with nobody waiting *)
(* on them.                                                                *)
LEMMA AbandonedRequests ==
  ASSUME TypeOK, Abandon
  PROVE  /\ wire' \subseteq [token : Nat, nonce : Nat, live : BOOLEAN]
         /\ \A r \in wire' : /\ ~r.live
                             /\ \E q \in wire : q.token = r.token /\ q.nonce = r.nonce
         /\ wire = {} => wire' = {}
<1> DEFINE Req == [token : Nat, nonce : Nat, live : BOOLEAN]
<1>1. ASSUME NEW q \in wire
      PROVE  LET d == [q EXCEPT !.live = FALSE]
             IN  d \in Req /\ ~d.live /\ d.token = q.token /\ d.nonce = q.nonce
  <2>1. q \in Req BY DEF TypeOK
  <2> QED BY <2>1
<1>2. PICK gone \in BOOLEAN :
        wire' = {r \in wire : ~r.live} \cup
                IF gone THEN {} ELSE {[r EXCEPT !.live = FALSE] : r \in wire}
  BY DEF Abandon
<1>3. wire \subseteq Req BY DEF TypeOK
<1>4. ASSUME NEW r \in wire'
      PROVE  /\ r \in Req /\ ~r.live
             /\ \E q \in wire : q.token = r.token /\ q.nonce = r.nonce
  <2>1. CASE r \in wire /\ ~r.live BY <2>1, <1>3
  <2>2. CASE \E q \in wire : r = [q EXCEPT !.live = FALSE] BY <2>2, <1>1
  <2> QED BY <1>2, <2>1, <2>2
<1> QED BY <1>2, <1>4

(* A pending rotation that grows older stays what it is. *)
LEMMA PendingAges ==
  ASSUME TypeOK, NEW t \in Nat, Ages(t) \/ Fails(t)
  PROVE  /\ pend' \in [nonce : Nat, token : Nat, age : Nat, failed : Nat]
         /\ pend'.nonce = pend.nonce /\ pend'.token = pend.token
         /\ pend' = NoPend <=> pend = NoPend
         /\ pend # NoPend => /\ pend'.age = pend.age + t
                             /\ Fails(t) => pend'.failed = pend.failed + 1
                             /\ Ages(t) => pend'.failed = pend.failed
<1>1. CASE pend = NoPend BY <1>1 DEF Ages, Fails, NoPend
<1>2. CASE pend # NoPend
  <2>1. pend \in [nonce : Nat, token : Nat, age : Nat, failed : Nat]
    BY DEF TypeOK
  <2>2. PICK n \in {pend.failed, pend.failed + 1} :
          /\ pend' = [nonce |-> pend.nonce, token |-> pend.token,
                      age |-> pend.age + t, failed |-> n]
          /\ n = pend.failed + 1 \/ Ages(t)
    BY <1>2, <2>1 DEF Ages, Fails
  <2>3. pend' = NoPend => pend = NoPend
    BY <2>1, <2>2 DEF NoPend
  <2>4. Ages(t) => pend'.failed = pend.failed
    BY <1>2, <2>1 DEF Ages
  <2>5. Fails(t) => pend'.failed = pend.failed + 1
    BY <1>2, <2>1 DEF Fails
  <2> QED BY <1>2, <2>1, <2>2, <2>3, <2>4, <2>5
<1> QED BY <1>1, <1>2

(* What the times of the code are: naturals. *)
LEMMA Times ==
  /\ Rest \in Nat /\ Window \in Nat /\ RetryDelay \in Nat
  /\ \A t \in 0..Timeout : t + Rest \in Nat /\ t + RetryDelay \in Nat
BY TimeAssumption DEF Rest

(* Every step preserves the invariant: one step per action. *)
LEMMA NextIInv == IInv /\ [Next]_vars => IInv'
<1> SUFFICES ASSUME IInv, [Next]_vars PROVE IInv'
  OBVIOUS
<1> USE BoundAssumption, TimeAssumption
<1> USE DEF IInv, TypeOK, Generations, OneRequest, RefusedForGood, NoPend, PCs, Saving,
            server, answer, env
<1>1. CASE Expire BY <1>1 DEF Expire
<1>3. CASE Revoke
  <2>1. /\ cp' \in [cur : Nat, by : Nat, standing : {"ok", "revoked", "theft"}]
        /\ cp'.cur = cp.cur /\ nfaults' \in 0..MaxFaults /\ late' = late
    BY <1>3 DEF Revoke, Fault
  <2> QED BY <1>3, <2>1 DEF Revoke, Fault
<1>4. ASSUME NEW r \in wire, CPHandle(r) PROVE IInv'
  <2>1. /\ cp' \in [cur : Nat, by : Nat, standing : {"ok", "revoked", "theft"}]
        /\ \/ cp'.cur = cp.cur
           \/ cp'.cur = cp.cur + 1 /\ r.token = cp.cur
        /\ cp.standing # "ok" => cp'.standing # "ok"
        /\ \E kind \in {"ok", "terminal"} : \E gen \in Nat :
             /\ Replies(r, kind, gen)
             /\ kind = "ok" => gen = cp'.cur /\ gen = r.token + 1
             /\ kind = "terminal" => cp'.standing # "ok"
    <3> DEFINE CP == [cur : Nat, by : Nat, standing : {"ok", "revoked", "theft"}]
    <3>0. r.token \in Nat /\ r.nonce \in Nat /\ cp.cur \in Nat OBVIOUS
    <3>1. CASE r.token = cp.cur /\ Replies(r, "ok", cp.cur + 1)
               /\ cp' = [cp EXCEPT !.cur = @ + 1, !.by = r.nonce]
      <4>1. cp' = [cur |-> cp.cur + 1, by |-> r.nonce, standing |-> cp.standing]
        BY <3>1
      <4>2. cp' \in CP /\ cp'.cur = cp.cur + 1 /\ cp'.standing = cp.standing
        BY <3>0, <4>1
      <4> QED BY <3>0, <3>1, <4>2
    <3>2. CASE UNCHANGED cp /\ IsReplay(r) /\ Replies(r, "ok", cp.cur)
      <4>1. cp.cur = r.token + 1 BY <3>2 DEF IsReplay
      <4> QED BY <3>0, <3>2, <4>1
    <3>3. CASE cp' = [cp EXCEPT !.standing = "theft"] /\ Replies(r, "terminal", 0)
      <4>1. cp' \in CP /\ cp'.cur = cp.cur /\ cp'.standing = "theft" BY <3>3
      <4> QED BY <3>3, <4>1
    <3>4. CASE cp.standing # "ok" /\ UNCHANGED cp /\ Replies(r, "terminal", 0)
      BY <3>4
    <3> QED BY <1>4, <3>1, <3>2, <3>3, <3>4 DEF CPHandle
  <2>2. PICK kind \in {"ok", "terminal"}, gen \in Nat :
             /\ Replies(r, kind, gen)
             /\ kind = "ok" => gen = cp'.cur /\ gen = r.token + 1
             /\ kind = "terminal" => cp'.standing # "ok"
    BY <2>1
  <2>3. UNCHANGED <<expired, disk, mem, pend, stage, pc, attempt, nonces,
                    nfaults, faults, late>>
    BY <1>4 DEF CPHandle
  <2>4. wire' = wire \ {r} BY <2>2 DEF Replies
  <2>5. CASE r.live
    <3>1. reply' = kind /\ got' = gen BY <2>2, <2>5 DEF Replies
    <3>2. pc = "wait" /\ r.token = mem.refresh BY <2>5
    <3> QED BY <2>1, <2>2, <2>3, <2>4, <2>5, <3>1, <3>2
  <2>6. CASE ~r.live
    <3>1. reply' = reply /\ got' = got BY <2>2, <2>6 DEF Replies
    <3> QED BY <2>1, <2>3, <2>4, <2>6, <3>1
  <2> QED BY <2>5, <2>6
<1>5. ASSUME NEW r \in wire, CPBusy(r) PROVE IInv'
  BY <1>5 DEF CPBusy, Replies, Fault
<1>6. CASE Load BY <1>6 DEF Load, Due
<1>7. CASE StartRun
  <2>1. /\ pend' \in [nonce : Nat, token : Nat, age : Nat, failed : Nat]
        /\ nfaults' \in 0..MaxFaults /\ faults' = faults /\ late' = late
    BY <1>7, PendingAges, Times DEF StartRun, Fault
  <2> QED BY <1>7, <2>1 DEF StartRun
<1>d. ASSUME Down, nfaults' \in 0..MaxFaults, faults' = faults, late' = late
      PROVE  IInv'
  <2>1. /\ wire' \subseteq [token : Nat, nonce : Nat, live : BOOLEAN]
        /\ \A r \in wire' : ~r.live /\ r.token <= mem.refresh
    BY <1>d, AbandonedRequests DEF Down
  <2>2. /\ stage' = "down" /\ pc' = "idle" /\ attempt' = 1 /\ pend' = NoPend
        /\ reply' = "none"
        /\ UNCHANGED <<cp, expired, disk, mem, nonces, got>>
    BY <1>d DEF Down, Abandon
  <2> QED BY <2>1, <2>2, <1>d
<1>8. CASE BuildFails BY <1>8, <1>d DEF BuildFails, Fault
<1>9. CASE Teardown BY <1>9, <1>d DEF Teardown, Fault
<1>10. CASE Crash BY <1>10, <1>d DEF Crash, Fault
<1>11. CASE Wake BY <1>11 DEF Wake, Due
<1>12. CASE Send
  <2>1. PICK n \in Nat : Posted(n) BY <1>12 DEF Send
  <2> DEFINE req == [token |-> mem.refresh, nonce |-> n, live |-> TRUE]
  <2>3. wire' = wire \cup {req} BY <2>1 DEF Posted
  <2>4. \A r \in wire : ~r.live BY <1>12 DEF Send
  <2>5. /\ pend' \in [nonce : Nat, token : Nat, age : Nat, failed : Nat]
        /\ nonces' \in Nat /\ late' \in BOOLEAN
    <3>0. late' \in BOOLEAN BY <1>12 DEF Send, Outlives
    <3>1. CASE UNCHANGED <<nonces, pend>> BY <3>0, <3>1
    <3>2. CASE nonces' = nonces + 1 /\ Remembers(nonces')
      BY <3>0, <3>2 DEF Remembers
    <3> QED BY <1>12, <3>1, <3>2 DEF Send
  <2>6. /\ reply' = "none" /\ got' = 0 /\ pc' = "wait" /\ stage # "down"
        /\ UNCHANGED <<cp, expired, disk, mem, stage, attempt, nfaults, faults>>
    BY <1>12, <2>1 DEF Send, Posted
  <2>7. req \in [token : Nat, nonce : Nat, live : BOOLEAN] /\ req.live
        /\ req.token = mem.refresh
    OBVIOUS
  <2> HIDE DEF req
  <2>8. TypeOK' BY <2>3, <2>5, <2>6, <2>7
  <2>9. Generations' BY <2>3, <2>6, <2>7
  <2>10. OneRequest' BY <2>3, <2>4, <2>6, <2>7
  <2>11. RefusedForGood' BY <2>6
  <2> QED BY <2>8, <2>9, <2>10, <2>11
<1>13. CASE OutcomeUnknown
  <2>1. /\ wire' \subseteq [token : Nat, nonce : Nat, live : BOOLEAN]
        /\ \A r \in wire' : ~r.live /\ r.token <= mem.refresh
    BY <1>13, AbandonedRequests DEF OutcomeUnknown
  <2>2. /\ reply' = "none" /\ pc = "wait" /\ pc' \in {"send", "idle"}
        /\ stage' \in {stage, "build"} /\ attempt' \in {1, 2}
        /\ nfaults' \in 0..MaxFaults
        /\ pend' \in [nonce : Nat, token : Nat, age : Nat, failed : Nat]
        /\ UNCHANGED <<cp, expired, disk, mem, nonces, got, faults, late>>
    BY <1>13, PendingAges, Times DEF OutcomeUnknown, Fault, Abandon, GiveUp
  <2> QED BY <2>1, <2>2
<1>14. CASE Verdict BY <1>14 DEF Verdict, GiveUp
<1>15. CASE Accepted
  <2>1. pend' \in [nonce : Nat, token : Nat, age : Nat, failed : Nat]
    BY <1>15, PendingAges, Times DEF Accepted
  <2> QED BY <1>15, <2>1 DEF Accepted
<1>16. CASE SaveTokens BY <1>16 DEF SaveTokens
<1>17. CASE SaveMeta BY <1>17 DEF SaveMeta
<1>18. CASE WriteFails
  <2>1. pend' \in [nonce : Nat, token : Nat, age : Nat, failed : Nat]
    BY <1>18, PendingAges, Times DEF WriteFails
  <2> QED BY <1>18, <2>1 DEF WriteFails, Fault, GiveUp
<1>19. CASE Publish BY <1>19 DEF Publish, GiveUp
<1>20. CASE UNCHANGED vars BY <1>20 DEF vars
<1> QED
  BY <1>1, <1>3, <1>4, <1>5, <1>6, <1>7, <1>8, <1>9, <1>10, <1>11,
     <1>12, <1>13, <1>14, <1>15, <1>16, <1>17, <1>18, <1>19, <1>20
  DEF Next, ControlPlane, Refresher, Failures

-----------------------------------------------------------------------------
(* What the control plane takes for theft *)

LEMMA InitRememberInv == Init => RememberInv
  BY DEF Init, RememberInv, AllKept, FreshStart, PendingIsLive, BurnedIsPending,
         WireIsPending, NoPend, Saving

(* A request of a device that forgot nothing is for the current token, or  *)
(* repeats the last rotation.                                              *)
LEMMA NoStranger ==
  ASSUME IInv, AllKept, NEW r \in wire
  PROVE  r.token = cp.cur \/ IsReplay(r)
<1>1. CASE pend = NoPend BY <1>1 DEF AllKept, WireIsPending, IsReplay
<1>2. CASE pend # NoPend
  <2>1. r.token = mem.refresh /\ r.nonce = pend.nonce
    BY <1>2 DEF AllKept, WireIsPending, PendingIsLive
  <2> QED BY <2>1 DEF AllKept, BurnedIsPending, IsReplay
<1> QED BY <1>1, <1>2

LEMMA NextRememberInv == IInv /\ RememberInv /\ [Next]_vars => RememberInv'
<1> SUFFICES ASSUME IInv, RememberInv, [Next]_vars, faults' \subseteq Remembered,
                    ~late'
             PROVE  cp'.standing # "theft" /\ (cp'.standing = "ok" => AllKept')
  BY DEF RememberInv
<1>a. faults' = faults /\ ~late
  <2>1. CASE Send BY <2>1 DEF Send, Outlives
  <2>2. CASE ~Send
    <3>1. faults' = faults /\ late' = late
      BY <2>2
      DEF Next, ControlPlane, Refresher, Failures, vars, env, Fault, Expire, Revoke,
          CPHandle, CPBusy, Load, StartRun, BuildFails, Teardown, Crash, Wake,
          OutcomeUnknown, Verdict, Accepted, SaveTokens, SaveMeta, WriteFails,
          Publish
    <3> QED BY <3>1
  <2> QED BY <2>1, <2>2
<1>b. faults \subseteq Remembered /\ ~late /\ cp.standing # "theft"
      /\ (cp.standing = "ok" => AllKept)
  BY <1>a DEF RememberInv
<1>c. ASSUME NEW f \in Forgetting PROVE ~Fault(f)
  BY <1>b DEF Fault, Remembered, Forgetting
<1>d. IInv' BY NextIInv
<1> USE DEF IInv, AllKept, FreshStart, PendingIsLive, BurnedIsPending,
            WireIsPending, NoPend, Saving, server, answer, env
<1>1. CASE Expire BY <1>1, <1>b DEF Expire, TypeOK, Generations
<1>3. CASE Revoke
  <2>1. cp'.standing = "revoked" BY <1>3 DEF Revoke, TypeOK
  <2> QED BY <2>1
<1>4. ASSUME NEW r \in wire, CPHandle(r)
      PROVE  cp'.standing # "theft" /\ (cp'.standing = "ok" => AllKept')
  <2>1. CASE cp.standing # "ok" BY <1>4, <1>b, <2>1 DEF CPHandle
  <2>2. CASE cp.standing = "ok"
    <3>1. r.token = cp.cur \/ IsReplay(r) BY <1>b, <2>2, NoStranger
    <3>2. CASE r.token = cp.cur
      <4>1. cp' = [cur |-> cp.cur + 1, by |-> r.nonce, standing |-> "ok"]
        BY <1>4, <2>2, <3>2 DEF CPHandle, TypeOK, IsReplay
      <4>2. wire' \subseteq wire /\ reply' \in {reply, "ok"}
        BY <1>4, <2>2, <3>2 DEF CPHandle, Replies, IsReplay
      <4>3. pend # NoPend /\ mem.refresh = cp.cur
        BY <1>b, <2>2, <3>2 DEF TypeOK, Generations
      <4> QED BY <1>4, <1>b, <2>2, <3>2, <4>1, <4>2, <4>3
              DEF CPHandle, TypeOK, Generations, OneRequest
    <3>3. CASE IsReplay(r) /\ r.token # cp.cur
      <4>1. UNCHANGED cp /\ wire' \subseteq wire /\ reply' \in {reply, "ok"}
        BY <1>4, <2>2, <3>3 DEF CPHandle, Replies
      <4> QED BY <1>4, <1>b, <2>2, <4>1 DEF CPHandle
    <3> QED BY <3>1, <3>2, <3>3
  <2> QED BY <2>1, <2>2
<1>5. ASSUME NEW r \in wire, CPBusy(r)
      PROVE  cp'.standing # "theft" /\ (cp'.standing = "ok" => AllKept')
  BY <1>5, <1>c DEF CPBusy, Forgetting
<1>6. CASE Load BY <1>6, <1>b DEF Load, Due
<1>7. CASE StartRun
  <2>1. pend'.nonce = pend.nonce /\ pend'.token = pend.token
        /\ (pend' = NoPend <=> pend = NoPend)
    BY <1>7, PendingAges, Times DEF StartRun
  <2> QED BY <1>7, <1>b, <2>1 DEF StartRun
<1>8. CASE BuildFails \/ Teardown \/ Crash
  BY <1>8, <1>c DEF BuildFails, Teardown, Crash, Forgetting
<1>11. CASE Wake BY <1>11, <1>b DEF Wake, Due, TypeOK
<1>12. CASE Send
  <2>1. UNCHANGED cp /\ UNCHANGED <<expired, mem, disk, stage>>
        /\ reply' = "none" /\ pc' = "wait" /\ pc = "send"
    BY <1>12 DEF Send, Posted
  <2> SUFFICES ASSUME cp.standing = "ok" PROVE AllKept'
    BY <1>b, <2>1
  <2>2. CASE Replayable /\ UNCHANGED pend /\ Posted(pend.nonce)
    <3>1. pend # NoPend
      BY <1>b, <2>2 DEF Replayable, TypeOK, Generations
    <3>2. \A r \in wire' : r.token = pend.token /\ r.nonce = pend.nonce
      BY <1>b, <2>2, <3>1 DEF Posted, Replayable
    <3> QED BY <1>b, <2>1, <2>2, <3>1, <3>2 DEF OneRequest
  <2>3. CASE ~Replayable /\ Remembers(nonces') /\ Posted(nonces')
    <3>0. pend = NoPend
      <4>1. ~(pend.age >= Window) BY <1>12 DEF Send, Outlives
      <4>2. pend.age < Window BY <4>1, TimeAssumption DEF TypeOK
      <4> QED BY <1>b, <2>3, <4>2 DEF Replayable
    <3>1. pend = NoPend /\ wire = {} BY <1>b, <2>1, <3>0
    <3>2. pend'.token = mem.refresh /\ pend'.nonce = nonces'
      BY <2>3 DEF Remembers
    <3>3. \A r \in wire' : r.token = mem.refresh /\ r.nonce = nonces'
      BY <2>3, <3>1 DEF Posted
    <3>4. pend' # NoPend BY <1>b, <3>1, <3>2 DEF TypeOK, Generations
    <3> QED BY <1>b, <2>1, <3>1, <3>2, <3>3, <3>4 DEF OneRequest
  <2> QED BY <1>12, <2>2, <2>3 DEF Send
<1>13. CASE OutcomeUnknown
  <2>1. /\ \A r \in wire' : \E q \in wire : q.token = r.token /\ q.nonce = r.nonce
        /\ reply' = "none"
        /\ pend'.nonce = pend.nonce /\ pend'.token = pend.token
        /\ (pend' = NoPend <=> pend = NoPend)
    BY <1>13, AbandonedRequests, PendingAges, Times DEF OutcomeUnknown, Abandon
  <2> QED BY <1>13, <1>b, <2>1 DEF OutcomeUnknown, GiveUp, OneRequest
<1>14. CASE Verdict BY <1>14, <1>b DEF Verdict
<1>15. CASE Accepted
  <2>1. pend'.nonce = pend.nonce /\ pend'.token = pend.token
        /\ (pend' = NoPend <=> pend = NoPend)
    BY <1>15, PendingAges, Times, TimeAssumption DEF Accepted
  <2> QED BY <1>15, <1>b, <2>1 DEF Accepted
<1>16. CASE SaveTokens BY <1>16, <1>b DEF SaveTokens, OneRequest
<1>17. CASE SaveMeta BY <1>17, <1>b DEF SaveMeta, OneRequest
<1>18. CASE WriteFails
  <2>1. pend'.nonce = pend.nonce /\ pend'.token = pend.token
        /\ (pend' = NoPend <=> pend = NoPend)
    BY <1>18, PendingAges, Times DEF WriteFails
  <2> QED BY <1>18, <1>b, <2>1 DEF WriteFails, GiveUp, OneRequest
<1>19. CASE Publish
  BY <1>19, <1>b DEF Publish, GiveUp, TypeOK, Generations, OneRequest
<1>20. CASE UNCHANGED vars BY <1>20, <1>b DEF vars
<1> QED
  BY <1>1, <1>3, <1>4, <1>5, <1>6, <1>7, <1>8, <1>11, <1>12, <1>13,
     <1>14, <1>15, <1>16, <1>17, <1>18, <1>19, <1>20
  DEF Next, ControlPlane, Refresher, Failures

-----------------------------------------------------------------------------
(* The window and one fault *)

LEMMA InitFitsInv == Init => FitsInv
  BY TimeAssumption DEF Init, FitsInv, NoPend, Saving

LEMMA NextFitsInv == IInv /\ FitsInv /\ [Next]_vars => FitsInv'
<1> SUFFICES ASSUME IInv, FitsInv, [Next]_vars, ~late' PROVE FitsInv'
  BY DEF FitsInv
<1> USE TimeAssumption
<1> USE DEF IInv, FitsInv, Saving, server, answer, env
<1>a. pend.age \in Nat /\ pend.failed \in Nat BY DEF TypeOK
<1>b. NoPend.age = 0 /\ NoPend.failed = 0 BY DEF NoPend
<1>1. CASE Expire BY <1>1 DEF Expire
<1>2. CASE Revoke BY <1>2 DEF Revoke, Fault
<1>3. ASSUME NEW r \in wire, CPHandle(r) PROVE FitsInv'
  BY <1>3 DEF CPHandle
<1>4. ASSUME NEW r \in wire, CPBusy(r) PROVE FitsInv'
  BY <1>4 DEF CPBusy, Fault
<1>5. CASE Load BY <1>5, <1>b DEF Load
<1>6. CASE StartRun
  <2>1. CASE UNCHANGED <<pend, late>> BY <1>6, <2>1 DEF StartRun
  <2>2. CASE Fault("slow") /\ Fails(Window)
    <3>1. CASE pend = NoPend BY <1>6, <2>2, <3>1, <1>b DEF StartRun, Fault, Fails
    <3>2. CASE pend # NoPend
      <4>1. pend'.failed = pend.failed + 1 /\ pend' # NoPend
            /\ pend'.token = pend.token
        BY <2>2, <3>2, PendingAges, Times
      <4> QED BY <1>6, <2>2, <3>2, <4>1, <1>a DEF StartRun, Fault
    <3> QED BY <3>1, <3>2
  <2> QED BY <1>6, <2>1, <2>2 DEF StartRun
<1>7. CASE BuildFails \/ Teardown \/ Crash
  <2>1. Down BY <1>7 DEF BuildFails, Teardown, Crash
  <2>2. /\ pend' = NoPend /\ pc' = "idle" /\ attempt' = 1 /\ stage' = "down"
        /\ NoPend.age < Window
    BY <2>1, <1>b DEF Down
  <2> QED BY <2>2
<1>8. CASE Wake BY <1>8 DEF Wake
<1>9. CASE Send
  <2>1. pend.age < Window /\ ~late
    <3>1. ~(pend.age >= Window) /\ ~late BY <1>9 DEF Send, Outlives
    <3> QED BY <3>1, <1>a
  <2>2. CASE Replayable /\ UNCHANGED pend /\ Posted(pend.nonce)
    <3>1. pend # NoPend
      BY <2>2 DEF Replayable, NoPend, Generations, TypeOK
    <3> QED BY <1>9, <2>1, <2>2, <3>1, <1>b DEF Send, Posted
  <2>3. CASE ~Replayable /\ Remembers(nonces') /\ nonces' = nonces + 1
             /\ Posted(nonces')
    <3>1. pend = NoPend BY <2>1, <2>3 DEF Replayable
    <3>2. attempt = 1 BY <1>9, <2>1, <3>1 DEF Send, TypeOK
    <3>3. pend' # NoPend /\ pend'.token = mem.refresh /\ pend'.age = 0
          /\ pend'.failed = 0
      BY <2>3 DEF Remembers, NoPend, TypeOK, Generations
    <3>4. pc = "send" /\ pc' = "wait" /\ UNCHANGED <<mem, stage, attempt>>
      BY <1>9, <2>3 DEF Send, Posted
    <3> QED BY <2>1, <3>2, <3>3, <3>4
  <2> QED BY <1>9, <2>2, <2>3 DEF Send
<1>10. CASE OutcomeUnknown
  <2>1. PICK t \in 0..Timeout :
          \/ /\ attempt = 1 /\ attempt' = 2 /\ InTime(t + RetryDelay)
             /\ pc' = "send" /\ Fails(t + RetryDelay) /\ UNCHANGED stage
          \/ (attempt = 2 \/ DeadlineAt(t)) /\ GiveUp /\ Fails(t + Rest)
    BY <1>10 DEF OutcomeUnknown
  <2>2. ~late /\ ~late' /\ UNCHANGED mem /\ pc = "wait" /\ pend # NoPend
    BY <1>10 DEF OutcomeUnknown, Fault
  <2>3. CASE attempt = 1 /\ attempt' = 2 /\ pc' = "send" /\ Fails(t + RetryDelay)
             /\ UNCHANGED stage
    <3>1. /\ pend'.failed = pend.failed + 1 /\ pend' # NoPend
          /\ pend'.age = pend.age + (t + RetryDelay) /\ pend'.token = pend.token
      BY <2>2, <2>3, PendingAges, Times
    <3>2. pend'.failed <= 1 => pend'.age < Window BY <3>1, <2>2, <1>a
    <3> QED BY <2>2, <2>3, <3>1, <3>2, <1>a
  <2>4. CASE (attempt = 2 \/ DeadlineAt(t)) /\ GiveUp /\ Fails(t + Rest)
    <3>1. /\ pend'.failed = pend.failed + 1 /\ pend' # NoPend
          /\ pend'.age = pend.age + (t + Rest) /\ pend'.token = pend.token
      BY <2>2, <2>4, PendingAges, Times
    <3>2. pend'.failed <= 1 => pend'.age < Window
      <4>1. CASE pend.failed = 0
        <5>1. DeadlineAt(t) /\ pend.age = 0 BY <2>2, <2>4, <4>1
        <5>2. Rest = 0 BY <5>1 DEF DeadlineAt, Rest
        <5> QED BY <3>1, <5>1, <5>2
      <4>2. CASE pend.failed # 0 BY <3>1, <4>2, <1>a
      <4> QED BY <4>1, <4>2
    <3> QED BY <2>2, <2>4, <3>1, <3>2, <1>a DEF GiveUp
  <2> QED BY <2>1, <2>3, <2>4
<1>11. CASE Verdict BY <1>11, <1>b DEF Verdict, GiveUp
<1>12. CASE Accepted
  <2>1. PICK t \in 0..(Timeout - 1) : Ages(t) BY <1>12 DEF Accepted
  <2>2. pend # NoPend /\ pc' = "save" /\ UNCHANGED <<mem, stage, attempt, late>>
    BY <1>12 DEF Accepted
  <2>3. /\ pend'.failed = pend.failed /\ pend' # NoPend
        /\ pend'.age = pend.age + t /\ pend'.token = pend.token
    BY <2>1, <2>2, PendingAges, Times
  <2> QED BY <1>12, <2>1, <2>2, <2>3, <1>a DEF Accepted
<1>13. CASE SaveTokens BY <1>13 DEF SaveTokens
<1>14. CASE SaveMeta BY <1>14 DEF SaveMeta
<1>15. CASE WriteFails
  <2>1. pend # NoPend /\ pc' = "idle" /\ UNCHANGED <<mem, late>> /\ attempt' = 1
        /\ stage' \in {stage, "build"}
    BY <1>15 DEF WriteFails, GiveUp, Fault
  <2>2. /\ pend'.failed = pend.failed + 1 /\ pend' # NoPend
        /\ pend'.age = pend.age + Rest /\ pend'.token = pend.token
    BY <1>15, <2>1, PendingAges, Times DEF WriteFails
  <2>3. pend.failed = 0 => pend.age < Timeout BY <1>15 DEF WriteFails, Fault
  <2>4. Rest <= Backoff BY DEF Rest
  <2>5. pend'.failed <= 1 => pend'.age < Window
    BY <2>2, <2>3, <2>4, Times, <1>a
  <2> QED BY <1>15, <2>1, <2>2, <2>5, <1>a DEF WriteFails
<1>16. CASE Publish BY <1>16, <1>b DEF Publish, GiveUp
<1>17. CASE UNCHANGED vars BY <1>17 DEF vars
<1> QED
  BY <1>1, <1>2, <1>3, <1>4, <1>5, <1>6, <1>7, <1>8, <1>9, <1>10, <1>11,
     <1>12, <1>13, <1>14, <1>15, <1>16, <1>17
  DEF Next, ControlPlane, Refresher, Failures

-----------------------------------------------------------------------------
(* The theorems *)

(* The refresher's state is well typed in every reachable state. *)
THEOREM TypeCorrect == Spec => []TypeOK
<1>1. IInv => TypeOK BY DEF IInv
<1> QED BY InitIInv, NextIInv, <1>1, PTL DEF Spec

(* rotate saves the new pair before it publishes it, and rotates only the  *)
(* live token: whatever fails, the token on disk is at most one behind.    *)
THEOREM DurableFirst == Spec => []DurableBeforeLive
<1>1. IInv => DurableBeforeLive BY DEF IInv, Generations, DurableBeforeLive
<1> QED BY InitIInv, NextIInv, <1>1, PTL DEF Spec

(* isTerminalRefreshError is true of final refusals only: Run ends on a    *)
(* device that has to sign in again, and on no other.                      *)
THEOREM EndsForGood == Spec => []GivesUpOnlyForGood
<1>1. IInv => GivesUpOnlyForGood
  BY DEF IInv, RefusedForGood, GivesUpOnlyForGood
<1> QED BY InitIInv, NextIInv, <1>1, PTL DEF Spec

(* Lost answers and failed writes are replayed by rotationNonce inside its *)
(* window: only a rotation left open for the whole of it is ever read as   *)
(* theft.                                                                  *)
THEOREM NeverStolen == Spec => []ReplayedNotStolen
<1>1. RememberInv => ReplayedNotStolen
  BY DEF RememberInv, ReplayedNotStolen
<1> QED
  BY InitIInv, NextIInv, InitRememberInv, NextRememberInv, <1>1, PTL DEF Spec

(* The times refreshOnce and Run wait fit the replay window of             *)
(* rotationNonce: an attempt that times out, or a failed write and the     *)
(* back-off after it, always leaves the next attempt inside.               *)
THEOREM OneFaultFits == Spec => []OneFailureFits
<1>1. FitsInv => OneFailureFits BY DEF FitsInv, OneFailureFits
<1> QED BY InitIInv, NextIInv, InitFitsInv, NextFitsInv, <1>1, PTL DEF Spec
=============================================================================
