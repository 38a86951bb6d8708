------------------------ MODULE NodeKeyRotationProofs ------------------------
(***************************************************************************)
(* Proofs about NodeKeyRotation, for any set of keys, any faults and any   *)
(* number of crashes: the state stays well typed, and node.key is only     *)
(* ever replaced by a key the control plane has held.                      *)
(***************************************************************************)
EXTENDS NodeKeyRotation, TLAPS

(* While the rotator waits for an answer, the key it posted is the staged  *)
(* one and the session has a key.                                          *)
PostIsStaged ==
  /\ pc # "down" => sessKey \in Keys
  /\ pc \in {"rotSend", "adopt"} => stagedKey \in Keys
  /\ Waiting => req = stagedKey /\ req \in Keys

(* What a promote relies on: an accepted POST and a published key both     *)
(* stand for a key the control plane has held.                             *)
AnswerIsCommitted ==
  /\ cpKey \in committed
  /\ published \in committed \cup {NoKey}
  /\ Waiting /\ reply = "ok" => req \in committed
  /\ pc \in {"rotApply", "recApply"} => stagedKey \in committed

(* An enrolled device, or one a sign-in is running on, has a node.key. *)
EnrolledHasKey ==
  /\ enrolled => nodeKey \in Keys
  /\ enrollKey # NoKey => nodeKey \in Keys

(* The inductive invariant. *)
IInv == TypeOK /\ PostIsStaged /\ AnswerIsCommitted /\ EnrolledHasKey

-----------------------------------------------------------------------------
(* With crashes as the only fault. *)

(* What has been drawn, so that a key drawn later is none of these. *)
HeldKeys ==
  /\ {nodeKey, stagedKey, cpKey, published, sessKey} \subseteq used \cup {NoKey}
  /\ \A r \in orphans : r.old \in used

(* The device stays enrolled, no sign-in runs, nothing fails: a session    *)
(* runs on node.key until a promote asks for its re-activation.            *)
OnlyRotates ==
  /\ enrolled /\ enrollKey = NoKey /\ reply # "error"
  /\ ctxDone => pc = "reactivate"
  /\ pc \notin {"down", "reactivate"} => sessKey = nodeKey

(* Where the control plane's key is, at each place of the rotator. *)
CommittedWhere ==
  /\ cpKey \in {nodeKey, stagedKey} /\ stagedKey # nodeKey
  /\ published = stagedKey /\ published # NoKey => cpKey = stagedKey
  /\ pc \in {"rotApply", "recApply"} => cpKey = stagedKey
  /\ Waiting /\ reply = "ok" => cpKey = stagedKey
  /\ pc = "loop" => stagedKey = NoKey
  /\ pc = "rotSend" \/ (pc = "rotPost" /\ reply # "ok") => cpKey = nodeKey
  /\ pc = "rotPost" => reply # "mismatch"

(* A POST nobody waits on can only commit the key that is staged now, and  *)
(* none while a rotation of the loop is under way.                         *)
OrphansStaged ==
  \A r \in orphans :
    /\ r.old # stagedKey
    /\ cpKey = r.old => r.new = stagedKey
    /\ pc \in {"rotSend", "rotPost"} => r.old # nodeKey

CrashInv == OnlyCrashes => HeldKeys /\ OnlyRotates /\ CommittedWhere /\ OrphansStaged

(* The invariant holds of an enrolled device whose daemon is down. *)
LEMMA InitIInv == Init => IInv
<1> SUFFICES ASSUME Init PROVE IInv
  OBVIOUS
<1>1. PICK k \in Keys : nodeKey = k /\ cpKey = k /\ used = {k} /\ committed = {k}
  BY DEF Init
<1>2. TypeOK
  <2>1. crashes \in 0..MaxCrashes BY BoundAssumption DEF Init
  <2>2. orphans \subseteq Post BY DEF Init
  <2> QED BY <1>1, <2>1, <2>2 DEF Init, TypeOK, PCs
<1>3. PostIsStaged /\ AnswerIsCommitted /\ EnrolledHasKey
  BY <1>1 DEF Init, PostIsStaged, AnswerIsCommitted, EnrolledHasKey, Waiting
<1> QED BY <1>2, <1>3 DEF IInv

(* Every step of the model preserves the invariant: one step per action. *)
LEMMA NextIInv == IInv /\ [Next]_vars => IInv'
<1> SUFFICES ASSUME IInv, [Next]_vars PROVE IInv'
  OBVIOUS
<1> USE KeysAssumption, BoundAssumption
<1> USE DEF IInv, TypeOK, PostIsStaged, AnswerIsCommitted, EnrolledHasKey,
            Waiting, PCs, Post, files, cp, sess, wire, env
<1>1. CASE Activate BY <1>1 DEF Activate
<1>2. CASE MapArrives BY <1>2 DEF MapArrives
<1>3. CASE Cancel BY <1>3 DEF Cancel
<1>4. CASE BecomeDue BY <1>4 DEF BecomeDue
<1>5. CASE StageNew BY <1>5 DEF StageNew
<1>6. CASE Send BY <1>6 DEF Send
<1>7. CASE RotateAccepted BY <1>7 DEF RotateAccepted, Answered
<1>8. CASE RotateMismatch BY <1>8 DEF RotateMismatch, Answered
<1>9. CASE RotateError BY <1>9 DEF RotateError, PostFails, Answered, Abandon
<1>10. CASE ApplyRotated BY <1>10 DEF ApplyRotated
<1>11. CASE RecoverNone BY <1>11 DEF RecoverNone
<1>12. CASE RecoverAccepted BY <1>12 DEF RecoverAccepted, Answered
<1>13. CASE RecoverMismatch BY <1>13 DEF RecoverMismatch, Answered
<1>14. CASE RecoverError BY <1>14 DEF RecoverError, PostFails, Answered, Abandon
<1>15. CASE AdoptStaged BY <1>15 DEF AdoptStaged
<1>16. CASE RunReturns BY <1>16 DEF RunReturns
<1>17. CASE CPHandle BY <1>17 DEF CPHandle
<1>18. CASE CPHandleOrphan BY <1>18 DEF CPHandleOrphan
<1>19. CASE EnrollStart BY <1>19 DEF EnrollStart
<1>20. CASE EnrollFinish BY <1>20 DEF EnrollFinish
<1>21. CASE EnrollFail BY <1>21 DEF EnrollFail
<1>22. CASE SignOut BY <1>22 DEF SignOut
<1>23. CASE Crash
  <2>1. crashes' \in 0..MaxCrashes BY <1>23 DEF Crash
  <2>2. orphans' \subseteq Post BY <1>23 DEF Crash, Abandon
  <2>3. req' = NoKey /\ reply' = "none" BY <1>23 DEF Crash, Abandon
  <2> QED BY <1>23, <2>1, <2>2, <2>3 DEF Crash
<1>24. CASE UNCHANGED vars BY <1>24 DEF vars
<1> QED
  BY <1>1, <1>2, <1>3, <1>4, <1>5, <1>6, <1>7, <1>8, <1>9, <1>10, <1>11,
     <1>12, <1>13, <1>14, <1>15, <1>16, <1>17, <1>18, <1>19, <1>20, <1>21,
     <1>22, <1>23, <1>24
  DEF Next, Rotator

(* The rotation's state is well typed in every reachable state; behind it  *)
(* the inductive invariant IInv.                                           *)
THEOREM TypeCorrect == Spec => []TypeOK
<1>1. IInv => TypeOK BY DEF IInv
<1> QED BY InitIInv, NextIInv, <1>1, PTL DEF Spec

(* A step that replaces node.key is a promote (applyRotated's or           *)
(* adoptStaged's rename), and both promote a committed key.                *)
LEMMA PromoteStep ==
  ASSUME IInv, [Next]_vars, nodeKey \in Keys, nodeKey' \in Keys,
         nodeKey' # nodeKey
  PROVE  nodeKey' \in committed
<1> USE DEF files, cp, sess, wire, env
<1>1. CASE ApplyRotated
  BY <1>1 DEF ApplyRotated, IInv, AnswerIsCommitted
<1>2. CASE AdoptStaged
  BY <1>2 DEF AdoptStaged, IInv, AnswerIsCommitted
<1>3. CASE ~ApplyRotated /\ ~AdoptStaged
  BY <1>3, KeysAssumption
  DEF Next, Rotator, vars, Activate, MapArrives, Cancel, BecomeDue, StageNew,
      Send, RotateAccepted, RotateMismatch, RotateError, RecoverNone,
      RecoverAccepted, RecoverMismatch, RecoverError, RunReturns, CPHandle,
      CPHandleOrphan, EnrollStart, EnrollFinish, EnrollFail, SignOut, Crash
<1> QED BY <1>1, <1>2, <1>3

(* Under every fault, node.key is only replaced by a key the control plane *)
(* has held: the claim of adoptStaged's comment, for every set of keys.    *)
THEOREM PromotionSafe == Spec => PromotesOnlyCommitted
<1> DEFINE A == (nodeKey \in Keys /\ nodeKey' \in Keys /\ nodeKey' # nodeKey)
                  => nodeKey' \in committed
<1>1. IInv /\ [Next]_vars => [A]_vars
  BY PromoteStep
<1> QED BY InitIInv, NextIInv, <1>1, PTL DEF Spec, PromotesOnlyCommitted

(* CrashInv holds at the start: nothing is staged and nothing is under way. *)
LEMMA InitCrashInv == Init => CrashInv
<1> SUFFICES ASSUME Init PROVE CrashInv
  OBVIOUS
<1>1. PICK k \in Keys : nodeKey = k /\ cpKey = k /\ used = {k} /\ committed = {k}
  BY DEF Init
<1> QED
  BY <1>1, KeysAssumption
  DEF Init, CrashInv, HeldKeys, OnlyRotates, CommittedWhere, OrphansStaged, Waiting

(* Every step preserves it: a rotation commits the staged key or nothing,  *)
(* and the staged key is only removed by the rename that promotes it.      *)
LEMMA NextCrashInv == IInv /\ CrashInv /\ [Next]_vars => CrashInv'
<1> SUFFICES ASSUME IInv, CrashInv, [Next]_vars, OnlyCrashes' PROVE CrashInv'
  BY DEF CrashInv
<1>0. OnlyCrashes /\ faults' = faults
  BY DEF Next, Rotator, vars, env, OnlyCrashes, Activate, MapArrives, Cancel,
     BecomeDue, StageNew, Send, RotateAccepted, RotateMismatch, RotateError,
     ApplyRotated, RecoverNone, RecoverAccepted, RecoverMismatch, RecoverError,
     AdoptStaged, RunReturns, CPHandle, CPHandleOrphan, EnrollStart,
     EnrollFinish, EnrollFail, SignOut, Crash
<1> USE <1>0, KeysAssumption
<1> USE DEF IInv, TypeOK, PostIsStaged, CrashInv, OnlyCrashes, HeldKeys,
            OnlyRotates, CommittedWhere, OrphansStaged, Waiting, Post, files,
            cp, sess, wire, env
<1>1. CASE Activate BY <1>1 DEF Activate
<1>2. CASE MapArrives BY <1>2 DEF MapArrives
<1>3. CASE Cancel BY <1>3 DEF Cancel
<1>4. CASE BecomeDue BY <1>4 DEF BecomeDue
<1>5. CASE StageNew BY <1>5 DEF StageNew
<1>6. CASE Send BY <1>6 DEF Send
<1>7. CASE RotateAccepted BY <1>7 DEF RotateAccepted, Answered
<1>8. CASE RotateMismatch BY <1>8 DEF RotateMismatch, Answered
<1>9. CASE RotateError BY <1>9 DEF RotateError, PostFails, Answered, Abandon
<1>10. CASE ApplyRotated BY <1>10 DEF ApplyRotated
<1>11. CASE RecoverNone BY <1>11 DEF RecoverNone
<1>12. CASE RecoverAccepted BY <1>12 DEF RecoverAccepted, Answered
<1>13. CASE RecoverMismatch BY <1>13 DEF RecoverMismatch, Answered
<1>14. CASE RecoverError BY <1>14 DEF RecoverError, PostFails, Answered, Abandon
<1>15. CASE AdoptStaged BY <1>15 DEF AdoptStaged
<1>16. CASE RunReturns BY <1>16 DEF RunReturns
<1>17. CASE CPHandle BY <1>17 DEF CPHandle
<1>18. CASE CPHandleOrphan BY <1>18 DEF CPHandleOrphan
<1>19. CASE EnrollStart BY <1>19 DEF EnrollStart
<1>20. CASE EnrollFinish BY <1>20 DEF EnrollFinish
<1>21. CASE EnrollFail BY <1>21 DEF EnrollFail
<1>22. CASE SignOut BY <1>22 DEF SignOut
<1>23. CASE Crash BY <1>23 DEF Crash, Abandon
<1>24. CASE UNCHANGED vars BY <1>24 DEF vars
<1> QED
  BY <1>1, <1>2, <1>3, <1>4, <1>5, <1>6, <1>7, <1>8, <1>9, <1>10, <1>11, <1>12, <1>13, <1>14, <1>15, <1>16, <1>17, <1>18, <1>19, <1>20, <1>21, <1>22, <1>23, <1>24
  DEF Next, Rotator

(* Crashes alone, at any step and any number of times, lose no key: what   *)
(* the control plane holds is in node.key or node.key.next (the claim of   *)
(* rotateTo's comment, node_key_rotator.go:159).                           *)
THEOREM CrashSafe == Spec => []CommittedKeyHeld
<1>1. CrashInv => CommittedKeyHeld
  BY DEF CrashInv, CommittedKeyHeld, CommittedKeyOnDisk, CommittedWhere
<1> QED
  BY InitIInv, NextIInv, InitCrashInv, NextCrashInv, <1>1, PTL DEF Spec

(* ... and the rotator never stages a key over a staged one (Run, :92).    *)
THEOREM NeverStagesOver == Spec => StagedNeverOverwritten
<1> DEFINE A == (OnlyCrashes /\ stagedKey \in Keys /\ stagedKey' \in Keys)
                  => stagedKey' = stagedKey
<1>1. IInv /\ CrashInv /\ [Next]_vars => [A]_vars
  <2> SUFFICES ASSUME IInv, CrashInv, [Next]_vars PROVE A
    OBVIOUS
  <2> QED
    BY KeysAssumption
    DEF Next, Rotator, vars, files, cp, sess, wire, env, IInv, TypeOK, CrashInv,
        CommittedWhere, Activate, MapArrives, Cancel, BecomeDue, StageNew, Send,
        RotateAccepted, RotateMismatch, RotateError, ApplyRotated, RecoverNone,
        RecoverAccepted, RecoverMismatch, RecoverError, AdoptStaged, RunReturns,
        CPHandle, CPHandleOrphan, EnrollStart, EnrollFinish, EnrollFail, SignOut,
        Crash
<1> QED
  BY InitIInv, NextIInv, InitCrashInv, NextCrashInv, <1>1, PTL
  DEF Spec, StagedNeverOverwritten
=============================================================================
