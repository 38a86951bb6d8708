--------------------------- MODULE NodeKeyRotation ---------------------------
(***************************************************************************)
(* The rotation of a device's Node Key: the loop of nodeKeyRotator         *)
(* (cmd/waired-agent/node_key_rotator.go), the two key files it moves      *)
(* (secrets/node.key and secrets/node.key.next), the control plane that    *)
(* holds the device's current key, and the other writers of those keys:    *)
(* a sign-in (setup.Enroll) and a sign-out (identity.RemoveEnrollment).    *)
(*                                                                         *)
(* Keys are model values; NewNodeKey draws one nobody has drawn before.    *)
(* What the environment may do wrong is faults, one of FaultCases, chosen  *)
(* at the start and never changed, so that a property can say which faults *)
(* it is about:                                                            *)
(*   "crash"   the process dies between any two steps;                     *)
(*   "lost"    a POST times out, whether or not the control plane saw it   *)
(*             or will still see it; or the control plane answers an error *)
(*             other than the mismatch;                                    *)
(*   "stop"    the session is torn down at any time (SIGTERM, a rebuild);  *)
(*   "signin"  a sign-in enrolls again, a sign-out removes the enrollment; *)
(*   "io"      a file operation of the rotator fails.                      *)
(***************************************************************************)
EXTENDS Naturals, FiniteSets

CONSTANTS Keys,       \* the Node Keys there are
          NoKey,      \* "no such file", "no map yet", "no session"
          FaultCases, \* the sets of faults to start from
          MaxCrashes  \* bound: crashes in a behaviour

AllFaults == {"crash", "lost", "stop", "signin", "io"}

ASSUME KeysAssumption == NoKey \notin Keys
ASSUME FaultsAssumption == FaultCases \subseteq SUBSET AllFaults
ASSUME BoundAssumption == MaxCrashes \in Nat

VARIABLES
  nodeKey,    \* secrets/node.key
  stagedKey,  \* secrets/node.key.next
  cpKey,      \* the Node Key the control plane holds for the device
  published,  \* agentProvider's published key: from the session's last map
  sessKey,    \* CurrentNodeKey, the key the live session was built with
  pc,         \* where the rotator of the live session is
  ctxDone,    \* the session's context is cancelled
  due,        \* now >= meta.ExpiresAt - NodeKeyRotationLead
  req,        \* the key of the POST the rotator waits on, or NoKey
  reply,      \* what the control plane answered it
  orphans,    \* POSTs nobody waits on that the control plane may still see
  enrollKey,  \* the Node Key a running sign-in has read, or NoKey
  enrolled,   \* identity.json exists
  used,       \* keys drawn so far
  committed,  \* history: every key the control plane has held
  crashes,    \* crashes so far
  faults      \* what the environment may do in this behaviour

files == <<nodeKey, stagedKey>>
cp    == <<cpKey, committed>>
sess  == <<published, sessKey, ctxDone>>
wire  == <<req, reply, orphans>>
env   == <<enrollKey, enrolled, crashes, faults>>
vars  == <<nodeKey, stagedKey, cpKey, published, sessKey, pc, ctxDone, due,
           req, reply, orphans, enrollKey, enrolled, used, committed, crashes,
           faults>>

PCs == {"down", "recover", "recPost", "adopt", "recApply",
        "loop", "rotSend", "rotPost", "rotApply", "reactivate"}

Post == [old : Keys, new : Keys]

TypeOK ==
  /\ nodeKey \in Keys \cup {NoKey}
  /\ stagedKey \in Keys \cup {NoKey}
  /\ cpKey \in Keys
  /\ published \in Keys \cup {NoKey}
  /\ sessKey \in Keys \cup {NoKey}
  /\ pc \in PCs
  /\ ctxDone \in BOOLEAN
  /\ due \in BOOLEAN
  /\ req \in Keys \cup {NoKey}
  /\ reply \in {"none", "ok", "mismatch", "error"}
  /\ orphans \subseteq Post
  /\ enrollKey \in Keys \cup {NoKey}
  /\ enrolled \in BOOLEAN
  /\ used \subseteq Keys
  /\ committed \subseteq Keys
  /\ crashes \in 0..MaxCrashes
  /\ faults \in FaultCases

(* An enrolled device whose daemon is not running yet. *)
Init ==
  \E k \in Keys :
    /\ nodeKey = k /\ cpKey = k /\ used = {k} /\ committed = {k}
    /\ stagedKey = NoKey /\ published = NoKey /\ sessKey = NoKey
    /\ pc = "down" /\ ctxDone = FALSE /\ due = FALSE
    /\ req = NoKey /\ reply = "none" /\ orphans = {}
    /\ enrollKey = NoKey /\ enrolled = TRUE /\ crashes = 0
    /\ faults \in FaultCases

-----------------------------------------------------------------------------
(* The session around the rotator. *)

(* activate: the session is built from the key on disk; no map has arrived. *)
Activate ==
  /\ pc = "down" /\ enrolled
  /\ sessKey' = nodeKey /\ published' = NoKey /\ ctxDone' = FALSE
  /\ pc' = "recover"
  /\ UNCHANGED <<files, cp, wire, due, env, used>>

(* agentProvider.replacePeers: a network map names the device's own key. *)
MapArrives ==
  /\ pc # "down" /\ published # cpKey
  /\ published' = cpKey
  /\ UNCHANGED <<files, cp, sessKey, ctxDone, pc, due, wire, env, used>>

(* session.teardown cancels the context; the rotator returns at the next   *)
(* place that looks at it. After a rotation the teardown is reactivate's.  *)
Cancel ==
  /\ "stop" \in faults \/ pc = "reactivate"
  /\ pc # "down" /\ ~ctxDone
  /\ ctxDone' = TRUE
  /\ UNCHANGED <<files, cp, published, sessKey, pc, due, wire, env, used>>

(* Run returns: ctx.Done between attempts, or a re-activation is in flight. *)
RunReturns ==
  /\ ctxDone /\ pc \in {"recover", "loop", "reactivate"}
  /\ pc' = "down" /\ sessKey' = NoKey /\ published' = NoKey /\ ctxDone' = FALSE
  /\ UNCHANGED <<files, cp, due, wire, env, used>>

(* nextSleep and maybeRotate: the scheduled time arrives. *)
BecomeDue ==
  /\ ~due /\ due' = TRUE
  /\ UNCHANGED <<files, cp, sess, pc, wire, env, used>>

-----------------------------------------------------------------------------
(* rotateTo *)

(* The schedule says rotate: draw a key and stage it (the save may fail). *)
StageNew ==
  /\ pc = "loop" /\ ~ctxDone /\ due
  /\ \E k \in Keys \ used :
       /\ used' = used \cup {k}
       /\ \/ stagedKey' = k /\ pc' = "rotSend"
          \/ "io" \in faults /\ UNCHANGED <<stagedKey, pc>>
  /\ UNCHANGED <<nodeKey, cp, sess, due, wire, env>>

(* client.RotateNodeKey sends the POST; the rotator waits for the answer. *)
Send ==
  /\ \/ pc = "rotSend" /\ pc' = "rotPost"
     \/ pc = "recover" /\ ~ctxDone /\ stagedKey # NoKey /\ pc' = "recPost"
  /\ req' = stagedKey /\ reply' = "none"
  /\ UNCHANGED <<files, cp, sess, due, orphans, env, used>>

Waiting == pc \in {"rotPost", "recPost"}

(* The control plane answers the POST the rotator waits on. *)
CPHandle ==
  /\ Waiting /\ reply = "none"
  /\ \/ /\ cpKey = sessKey
        /\ cpKey' = req /\ committed' = committed \cup {req} /\ reply' = "ok"
     \/ /\ cpKey # sessKey
        /\ reply' = "mismatch" /\ UNCHANGED cp
     \/ /\ "lost" \in faults
        /\ reply' = "error" /\ UNCHANGED cp
  /\ UNCHANGED <<files, sess, pc, due, req, orphans, env, used>>

(* ... and one that was given up on, which may still commit. *)
CPHandleOrphan ==
  \E r \in orphans :
    /\ orphans' = orphans \ {r}
    /\ IF cpKey = r.old
         THEN cpKey' = r.new /\ committed' = committed \cup {r.new}
         ELSE UNCHANGED cp
    /\ UNCHANGED <<files, sess, pc, due, req, reply, env, used>>

(* The POST stays on its way when nobody waits for it any more. *)
Abandon ==
  /\ req' = NoKey /\ reply' = "none"
  /\ orphans' = IF Waiting /\ reply = "none"
                  THEN orphans \cup {[old |-> sessKey, new |-> req]}
                  ELSE orphans

Answered(r) == reply = r /\ req' = NoKey /\ reply' = "none" /\ UNCHANGED orphans

(* The POST fails for the client: the answer is an error, or it never      *)
(* arrives, or the session's context was cancelled while waiting.          *)
PostFails ==
  \/ Answered("error")
  \/ ("lost" \in faults \/ ctxDone) /\ Abandon

(* rotateTo, POST accepted: on to applyRotated. *)
RotateAccepted ==
  /\ pc = "rotPost" /\ Answered("ok")
  /\ pc' = "rotApply"
  /\ UNCHANGED <<files, cp, sess, due, env, used>>

(* rotateTo, mismatch: the staged key stays and Run's loop goes on. *)
RotateMismatch ==
  /\ pc = "rotPost" /\ Answered("mismatch")
  /\ pc' = "loop"
  /\ UNCHANGED <<files, cp, sess, due, env, used>>

(* rotateTo, any other error: os.Remove(node.key.next), best effort. *)
RotateError ==
  /\ pc = "rotPost" /\ PostFails
  /\ stagedKey' = NoKey \/ ("io" \in faults /\ UNCHANGED stagedKey)
  /\ pc' = "loop"
  /\ UNCHANGED <<nodeKey, cp, sess, due, env, used>>

-----------------------------------------------------------------------------
(* applyRotated: rename node.key.next over node.key, save the certificate  *)
(* and the meta (best effort), trigger the re-activation. A failed rename  *)
(* is an error for the loop and "pending" for the recovery.                *)
ApplyRotated ==
  /\ pc \in {"rotApply", "recApply"}
  /\ \/ /\ stagedKey # NoKey
        /\ nodeKey' = stagedKey /\ stagedKey' = NoKey
        /\ due' = FALSE \/ ("io" \in faults /\ UNCHANGED due)
        /\ pc' = "reactivate"
     \/ /\ "io" \in faults
        /\ pc' = IF pc = "rotApply" THEN "loop" ELSE "recover"
        /\ UNCHANGED <<files, due>>
  /\ UNCHANGED <<cp, sess, wire, env, used>>

-----------------------------------------------------------------------------
(* recoverStagedRotation and adoptStaged *)

(* Mutant: Run enters the loop without waiting for the reconciliation. *)
RecoverNever ==
  /\ pc = "recover" /\ ~ctxDone
  /\ pc' = "loop"
  /\ UNCHANGED <<files, cp, sess, due, wire, env, used>>

(* Nothing staged (or the file cannot be read): the loop may start. *)
RecoverNone ==
  /\ pc = "recover" /\ ~ctxDone
  /\ stagedKey = NoKey \/ "io" \in faults
  /\ pc' = "loop"
  /\ UNCHANGED <<files, cp, sess, due, wire, env, used>>

(* Mutant: a mismatch discards the staged key, as other errors do in rotateTo. *)
RecoverMismatchDiscards ==
  /\ pc = "recPost" /\ Answered("mismatch")
  /\ pc' = "loop" /\ stagedKey' = NoKey
  /\ UNCHANGED <<nodeKey, cp, sess, due, env, used>>

(* Mutant: a mismatch is only ever retried. *)
RecoverMismatchRetries ==
  /\ pc = "recPost" /\ Answered("mismatch")
  /\ pc' = "recover"
  /\ UNCHANGED <<files, cp, sess, due, env, used>>

RecoverAccepted ==
  /\ pc = "recPost" /\ Answered("ok")
  /\ pc' = "recApply"
  /\ UNCHANGED <<files, cp, sess, due, env, used>>

RecoverMismatch ==
  /\ pc = "recPost" /\ Answered("mismatch")
  /\ pc' = "adopt"
  /\ UNCHANGED <<files, cp, sess, due, env, used>>

(* Any other error: the staged key is kept for the next attempt. *)
RecoverError ==
  /\ pc = "recPost" /\ PostFails
  /\ pc' = "recover"
  /\ UNCHANGED <<files, cp, sess, due, env, used>>

(* Mutant: a mismatch alone is read as "our POST committed". *)
AdoptUnverified ==
  /\ pc = "adopt"
  /\ nodeKey' = stagedKey /\ stagedKey' = NoKey
  /\ pc' = "reactivate"
  /\ UNCHANGED <<cp, sess, due, wire, env, used>>

(* adoptStaged: promote only the key the network map says the control      *)
(* plane holds; otherwise try again later.                                 *)
AdoptStaged ==
  /\ pc = "adopt"
  /\ \/ /\ published = stagedKey /\ published # NoKey
        /\ nodeKey' = stagedKey /\ stagedKey' = NoKey
        /\ pc' = "reactivate"
     \/ /\ published # stagedKey \/ published = NoKey \/ "io" \in faults
        /\ pc' = "recover"
        /\ UNCHANGED files
  /\ UNCHANGED <<cp, sess, due, wire, env, used>>

-----------------------------------------------------------------------------
(* The other writers of the key: sign-in and sign-out, and the crash. *)

(* setup.Enroll reads node.key (or creates it), then waits for the browser. *)
EnrollStart ==
  /\ "signin" \in faults /\ enrollKey = NoKey
  /\ \/ /\ nodeKey # NoKey
        /\ enrollKey' = nodeKey /\ UNCHANGED <<nodeKey, used>>
     \/ /\ nodeKey = NoKey
        /\ \E k \in Keys \ used :
             nodeKey' = k /\ enrollKey' = k /\ used' = used \cup {k}
  /\ UNCHANGED <<stagedKey, cp, sess, pc, due, wire, enrolled, crashes,
                 faults>>

(* The control plane renews the device row with the key the sign-in sent;  *)
(* Enroll saves the identity and the rotation clock, and the session is    *)
(* rebuilt (a live one is torn down first).                                *)
EnrollFinish ==
  /\ enrollKey # NoKey
  /\ cpKey' = enrollKey /\ committed' = committed \cup {enrollKey}
  /\ enrollKey' = NoKey /\ enrolled' = TRUE /\ due' = FALSE
  /\ ctxDone' = (pc # "down")
  /\ UNCHANGED <<files, published, sessKey, pc, wire, crashes, used,
                 faults>>

(* The sign-in fails or is cancelled, before or after the control plane    *)
(* renewed the device row.                                                 *)
EnrollFail ==
  /\ enrollKey # NoKey
  /\ enrollKey' = NoKey
  /\ \/ UNCHANGED cp
     \/ cpKey' = enrollKey /\ committed' = committed \cup {enrollKey}
  /\ UNCHANGED <<files, sess, pc, due, wire, enrolled, used,
                 crashes, faults>>

(* Logout, after the session is down: RemoveEnrollment deletes node.key    *)
(* and identity.json; it is refused while a sign-in is in flight.          *)
SignOut ==
  /\ "signin" \in faults
  /\ pc = "down" /\ enrolled /\ enrollKey = NoKey
  /\ nodeKey' = NoKey /\ enrolled' = FALSE
  /\ UNCHANGED <<stagedKey, cp, sess, pc, due, wire, enrollKey, used,
                 crashes, faults>>

(* The process dies; only the files and the control plane keep their state. *)
Crash ==
  /\ "crash" \in faults /\ crashes < MaxCrashes /\ pc # "down"
  /\ crashes' = crashes + 1
  /\ Abandon
  /\ pc' = "down" /\ sessKey' = NoKey /\ published' = NoKey /\ ctxDone' = FALSE
  /\ enrollKey' = NoKey
  /\ UNCHANGED <<files, cp, due, enrolled, used, faults>>

-----------------------------------------------------------------------------
Rotator ==
  \/ StageNew \/ Send \/ RotateAccepted \/ RotateMismatch \/ RotateError
  \/ ApplyRotated \/ RecoverNone \/ RecoverAccepted \/ RecoverMismatch
  \/ RecoverError \/ AdoptStaged \/ RunReturns

Next ==
  \/ Activate \/ MapArrives \/ Cancel \/ BecomeDue \/ Rotator
  \/ CPHandle \/ CPHandleOrphan
  \/ EnrollStart \/ EnrollFinish \/ EnrollFail \/ SignOut \/ Crash

Spec == Init /\ [][Next]_vars

(* The rotator's goroutine runs, the daemon is started again after it went *)
(* down and reactivate's teardown reaches the session; the control plane   *)
(* answers what reaches it and the map subscription delivers. Nothing      *)
(* forces a rotation to be due, a fault or a sign-in.                      *)
Fairness ==
  /\ WF_vars(Rotator) /\ WF_vars(CPHandle) /\ WF_vars(Activate)
  /\ WF_vars(MapArrives) /\ WF_vars(pc = "reactivate" /\ Cancel)

FairSpec == Spec /\ Fairness

-----------------------------------------------------------------------------
(* Properties *)

(* adoptStaged and applyRotated: node.key is only ever replaced by a key   *)
(* the control plane has held. "promoting a key the CP does not hold would *)
(* take the device off the network with no local key left to fall back to" *)
(* (node_key_rotator.go:314).                                              *)
PromotesOnlyCommitted ==
  [][(nodeKey \in Keys /\ nodeKey' \in Keys /\ nodeKey' # nodeKey)
       => nodeKey' \in committed]_vars

OnlyCrashes == faults \subseteq {"crash"}

(* The crash-safety claim of rotateTo (:159) for every fault: whatever the *)
(* control plane holds for an enrolled device is in node.key or in         *)
(* node.key.next. It does not hold once an answer can be lost.             *)
CommittedKeyOnDisk == enrolled => cpKey \in {nodeKey, stagedKey}

(* The same claim where it holds: crashes at any step lose no key.         *)
CommittedKeyHeld == OnlyCrashes => CommittedKeyOnDisk

(* Run (:92): the scheduled rotation does not start while a staged key is  *)
(* still unreconciled, so crashes alone never have node.key.next written   *)
(* over another key.                                                       *)
StagedNeverOverwritten ==
  [][(OnlyCrashes /\ stagedKey \in Keys /\ stagedKey' \in Keys)
       => stagedKey' = stagedKey]_vars

(* A session never runs for ever on a key the control plane has replaced:  *)
(* whenever the two differ, they agree again (waired#1137's divergence     *)
(* does not happen through crashes alone).                                 *)
KeysReconverge ==
  (OnlyCrashes /\ cpKey # nodeKey) ~> (cpKey = nodeKey /\ sessKey = cpKey)
=============================================================================
