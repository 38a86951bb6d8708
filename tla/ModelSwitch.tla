----------------------------- MODULE ModelSwitch -----------------------------
(***************************************************************************)
(* The switch of the served model.  Two goroutines may choose: "setup"     *)
(* (setupApplyModel, for the control plane's instruction) and "local" (the *)
(* management API's /preferred-model).  Each writes preferred-model.json,  *)
(* publishes the choice in the process, and then either asks the engine's  *)
(* reconcile for the switch (the weights are on disk) or starts their      *)
(* download and leaves the asking to its end.  A download is one job per   *)
(* model, it can be cancelled, and the last job to leave fires what the    *)
(* finished ones recorded.  A model can be deleted at any moment.          *)
(*                                                                         *)
(* A model stands for its one build: builds, cache types and windows are   *)
(* left out, and so is the vLLM route.  What makes setup choose, the hold  *)
(* of the boot download, the host's measurement and the engine's own start *)
(* and stop are not in this module.                                        *)
(***************************************************************************)
EXTENDS Naturals, FiniteSets

CONSTANTS Models, NoModel, Unset,
          MaxChanges  \* choices, pulls, retunes, cancels, deletions, restarts and failures of the catalog's file, together

ASSUME SwitchAssumption == /\ {NoModel, Unset} \cap Models = {} /\ NoModel # Unset
                           /\ MaxChanges \in Nat

VARIABLES
  act,       \* the goroutines that choose
  file,      \* preferred-model.json
  cfg,       \* the preference as this process read it when it started
  override,  \* preferredOverride
  pending,   \* pendingSwapModel: a model, and whose pointer it is
  row,       \* the catalog's row of each model
  active,    \* the catalog's Active selection
  job,       \* pullsInFlight: the download of each model and whether it was asked to stop
  firing,    \* jobs that left last, and have not fired what was deferred
  deferred,  \* swapBounceDeferred and retuneDeferred
  swapFlag,  \* swapPending
  rc,        \* the reconcile goroutine; engineReconcileInFlight is rc.pc # "off"
  boot,      \* bootstrapPreferredModel, once in a process, and the model it found preferred
  del,       \* the deletion: its model and the catalog it loaded
  wanted,    \* history: the choice published last, the file's after a restart; a deletion of that model ends it
  reached,   \* history: Active has been that choice since
  hindered,  \* history: that choice met one of the cases the code cannot get past: the catalog could not be read or
             \* written when its switch was due, the engine did not show the model when the process started, or it was
             \* published while a deletion was about to wipe the choice before it
  torn,      \* history: a deletion wrote a catalog back that had changed since it loaded it
  events     \* how much of MaxChanges was used

pullVars == <<row, job, firing, deferred, pending>>
swapVars == <<swapFlag, rc, active, reached>>
prefVars == <<file, cfg, override>>
histVars == <<wanted, hindered>>
restVars == <<boot, events>>
delVars  == <<del, torn>>
switchVars == <<act, pullVars, swapVars, prefVars, histVars, restVars, delVars>>

Actors == {"setup", "local"}
Maybe  == Models \cup {NoModel}

Idle     == [pc |-> "idle", m |-> NoModel]
NoJob    == [pc |-> "none", stop |-> FALSE]
NoDelete == [pc |-> "idle", m |-> NoModel, stopped |-> FALSE, row |-> [m \in Models |-> "none"], active |-> NoModel]
NoSwitch == [m |-> NoModel, by |-> "nobody"]
Nothing  == [swap |-> FALSE, retune |-> FALSE]
NotBooted == [pc |-> "todo", m |-> NoModel]
Booted   == [pc |-> "done", m |-> NoModel]

\* effectivePreferredModelID: the choice published in this process, else the one it started with.
Preferred == IF override # Unset THEN override ELSE cfg
Ready(m)  == row[m] = "ready"
InFlight  == {m \in Models : job[m].pc # "none"}

ActGoto(x, pc) == act' = [act EXCEPT ![x].pc = pc]
Leave(x)    == act' = [act EXCEPT ![x] = Idle]
Happens     == events < MaxChanges /\ events' = events + 1

\* The first process has found no choice to boot with; one that may have one comes with Restart.
SwitchInit ==
  /\ act = [x \in Actors |-> Idle]
  /\ file = NoModel /\ cfg = NoModel /\ override = Unset /\ pending = NoSwitch
  /\ row = [m \in Models |-> "none"] /\ active = NoModel
  /\ job = [m \in Models |-> NoJob] /\ firing = {} /\ deferred = Nothing
  /\ swapFlag = FALSE /\ rc = [pc |-> "off", t |-> NoModel]
  /\ boot = Booted /\ del = NoDelete
  /\ wanted = NoModel /\ reached = TRUE /\ hindered = FALSE /\ torn = FALSE /\ events = 0

-----------------------------------------------------------------------------
(* The switch: setupApplyModel or the handler, then SwapPreferredBuild. *)

\* The choice is written first.  Setup then measures the host for as long as that takes before it goes on; what is in
\* force already it does not apply.
Choose(x) ==
  /\ act[x].pc = "idle" /\ Happens
  /\ \E m \in Models : /\ x = "setup" => ~(Ready(m) /\ Preferred = m)
                       /\ file' = m /\ act' = [act EXCEPT ![x] = [pc |-> "publish", m |-> m]]
  /\ UNCHANGED <<cfg, override, pullVars, swapVars, histVars, boot, delVars>>

PublishChoice(x) ==
  /\ act[x].pc = "publish" /\ ActGoto(x, "look")
  /\ override' = act[x].m
  /\ wanted' = act[x].m /\ reached' = (active = act[x].m) /\ hindered' = (del.pc = "wipe")
  /\ UNCHANGED <<file, cfg, pullVars, swapFlag, rc, active, restVars, delVars>>

\* Mutant: The intent is recorded for the reconcile it starts, and dropped when one runs.
ReconcileUnasked(swap) ==
  /\ swapFlag' = IF rc.pc = "off" THEN swap ELSE swapFlag
  /\ rc' = IF rc.pc = "off" THEN [rc EXCEPT !.pc = "top"] ELSE rc

\* requestEngineReconcile: the intent is recorded first; a reconcile that runs is left to see it.
AskReconcile(swap) ==
  /\ swapFlag' = (swapFlag \/ swap)
  /\ rc' = IF rc.pc = "off" THEN [rc EXCEPT !.pc = "top"] ELSE rc

\* With the weights on disk the engine is asked for, without them their download is.
Look(x) ==
  /\ act[x].pc = "look"
  /\ IF Ready(act[x].m) THEN Leave(x) /\ AskReconcile(TRUE)
                        ELSE ActGoto(x, "mark") /\ UNCHANGED <<swapFlag, rc>>
  /\ UNCHANGED <<pullVars, active, reached, prefVars, histVars, restVars, delVars>>

MarkPending(x) ==
  /\ act[x].pc = "mark" /\ ActGoto(x, "pull")
  /\ pending' = [m |-> act[x].m, by |-> x]
  /\ UNCHANGED <<row, job, firing, deferred, swapVars, prefVars, histVars, restVars, delVars>>

\* pullModelBuild past its refusals: beginPull joins the job in flight, also one that was asked to stop, or claims
\* the slot and queues the row of a model that is not ready.
BeginPull(m) ==
  IF m \in InFlight THEN UNCHANGED <<job, row>>
  ELSE /\ job' = [job EXCEPT ![m] = [pc |-> "run", stop |-> FALSE]]
       /\ row' = [row EXCEPT ![m] = IF Ready(m) THEN @ ELSE "fetching"]

\* A refused download (no engine, pulls disabled) takes the switch back, if the pointer is still its own.
Dispatch(x) ==
  /\ act[x].pc = "pull" /\ Leave(x)
  /\ \/ BeginPull(act[x].m) /\ UNCHANGED pending
     \/ /\ pending' = IF pending.by = x THEN NoSwitch ELSE pending
        /\ UNCHANGED <<job, row>>
  /\ UNCHANGED <<firing, deferred, swapVars, prefVars, histVars, restVars, delVars>>

\* `waired models pull`: a download that is nobody's switch.
PullModel ==
  /\ Happens
  /\ \E m \in Models : BeginPull(m)
  /\ UNCHANGED <<act, firing, deferred, pending, swapVars, prefVars, histVars, boot, delVars>>

\* A retune for another capacity waits for the downloads (deferRetuneWhilePulling, under pullMu).
DeferRetune ==
  /\ Happens
  /\ IF InFlight # {} THEN deferred' = [deferred EXCEPT !.retune = TRUE] /\ UNCHANGED <<swapFlag, rc>>
                      ELSE AskReconcile(FALSE) /\ UNCHANGED deferred
  /\ UNCHANGED <<act, row, job, firing, pending, active, reached, prefVars, histVars, boot, delVars>>

-----------------------------------------------------------------------------
(* A download: runPullJob, CancelPull, settleCancelledPull, endPull. *)

JobGoto(m, pc) == job' = [job EXCEPT ![m].pc = pc]

\* The weights are on disk, and nobody had asked the job to stop when it looked: one may have by the time of the write,
\* and of the one of a failure.
Land(m) ==
  /\ job[m].pc = "run" /\ JobGoto(m, "check")
  /\ row' = [row EXCEPT ![m] = "ready"]
  /\ UNCHANGED <<act, firing, deferred, pending, swapVars, prefVars, histVars, restVars, delVars>>

\* recordPullState inside the store's lock: a model that is ready stays ready.
PullFails(m) ==
  /\ job[m].pc = "run" /\ JobGoto(m, "end")
  /\ row' = [row EXCEPT ![m] = IF Ready(m) THEN @ ELSE "failed"]
  /\ UNCHANGED <<act, firing, deferred, pending, swapVars, prefVars, histVars, restVars, delVars>>

\* A job that was asked to stop records nothing.
Stopped(m) ==
  /\ job[m].pc = "run" /\ job[m].stop /\ JobGoto(m, "end")
  /\ UNCHANGED <<act, row, firing, deferred, pending, swapVars, prefVars, histVars, restVars, delVars>>

\* `waired models cancel`; setup's cancelSupersededPull asks for the same.
CancelPull(m) ==
  /\ m \in InFlight /\ ~job[m].stop /\ Happens
  /\ job' = [job EXCEPT ![m].stop = TRUE]
  /\ UNCHANGED <<act, row, firing, deferred, pending, swapVars, prefVars, histVars, boot, delVars>>

\* The landed job asks for a retune, and for the switch when it was the one waited for.
Notes(m) ==
  /\ deferred' = [retune |-> TRUE, swap |-> deferred.swap \/ pending.m = m]
  /\ pending' = IF pending.m = m THEN NoSwitch ELSE pending

\* activatePreferredIfNeeded compares with the preference, and then takes the store's lock.
Check(m) ==
  /\ job[m].pc = "check"
  /\ IF Preferred = m THEN JobGoto(m, "commit") /\ UNCHANGED <<deferred, pending>>
                      ELSE JobGoto(m, "end") /\ Notes(m)
  /\ UNCHANGED <<act, row, firing, swapVars, prefVars, histVars, restVars, delVars>>

Hindered(m) == hindered' = (hindered \/ m = wanted)

\* A model that is ready is made active, unless the catalog cannot be written.
Activate(m) ==
  \/ /\ IF Ready(m) THEN active' = m /\ reached' = (reached \/ m = wanted) ELSE UNCHANGED <<active, reached>>
     /\ UNCHANGED <<hindered, events>>
  \/ Happens /\ Hindered(m) /\ UNCHANGED <<active, reached>>

Commit(m) ==
  /\ job[m].pc = "commit" /\ JobGoto(m, "end")
  /\ Activate(m) /\ Notes(m)
  /\ UNCHANGED <<act, row, firing, swapFlag, rc, prefVars, wanted, boot, delVars>>

\* Mutant: The row of a stopped job goes although the weights landed before it looked.
EndPullBlind(m) ==
  /\ job[m].pc = "end"
  /\ row' = IF job[m].stop THEN [row EXCEPT ![m] = "none"] ELSE row
  /\ pending' = IF job[m].stop /\ pending.m = m THEN NoSwitch ELSE pending
  /\ job' = [job EXCEPT ![m] = NoJob]
  /\ firing' = IF InFlight = {m} THEN firing \cup {m} ELSE firing
  /\ UNCHANGED <<act, deferred, swapVars, prefVars, histVars, restVars, delVars>>

\* Mutant: A job that was cancelled leaves without firing for the ones that finished before it.
EndPullStopped(m) ==
  LET drops == job[m].stop /\ ~Ready(m)
  IN /\ job[m].pc = "end"
     /\ row' = IF drops THEN [row EXCEPT ![m] = "none"] ELSE row
     /\ pending' = IF drops /\ pending.m = m THEN NoSwitch ELSE pending
     /\ job' = [job EXCEPT ![m] = NoJob]
     /\ firing' = IF InFlight = {m} /\ ~job[m].stop THEN firing \cup {m} ELSE firing
     /\ UNCHANGED <<act, deferred, swapVars, prefVars, histVars, restVars, delVars>>

\* The row of a stopped job goes, and with it the switch it was for, unless the weights landed (settleCancelledPull);
\* then the slot is given back, and the last to leave will fire (endPull under pullMu).
EndPull(m) ==
  LET drops == job[m].stop /\ ~Ready(m)
  IN /\ job[m].pc = "end"
     /\ row' = IF drops THEN [row EXCEPT ![m] = "none"] ELSE row
     /\ pending' = IF drops /\ row[m] # "none" /\ pending.m = m THEN NoSwitch ELSE pending
     /\ job' = [job EXCEPT ![m] = NoJob]
     /\ firing' = IF InFlight = {m} THEN firing \cup {m} ELSE firing
     /\ UNCHANGED <<act, deferred, swapVars, prefVars, histVars, restVars, delVars>>

\* Mutant: The row goes after the slot has been given back.
FireSettles(m) ==
  /\ m \in firing /\ firing' = firing \ {m}
  /\ row' = IF Ready(m) THEN row ELSE [row EXCEPT ![m] = "none"]
  /\ deferred' = Nothing
  /\ IF deferred # Nothing THEN AskReconcile(deferred.swap) ELSE UNCHANGED <<swapFlag, rc>>
  /\ UNCHANGED <<act, job, pending, active, reached, prefVars, histVars, restVars, delVars>>

\* endPull after it: both intents are consumed, and the switch stands for both.
Fire(m) ==
  /\ m \in firing /\ firing' = firing \ {m}
  /\ deferred' = Nothing
  /\ IF deferred # Nothing THEN AskReconcile(deferred.swap) ELSE UNCHANGED <<swapFlag, rc>>
  /\ UNCHANGED <<act, row, job, pending, active, reached, prefVars, histVars, restVars, delVars>>

-----------------------------------------------------------------------------
(* DeleteModel.  The catalog is loaded, the weights are removed, and the catalog that was loaded is saved. *)

DeleteAsks ==
  /\ del.pc = "idle" /\ Happens
  /\ \E m \in Models :
       /\ del' = [NoDelete EXCEPT !.pc = "load", !.m = m, !.stopped = (m \in InFlight)]
       /\ job' = IF m \in InFlight THEN [job EXCEPT ![m].stop = TRUE] ELSE job
  /\ UNCHANGED <<act, row, firing, deferred, pending, swapVars, prefVars, histVars, boot, torn>>

\* CancelPull's wait for the job ends with the job, or after pullCancelSettle.  Without a record there is nothing to
\* remove: the cancelled job has done it, or the model was never there and the request is refused.
DeleteLoads ==
  /\ del.pc = "load"
  /\ del' = IF row[del.m] # "none" THEN [pc |-> "save", m |-> del.m, stopped |-> FALSE, row |-> row, active |-> active]
            ELSE IF del.stopped   THEN [NoDelete EXCEPT !.pc = "forget", !.m = del.m]
            ELSE NoDelete
  /\ UNCHANGED <<act, pullVars, swapVars, prefVars, histVars, restVars, torn>>

\* Weights that cannot be removed keep their record, and so does a catalog that cannot be written.
DeleteSaves ==
  /\ del.pc = "save"
  /\ \/ del' = NoDelete /\ UNCHANGED <<row, active, torn>>
     \/ /\ del' = [NoDelete EXCEPT !.pc = "forget", !.m = del.m]
        /\ row' = [del.row EXCEPT ![del.m] = "none"]
        /\ active' = IF del.active = del.m THEN NoModel ELSE del.active
        /\ torn' = (torn \/ del.row # row \/ del.active # active \/ del.m \in InFlight)
  /\ UNCHANGED <<act, job, firing, deferred, pending, swapFlag, rc, reached, prefVars, histVars, restVars>>

\* forgetDeletedModel: what would download the model again is cleared where it names this model, the choice of this
\* process and then the file. Each is looked at first and cleared afterwards, whatever it holds by then.
DeleteForgets ==
  /\ del.pc = "forget"
  /\ del' = [del EXCEPT !.pc = IF override = del.m THEN "wipe" ELSE "read"]
  /\ UNCHANGED <<act, pullVars, swapVars, prefVars, histVars, restVars, torn>>

DeleteWipes ==
  /\ del.pc = "wipe" /\ del' = [del EXCEPT !.pc = "read"]
  /\ override' = NoModel
  /\ wanted' = IF wanted = del.m THEN NoModel ELSE wanted
  /\ UNCHANGED <<act, file, cfg, pullVars, swapVars, hindered, restVars, torn>>

DeleteReads ==
  /\ del.pc = "read"
  /\ del' = IF file = del.m THEN [del EXCEPT !.pc = "erase"] ELSE NoDelete
  /\ UNCHANGED <<act, pullVars, swapVars, prefVars, histVars, restVars, torn>>

DeleteErases ==
  /\ del.pc = "erase" /\ del' = NoDelete
  /\ file' \in {NoModel, file} \* the write fails
  /\ UNCHANGED <<act, override, cfg, pullVars, swapVars, histVars, restVars, torn>>

-----------------------------------------------------------------------------
(* The reconcile of the engine, and the daemon's start. *)

\* reconcileEngineServe's loop consumes the intent, and returns when the catalog cannot be read; the drain of the
\* running turns comes before the switch.
RcTop ==
  /\ rc.pc = "top" /\ swapFlag' = FALSE
  /\ \/ rc' = [rc EXCEPT !.pc = IF swapFlag THEN "read" ELSE "tune"] /\ UNCHANGED <<hindered, events>>
     \/ rc' = [rc EXCEPT !.pc = "exit"] /\ hindered' = (hindered \/ swapFlag) /\ Happens
  /\ UNCHANGED <<act, active, reached, pullVars, prefVars, wanted, boot, delVars>>

\* The model to switch to is the preference, read before the store's lock is taken (activatePreferred).
RcRead ==
  /\ rc.pc = "read"
  /\ rc' = [pc |-> IF Preferred = NoModel THEN "tune" ELSE "commit", t |-> Preferred]
  /\ UNCHANGED <<act, swapFlag, active, reached, pullVars, prefVars, histVars, restVars, delVars>>

RcCommit ==
  /\ rc.pc = "commit" /\ rc' = [pc |-> "tune", t |-> NoModel]
  /\ Activate(rc.t)
  /\ UNCHANGED <<act, swapFlag, pullVars, prefVars, wanted, boot, delVars>>

\* Nothing moved, staged, or the engine failed: it returns.  After a bounce it looks for a newer switch.
RcTune ==
  /\ rc.pc = "tune"
  /\ \E bounced \in BOOLEAN :
       rc' = [pc |-> IF bounced /\ swapFlag THEN "top" ELSE "exit", t |-> NoModel]
  /\ UNCHANGED <<act, swapFlag, active, reached, pullVars, prefVars, histVars, restVars, delVars>>

RcExit ==
  /\ rc.pc = "exit" /\ rc' = [rc EXCEPT !.pc = "off"]
  /\ UNCHANGED <<act, swapFlag, active, reached, pullVars, prefVars, histVars, restVars, delVars>>

\* bootstrapPreferredModel, when the engine is up: the preference and its row are read, and the engine is asked for it.
\* In a catalog that cannot be read no row is ready.
BootLooks ==
  /\ boot.pc = "todo"
  /\ \/ Preferred = NoModel /\ boot' = Booted /\ UNCHANGED hindered
     \/ /\ Preferred # NoModel /\ UNCHANGED hindered
        /\ boot' = [pc |-> IF Ready(Preferred) THEN "ask" ELSE "pull", m |-> Preferred]
     \/ /\ Preferred # NoModel /\ Hindered(Preferred)
        /\ boot' = [pc |-> "pull", m |-> Preferred]
  /\ UNCHANGED <<act, pullVars, swapVars, prefVars, wanted, events, delVars>>

\* engineServesTag. The choice is compared again before it is made active.
BootAsks ==
  /\ boot.pc = "ask"
  /\ \/ boot' = (IF Preferred = boot.m THEN [boot EXCEPT !.pc = "commit"] ELSE Booted) /\ UNCHANGED hindered
     \/ boot' = [boot EXCEPT !.pc = "pull"] /\ Hindered(boot.m)
  /\ UNCHANGED <<act, pullVars, swapVars, prefVars, wanted, events, delVars>>

BootCommits ==
  /\ boot.pc = "commit" /\ boot' = Booted
  /\ Activate(boot.m)
  /\ UNCHANGED <<act, pullVars, swapFlag, rc, prefVars, wanted, delVars>>

\* What the engine does not show is downloaded, unless that is refused. Its download is nobody's switch.
BootPulls ==
  /\ boot.pc = "pull" /\ boot' = Booted
  /\ BeginPull(boot.m) \/ UNCHANGED <<job, row>>
  /\ UNCHANGED <<act, firing, deferred, pending, swapVars, prefVars, histVars, events, delVars>>

\* The daemon stops and starts: the preference's file and the catalog are what is left.
Restart ==
  /\ Happens
  /\ act' = [x \in Actors |-> Idle]
  /\ cfg' = file /\ override' = Unset /\ boot' = NotBooted
  /\ pending' = NoSwitch /\ job' = [m \in Models |-> NoJob] /\ firing' = {} /\ deferred' = Nothing
  /\ swapFlag' = FALSE /\ rc' = [pc |-> "off", t |-> NoModel]
  /\ del' = NoDelete
  /\ wanted' = file /\ reached' = (active = file) /\ hindered' = FALSE
  /\ UNCHANGED <<file, row, active, torn>>

-----------------------------------------------------------------------------
Switching(x) == Choose(x) \/ PublishChoice(x) \/ Look(x) \/ MarkPending(x) \/ Dispatch(x)
Pulling(m)   == Land(m) \/ PullFails(m) \/ Stopped(m) \/ CancelPull(m) \/ Check(m) \/ Commit(m) \/ EndPull(m) \/ Fire(m)
Deleting     == DeleteAsks \/ DeleteLoads \/ DeleteSaves \/ DeleteForgets \/ DeleteWipes \/ DeleteReads \/ DeleteErases
Booting      == BootLooks \/ BootAsks \/ BootCommits \/ BootPulls
Reconciling  == RcTop \/ RcRead \/ RcCommit \/ RcTune \/ RcExit

SwitchNext ==
  \/ PullModel \/ DeferRetune \/ Reconciling \/ Booting \/ Deleting \/ Restart
  \/ \E x \in Actors : Switching(x)
  \/ \E m \in Models : Pulling(m)

SwitchSpec == SwitchInit /\ [][SwitchNext]_switchVars

-----------------------------------------------------------------------------
SwitchTypeOK ==
  /\ \A x \in Actors : act[x].m \in Maybe /\ (act[x].pc # "idle" => act[x].m # NoModel)
  /\ {file, cfg, wanted, active, pending.m, rc.t, boot.m, del.m} \subseteq Maybe
  /\ override \in Maybe \cup {Unset}
  /\ row \in [Models -> {"none", "fetching", "ready", "failed"}]
  /\ firing \subseteq Models

(* A download that runs is shown: its row says that it is on its way, or that the model is there, and the job that *)
(* leaves takes its own row with it, never the one of the job that took its slot (spawnPull, settleCancelledPull). *)
(* A job that was asked to stop is going, and a deletion that overlaps a download may take its row (torn). *)
RunningHasRow ==
  /\ SwitchTypeOK
  /\ \A m \in Models : job[m].pc = "run" /\ ~job[m].stop /\ ~torn => row[m] \in {"fetching", "ready"}

(* A model whose weights are on disk keeps its record whatever cancels, failures and repeated downloads meet it: *)
(* only a deletion takes it (recordPullState, settleCancelledPull, Land). *)
ReadyKept == [][\A m \in Models : Ready(m) /\ ~Ready(m)' => del.pc = "save"]_switchVars

(* What a finished download asked of the engine has somebody to ask it: a job that has not left, or the last one *)
(* that has and is about to fire (endPull: "neither lost nor doubled"). *)
DeferredHasCarrier == deferred # Nothing => InFlight # {} \/ firing # {}

(* The choice published last, once its weights are on disk, is in force and has been made active, or its switch is *)
(* still asked for: no download, cancel, refusal, second choice, deletion or restart in between drops it without a *)
(* trace (SwapPreferredBuild, runPullJob, bootstrapPreferredModel, forgetDeletedModel). What the code cannot get past *)
(* is excepted for the choice that met it (hindered). *)
OnItsWay(m) ==
  \/ boot.pc = "todo" \/ (boot.pc \in {"ask", "commit"} /\ boot.m = m)
  \/ swapFlag \/ rc.pc = "read" \/ (rc.pc = "commit" /\ rc.t = m)
  \/ job[m].pc \in {"check", "commit"}
  \/ \E x \in Actors : act[x].m = m /\ act[x].pc = "look"

ChoiceNotForgotten ==
  \A m \in Models : wanted = m /\ Ready(m) /\ ~hindered => Preferred = m /\ (reached \/ OnItsWay(m))

=============================================================================
