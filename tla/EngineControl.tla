----------------------------- MODULE EngineControl -----------------------------
(***************************************************************************)
(* The engine's process and those who start and stop it: the ollama        *)
(* adapter (runtime/ollama.go), the crash budget and the reconcile of the  *)
(* provider (inference.go) and the operator's stop and start               *)
(* (engine_control.go).                                                    *)
(*                                                                         *)
(* A start runs on a goroutine of its own which everybody else joins; a    *)
(* stop cuts it short. Four actors meet on one process: the start, the     *)
(* reconcile's bounce, the operator, and the supervisor of each child.     *)
(*                                                                         *)
(* Ensure stands for every caller that only starts: a request, the         *)
(* bootstrap's attempts, the operator's start. What a bounce serves with,  *)
(* the drain before it and the vLLM engine are left out.                   *)
(***************************************************************************)
EXTENDS Naturals, FiniteSets

CONSTANTS Child,       \* names of spawned children, used again once forgotten
          None,
          MaxAttempts, \* engineRecoveryMaxAttempts
          MaxPending,  \* bound: handlers and recovery timers under way
          MaxEvents    \* bound: demands, commands, deaths, jams, unreadable trees,
                       \* stable spells

ASSUME EngineAssumption ==
  /\ IsFiniteSet(Child) /\ Child # {} /\ None \notin Child
  /\ MaxAttempts \in Nat \ {0} /\ MaxPending \in Nat \ {0} /\ MaxEvents \in Nat

Actor == {"bounce", "operator"} \* those who call Stop

VARIABLES
  parked, giveUp, state, proc, fresh, adopted, \* the adapter; fresh: the child
    \* whose generation is the current one, None once procGen has moved on
  recent,    \* less than unhealthyDebounce since the last death
  ensuring, cancelled, \* the start in flight
  lead,      \* its goroutine: where it is and its child
  tree,      \* each child's process tree
  retired,   \* PendingExits: the children stopped; one whose tree is gone is
             \* swept before the next spawn
  unread,    \* dropped from it with something left, for their tree could not
             \* be read
  stuck,     \* children the system does not let go of
  watchers, seen, \* superviseChild, before and after it has read procGen
  deaths, failures, latching, \* handlers under way: OnUnhealthy, OnStartFailed,
                              \* those about to call LatchFailed
  strikes, timers, \* crashStrikes; delayed recoveries
  stop,      \* each actor's Stop
  operator,  \* the operator's command
  bounce, recover, \* reconcileEngineServe
  swapPending, recoverPending,
  orphan,    \* an engine of a previous run of the agent holds the port
  left       \* events to come

adapter  == <<parked, giveUp, state, proc, fresh, adopted, recent>>
start    == <<ensuring, cancelled, lead>>
children == <<tree, retired, unread, stuck>>
budget   == <<watchers, seen, deaths, failures, latching, strikes, timers>>
owners   == <<stop, operator, bounce, recover, swapPending, recoverPending>>
vars     == <<adapter, start, children, budget, owners, orphan, left>>

TypeOK ==
  /\ {parked, giveUp, adopted, recent, ensuring, cancelled, recover,
      swapPending, recoverPending, orphan} \subseteq BOOLEAN
  /\ state \in {"stopped", "starting", "ready", "failed"}
  /\ {proc, fresh} \subseteq Child \cup {None}
  /\ lead \in [at : {"off", "reap", "reaping", "check", "spawn", "record", "probe", "tearing",
                     "up", "dropping", "mark"}, child : Child \cup {None}]
  /\ tree \in [Child -> {"gone", "up", "serving", "runners"}]
  /\ {retired, unread, stuck, watchers, seen} \subseteq SUBSET Child
  /\ {deaths, failures, latching, timers} \subseteq 0..MaxPending
  /\ strikes \in 0..MaxAttempts + 1
  /\ stop \in [Actor -> [at : {"off", "cancel", "look", "wait"},
                         child : Child \cup {None}]]
  /\ operator \in {"idle", "park", "clear", "reset"}
  /\ left \in 0..MaxEvents
  /\ bounce \in {"idle", "take", "decide", "stop", "ensure", "join", "verify", "exit"}

Init ==
  /\ parked = FALSE /\ giveUp = FALSE /\ state = "stopped" /\ proc = None /\ fresh = None
  /\ adopted = FALSE /\ recent = FALSE
  /\ ensuring = FALSE /\ cancelled = FALSE
  /\ lead = [at |-> "off", child |-> None]
  /\ tree = [c \in Child |-> "gone"] /\ retired = {} /\ unread = {} /\ stuck = {}
  /\ watchers = {} /\ seen = {}
  /\ deaths = 0 /\ failures = 0 /\ latching = 0 /\ strikes = 0 /\ timers = 0
  /\ stop = [a \in Actor |-> [at |-> "off", child |-> None]] /\ operator = "idle" /\ bounce = "idle"
  /\ recover = FALSE /\ swapPending = FALSE /\ recoverPending = FALSE
  /\ orphan \in BOOLEAN /\ left = MaxEvents

Event == left > 0 /\ left' = left - 1

Runs(c)   == tree[c] \in {"up", "serving"}
Exited(c) == c = None \/ ~Runs(c)
Told      == retired \cup unread \* children the agent has stopped

PortAnswers == orphan \/ \E c \in Child : tree[c] = "serving"

(***************************************************************************)
(* The children, which the operating system runs.                          *)
(***************************************************************************)
(* The child answers its port, which it cannot while another has it.       *)
Answers(c) ==
  /\ tree[c] = "up" /\ ~PortAnswers /\ c \notin Told
  /\ tree' = [tree EXCEPT ![c] = "serving"]
  /\ UNCHANGED <<adapter, start, retired, unread, stuck, budget, owners, orphan, left>>

(* The child exits, and leaves runners of its own behind or does not.      *)
Exits(c) ==
  /\ Runs(c)
  /\ \E t \in {"runners", "gone"} : tree' = [tree EXCEPT ![c] = t]
  /\ IF c \in Told THEN UNCHANGED left ELSE Event
  /\ stuck' = stuck \ {c}
  /\ UNCHANGED <<adapter, start, retired, unread, budget, owners, orphan>>

RunnersExit(c) ==
  /\ tree[c] = "runners" /\ tree' = [tree EXCEPT ![c] = "gone"]
  /\ UNCHANGED <<adapter, start, retired, unread, stuck, budget, owners, orphan, left>>

(* killAndReap's budget passes and the child has not been collected.       *)
Jams(c) ==
  /\ Event
  /\ Runs(c) /\ c \in retired /\ stuck = {} /\ stuck' = {c}
  /\ UNCHANGED <<adapter, start, tree, retired, unread, budget, owners, orphan>>

(* Mutant: the generation is left as it is.                                *)
RetireKeepsGen(c) == fresh' = fresh /\ retired' = retired \cup ({c} \ {None})

(* stopProcess up to its wait: the generation is retired before the child  *)
(* is signalled, and the tree is recorded for the next start.              *)
Retire(c) ==
  /\ fresh' = None
  /\ retired' = retired \cup ({c} \ {None})

(***************************************************************************)
(* EnsureRunning and the goroutine of the start it leads. Its last         *)
(* assignment and its publication (runStart's end) are one step: whatever  *)
(* lands between the two has the effect it has before or after both.       *)
(***************************************************************************)
MayLead == ~parked /\ ~giveUp /\ state # "ready" /\ ~ensuring

(* A dead child is still held: its generation goes before it is reaped.    *)
Lead ==
  /\ ensuring' = TRUE /\ cancelled' = FALSE /\ state' = "starting"
  /\ fresh' = IF proc # None THEN None ELSE fresh
  /\ lead' = [at |-> IF proc # None THEN "reap" ELSE "check", child |-> None]

(* EnsureRunning of a request, of the bootstrap or of the operator's start *)
Ensure ==
  /\ Event
  /\ MayLead /\ Lead
  /\ UNCHANGED <<parked, giveUp, proc, adopted, recent, children, budget, owners, orphan>>

At(p)   == lead.at = p
Goto(p) == lead' = [lead EXCEPT !.at = p] /\ UNCHANGED <<ensuring, cancelled, failures, bounce>>

(* Joiners are told. A failure that says something of the engine           *)
(* (startFailureIsEvidence) is handed to OnStartFailed.                    *)
Publish(ok, evidence) ==
  /\ ensuring' = FALSE /\ cancelled' = FALSE /\ lead' = [at |-> "off", child |-> None]
  /\ IF evidence /\ ~parked THEN failures < MaxPending /\ failures' = failures + 1
                            ELSE UNCHANGED failures
  /\ bounce' = IF bounce # "join" THEN bounce ELSE IF ok THEN "verify" ELSE "exit"

Rest == <<parked, giveUp, recent, watchers, seen, deaths, latching, strikes, timers, stop,
          operator, recover, swapPending, recoverPending, orphan, left>>

Reap ==
  /\ At("reap") /\ Goto("reaping") /\ Retire(proc)
  /\ UNCHANGED <<state, proc, adopted, tree, unread, stuck, Rest>>

(* stopProcess's error is dropped here, in Tearing and in Dropping.        *)
Stops(c) == Exited(c) \/ c \in stuck

Reaping ==
  /\ At("reaping") /\ Stops(proc) /\ proc' = None /\ Goto("check")
  /\ UNCHANGED <<state, fresh, adopted, children, Rest>>

(* A start that was cancelled, is held while the engine's files are        *)
(* replaced, or has no binary. Only the last names a state.                *)
Refused ==
  /\ At("check")
  /\ \/ cancelled /\ Publish(FALSE, TRUE) /\ UNCHANGED state
     \/ Publish(FALSE, FALSE) /\ UNCHANGED state
     \/ Publish(FALSE, TRUE) /\ state' = "failed"
  /\ UNCHANGED <<proc, fresh, adopted, children, Rest>>

(* Mutant: the spawn does not wait.                                        *)
ExitsUnawaited ==
  /\ At("check") /\ retired' = {} /\ Goto("spawn")
  /\ UNCHANGED <<state, proc, fresh, adopted, tree, unread, stuck, Rest>>

(* PendingExits.Wait: no spawn beside what is left of a previous engine, as *)
(* far as it can be read (Unreadable). It waits, is cut short or has waited *)
(* too long (Refused); a cancellation may lose to a sweep that finds        *)
(* nothing left.                                                           *)
ExitsDone ==
  /\ At("check") /\ \A c \in retired : tree[c] = "gone"
  /\ retired' = {} /\ Goto("spawn")
  /\ UNCHANGED <<state, proc, fresh, adopted, tree, unread, stuck, Rest>>

(* The sweep drops a child that TreeAlive cannot answer for, and the start  *)
(* goes on beside it. A child without a tree, which Add skips, is one too.  *)
Unreadable(c) ==
  /\ Event
  /\ At("check") /\ c \in retired /\ tree[c] # "gone"
  /\ retired' = retired \ {c} /\ unread' = unread \cup {c}
  /\ UNCHANGED <<adapter, start, tree, stuck, budget, owners, orphan>>

Forgotten(c) ==
  /\ tree[c] = "gone" /\ c \notin retired \cup watchers \cup seen /\ c # proc
  /\ \A a \in Actor : stop[a].child # c

(* The spawn does not heed a cancelled start.                              *)
Spawn ==
  /\ At("spawn")
  /\ \E c \in Child : Forgotten(c)
  /\ LET c == CHOOSE d \in Child : Forgotten(d) IN
       /\ tree' = [tree EXCEPT ![c] = "up"]
       /\ unread' = unread \ {c}
       /\ lead' = [at |-> "record", child |-> c]
  /\ UNCHANGED <<state, proc, fresh, adopted, ensuring, cancelled, retired, stuck, failures,
                 bounce, Rest>>

SpawnFails ==
  /\ At("spawn") /\ state' = "failed" /\ Publish(FALSE, TRUE)
  /\ UNCHANGED <<proc, fresh, adopted, children, Rest>>

Record ==
  /\ At("record") /\ proc' = lead.child /\ fresh' = lead.child /\ Goto("probe")
  /\ UNCHANGED <<state, adopted, children, Rest>>

(* waitReady: ready; or exited, cancelled or out of time. Whoever answers   *)
(* the port, the child must not have exited.                               *)
ProbeOk ==
  /\ At("probe") /\ PortAnswers /\ Runs(lead.child) /\ ~cancelled
  /\ adopted' = FALSE /\ Goto("up")
  /\ UNCHANGED <<state, proc, fresh, children, Rest>>

(* Mutant: the wait ends only with the child.                              *)
ProbeOutwaits ==
  /\ At("probe") /\ Exited(lead.child) /\ Goto("tearing") /\ Retire(proc)
  /\ UNCHANGED <<state, proc, adopted, tree, unread, stuck, Rest>>

(* The child did not come up and is stopped.                               *)
ProbeFails ==
  /\ At("probe") /\ Goto("tearing") /\ Retire(proc)
  /\ UNCHANGED <<state, proc, adopted, tree, unread, stuck, Rest>>

(* Who answers the port now? One of the pinned version is adopted: an       *)
(* orphan, or a child the system has not let go of.                        *)
Tearing ==
  /\ At("tearing") /\ Stops(proc) /\ proc' = None
  /\ IF PortAnswers /\ ~cancelled
       THEN adopted' = TRUE /\ state' = "ready" /\ Publish(TRUE, FALSE)
       ELSE state' = "failed" /\ Publish(FALSE, TRUE) /\ UNCHANGED adopted
  /\ UNCHANGED <<fresh, children, Rest>>

(* parked is read again: a stop may have landed during the wait.           *)
ParkedMeanwhile ==
  /\ At("up") /\ parked /\ Goto("dropping") /\ Retire(proc)
  /\ UNCHANGED <<state, proc, adopted, tree, unread, stuck, Rest>>

Dropping ==
  /\ At("dropping") /\ Stops(proc) /\ state' = "stopped" /\ Publish(FALSE, FALSE)
  /\ UNCHANGED <<proc, fresh, adopted, children, Rest>>

NotParked ==
  /\ At("up") /\ ~parked /\ Goto("mark")
  /\ UNCHANGED <<state, proc, fresh, adopted, children, Rest>>

Mark ==
  /\ At("mark") /\ state' = "ready" /\ watchers' = watchers \cup {lead.child}
  /\ Publish(TRUE, FALSE)
  /\ UNCHANGED <<parked, giveUp, proc, fresh, adopted, recent, children, seen, deaths, latching,
                 strikes, timers, stop, operator, recover, swapPending, recoverPending, orphan,
                 left>>

Starting == \/ Reap \/ Reaping \/ Refused \/ ExitsDone \/ Spawn \/ SpawnFails \/ Record \/ ProbeOk
            \/ ProbeFails \/ Tearing \/ ParkedMeanwhile \/ Dropping \/ NotParked \/ Mark

(***************************************************************************)
(* Deaths: the supervisor, the engine's own error replies, the budget.     *)
(***************************************************************************)
(* markUnhealthy                                                           *)
MarkUnhealthy ==
  IF parked \/ state # "ready" \/ recent
    THEN UNCHANGED <<state, recent, deaths>>
    ELSE state' = "failed" /\ recent' = TRUE /\ deaths' = deaths + 1

(* superviseChild: a generation that has moved on means the exit is ours.  *)
Notice(c) ==
  /\ c \in watchers /\ Exited(c) /\ watchers' = watchers \ {c}
  /\ seen' = IF fresh = c THEN seen \cup {c} ELSE seen
  /\ UNCHANGED <<adapter, start, children, deaths, failures, latching, strikes, timers,
                 owners, orphan, left>>

Demote(c) ==
  /\ c \in seen /\ seen' = seen \ {c} /\ deaths < MaxPending /\ MarkUnhealthy
  /\ UNCHANGED <<parked, giveUp, proc, fresh, adopted, start, children, watchers, failures,
                 latching, strikes, timers, owners, orphan, left>>

(* ReportUpstreamFailure: a reply says the runner is dead.                 *)
Report ==
  /\ Event
  /\ state = "ready" /\ ~recent /\ ~parked /\ deaths < MaxPending /\ MarkUnhealthy
  /\ adopted \/ \E c \in Child : tree[c] = "serving"
  /\ UNCHANGED <<parked, giveUp, proc, fresh, adopted, start, children, watchers, seen,
                 failures, latching, strikes, timers, owners, orphan>>

Lapse ==
  /\ recent /\ recent' = FALSE
  /\ UNCHANGED <<parked, giveUp, state, proc, fresh, adopted, start, children, budget, owners,
                 orphan, left>>

(* recordEngineStrike: one budget for both shapes of failure, counted anew *)
(* after a stable spell.                                                   *)
Strike ==
  \/ strikes' = (IF strikes > MaxAttempts THEN strikes ELSE strikes + 1) /\ UNCHANGED left
  \/ strikes > 0 /\ strikes' = 1 /\ Event
Ours == ~adopted /\ ~parked \* engineIsWairedsToGiveUpOn

(* Over the budget it is given up, otherwise it is to be recovered.        *)
HandleDeath ==
  /\ deaths > 0 /\ deaths' = deaths - 1 /\ timers < MaxPending /\ latching < MaxPending
  /\ IF ~Ours THEN UNCHANGED <<strikes, latching, timers, left>>
       ELSE /\ Strike
            /\ IF strikes' > MaxAttempts THEN latching' = latching + 1 /\ UNCHANGED timers
                                         ELSE timers' = timers + 1 /\ UNCHANGED latching
  /\ UNCHANGED <<adapter, start, children, watchers, seen, failures, owners, orphan>>

(* A failed start is charged, and its retry is left to the caller.         *)
HandleFailure ==
  /\ failures > 0 /\ failures' = failures - 1 /\ latching < MaxPending
  /\ IF ~Ours THEN UNCHANGED <<strikes, latching, left>>
       ELSE Strike /\ latching' = IF strikes' > MaxAttempts THEN latching + 1 ELSE latching
  /\ UNCHANGED <<adapter, start, children, watchers, seen, deaths, timers, owners, orphan>>

LatchFailed ==
  /\ latching > 0 /\ latching' = latching - 1 /\ giveUp' = TRUE /\ state' = "failed"
  /\ UNCHANGED <<parked, proc, fresh, adopted, recent, start, children, watchers, seen, deaths,
                 failures, strikes, timers, owners, orphan, left>>

(***************************************************************************)
(* Stop, which the reconcile and the operator call.                        *)
(***************************************************************************)
NoStop      == [at |-> "off", child |-> None]
CallStop(a) == stop' = [stop EXCEPT ![a].at = "cancel"]

(* Where its caller goes on: the reconcile keeps an engine it could not    *)
(* stop, unless it is to be recovered; a Park that could not free the      *)
(* memory gives the latch back.                                            *)
Returns(a, ok) ==
  /\ stop' = [stop EXCEPT ![a] = NoStop]
  /\ state' = IF ok THEN "stopped" ELSE "failed"
  /\ IF a = "bounce"
       THEN bounce' = (IF ok \/ recover THEN "ensure" ELSE "exit") /\ UNCHANGED <<operator, parked>>
       ELSE operator' = "idle" /\ parked' = (parked /\ ok) /\ UNCHANGED bounce

(* The start in flight is cancelled before the process is looked for.      *)
StopCancels(a) ==
  /\ stop[a].at = "cancel" /\ cancelled' = ensuring
  /\ stop' = [stop EXCEPT ![a].at = "look"]
  /\ UNCHANGED <<adapter, ensuring, lead, children, budget, operator, bounce, recover,
                 swapPending, recoverPending, orphan, left>>

(* Mutant: a start in flight is left to its cancellation.                  *)
StopTrustsCancel(a) ==
  /\ stop[a].at = "look"
  /\ IF proc = None \/ ensuring
       THEN Returns(a, TRUE) /\ UNCHANGED <<fresh, retired>>
       ELSE /\ Retire(proc) /\ stop' = [stop EXCEPT ![a] = [at |-> "wait", child |-> proc]]
            /\ UNCHANGED <<state, parked, operator, bounce>>
  /\ UNCHANGED <<giveUp, proc, adopted, recent, start, tree, unread, stuck, budget, recover,
                 swapPending, recoverPending, orphan, left>>

StopLooks(a) ==
  /\ stop[a].at = "look"
  /\ IF proc = None
       THEN Returns(a, TRUE) /\ UNCHANGED <<fresh, retired>>
       ELSE /\ Retire(proc) /\ stop' = [stop EXCEPT ![a] = [at |-> "wait", child |-> proc]]
            /\ UNCHANGED <<state, parked, operator, bounce>>
  /\ UNCHANGED <<giveUp, proc, adopted, recent, start, tree, unread, stuck, budget, recover,
                 swapPending, recoverPending, orphan, left>>

StopEnds(a) ==
  /\ stop[a].at = "wait" /\ Stops(stop[a].child) /\ Returns(a, Exited(stop[a].child))
  /\ UNCHANGED <<giveUp, proc, fresh, adopted, recent, start, children, budget, recover,
                 swapPending, recoverPending, orphan, left>>

Stopping(a) == StopCancels(a) \/ StopLooks(a) \/ StopEnds(a)

(***************************************************************************)
(* The operator's stop (Park) and start, one command at a time.            *)
(***************************************************************************)
(* The latch first, then the stop. An adopted engine is not waired's.      *)
Park ==
  /\ Event
  /\ operator = "idle" /\ ~adopted /\ parked' = TRUE /\ operator' = "park" /\ CallStop("operator")
  /\ UNCHANGED <<giveUp, state, proc, fresh, adopted, recent, start, children, budget, bounce,
                 recover, swapPending, recoverPending, orphan>>

(* StartEngine: Unpark, ClearFailure, resetEngineStrikes, then Ensure.     *)
Unpark ==
  /\ Event
  /\ operator = "idle" /\ parked' = FALSE /\ operator' = "clear"
  /\ UNCHANGED <<giveUp, state, proc, fresh, adopted, recent, start, children, budget, stop,
                 bounce, recover, swapPending, recoverPending, orphan>>

ClearFailure ==
  /\ operator = "clear" /\ giveUp' = FALSE /\ recent' = FALSE /\ operator' = "reset"
  /\ UNCHANGED <<parked, state, proc, fresh, adopted, start, children, budget, stop, bounce,
                 recover, swapPending, recoverPending, orphan, left>>

ResetStrikes ==
  /\ operator = "reset" /\ strikes' = 0 /\ operator' = "idle"
  /\ UNCHANGED <<adapter, start, children, watchers, seen, deaths, failures, latching, timers,
                 stop, bounce, recover, swapPending, recoverPending, orphan, left>>

(***************************************************************************)
(* reconcileEngineServe: one at a time, asked for by a flag and a kick.    *)
(***************************************************************************)
(* requestEngineReconcile's compare-and-swap: one under way is trusted to  *)
(* see the flag.                                                           *)
Kick == bounce' = IF bounce = "idle" THEN "take" ELSE bounce

(* A switch of model.                                                      *)
Switch ==
  /\ Event
  /\ swapPending' = TRUE /\ Kick
  /\ UNCHANGED <<adapter, start, children, budget, stop, operator, recover, recoverPending, orphan>>

(* The serve settings have changed.                                        *)
Retune ==
  /\ Event
  /\ bounce = "idle" /\ Kick
  /\ UNCHANGED <<adapter, start, children, budget, stop, operator, recover, swapPending,
                 recoverPending, orphan>>

(* A delayed recovery falls due.                                           *)
Recover ==
  /\ timers > 0 /\ timers' = timers - 1 /\ recoverPending' = TRUE /\ Kick
  /\ UNCHANGED <<adapter, start, children, watchers, seen, deaths, failures, latching, strikes,
                 stop, operator, recover, swapPending, orphan, left>>

Take ==
  /\ bounce = "take" /\ bounce' = "decide" /\ recover' = recoverPending
  /\ swapPending' = FALSE /\ recoverPending' = FALSE
  /\ UNCHANGED <<adapter, start, children, budget, stop, operator, orphan, left>>

(* Nothing moved or no target: it returns. A parked engine is not bounced, *)
(* one that is not ready only to recover it.                               *)
Decide ==
  /\ bounce = "decide"
  /\ \/ bounce' = "exit" /\ UNCHANGED stop
     \/ ~parked /\ (recover \/ state = "ready") /\ bounce' = "stop" /\ CallStop("bounce")
  /\ UNCHANGED <<adapter, start, children, budget, operator, recover, swapPending,
                 recoverPending, orphan, left>>

(* Its EnsureRunning: refused, ready, joined or led.                       *)
BounceEnsures ==
  /\ bounce = "ensure"
  /\ \/ /\ parked \/ giveUp \/ state = "ready" \/ ensuring
        /\ bounce' = IF parked \/ giveUp THEN "exit" ELSE IF state = "ready" THEN "verify" ELSE "join"
        /\ UNCHANGED <<adapter, start>>
     \/ /\ MayLead /\ Lead /\ bounce' = "join"
        /\ UNCHANGED <<parked, giveUp, proc, adopted, recent>>
  /\ UNCHANGED <<children, budget, stop, operator, recover, swapPending, recoverPending, orphan,
                 left>>

(* finalizeOllamaServeTuning has loaded the model; the loop goes round for *)
(* a newer switch, and for nothing else.                                   *)
Verified ==
  /\ bounce = "verify" /\ bounce' = IF swapPending THEN "take" ELSE "exit"
  /\ UNCHANGED <<adapter, start, children, budget, stop, operator, recover, swapPending,
                 recoverPending, orphan, left>>

Return ==
  /\ bounce = "exit" /\ bounce' = "idle" /\ recover' = FALSE
  /\ UNCHANGED <<adapter, start, children, budget, stop, operator, swapPending, recoverPending,
                 orphan, left>>

Reconcile == Take \/ Decide \/ BounceEnsures \/ Verified \/ Return

Next ==
  \/ Starting \/ Ensure \/ Reconcile \/ Switch \/ Retune \/ Recover
  \/ Park \/ Unpark \/ ClearFailure \/ ResetStrikes
  \/ Report \/ Lapse \/ HandleDeath \/ HandleFailure \/ LatchFailed
  \/ \E a \in Actor : Stopping(a)
  \/ \E c \in Child : Notice(c) \/ Demote(c) \/ Answers(c) \/ Exits(c) \/ RunnersExit(c) \/ Jams(c)
                         \/ Unreadable(c)

Spec == Init /\ [][Next]_vars

(***************************************************************************)
(* Every goroutine of the agent runs on; a child that was told to stop     *)
(* exits or is given up on. The operator, requests, model switches, deaths *)
(* and the readiness of a child are not owed.                              *)
(***************************************************************************)
Handling == \/ HandleDeath \/ HandleFailure \/ LatchFailed \/ Recover \/ ClearFailure \/ ResetStrikes
            \/ \E c \in Child : Notice(c) \/ Demote(c)
Ending   == \/ \E c \in Child \ unread : RunnersExit(c)
            \/ \E c \in retired \ stuck : Exits(c)

Fairness ==
  /\ WF_vars(Starting) /\ WF_vars(Reconcile) /\ WF_vars(Handling) /\ WF_vars(Ending)
  /\ \A a \in Actor : WF_vars(Stopping(a))

FairSpec == Spec /\ Fairness

(***************************************************************************)
(* Properties                                                              *)
(***************************************************************************)
(* No two engines hold the computer's memory: as long as anything of a     *)
(* child's tree runs, no other child is spawned, unless a sweep could not  *)
(* read that very tree and dropped it, whatever became of the others.      *)
OneEngine ==
  /\ TypeOK
  /\ Cardinality({c \in Child \ unread : tree[c] # "gone"}) <= 1

(* A stop by the operator holds against a start under way: once neither is *)
(* running any more, a parked engine has no child left, but for one the    *)
(* system would not let go.                                                *)
ParkedIsFree ==
  parked /\ ~ensuring /\ operator = "idle" => \A c \in Child : Runs(c) => c \in stuck

(* Only an engine that ended by itself is held to have crashed: a bounce,  *)
(* a park and the reap of a failed start are never charged as a death.     *)
NoFalseCrash == [][\A c \in Child : c \in seen' \ seen => c \notin Told]_vars

(* Everybody who joins a start is answered, whatever becomes of it.        *)
StartsEnd == ensuring ~> ~ensuring

=============================================================================
