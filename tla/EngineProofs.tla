------------------------------ MODULE EngineProofs ------------------------------
(***************************************************************************)
(* Proofs about the engine and about the model it serves.                  *)
(*                                                                         *)
(* EngineControl: the engine alone on the computer but for what the agent  *)
(* could not read, the operator's stop that holds, and no stop of the      *)
(* agent's own taken for a crash. The inductive invariant says whose every *)
(* child is. A child with anything left of it is the adapter's, the one    *)
(* the start is about to record, or one recorded for the next spawn to     *)
(* wait for, unless its tree could not be read (Owned); the start holds    *)
(* the adapter's child from its record to its end (Leads); a child that    *)
(* still runs is nobody's only when the system would not let go of it      *)
(* (Held); and while the latch is on, a running child has the operator's   *)
(* stop before it, is the one that stop waits for, or belongs to a start   *)
(* that has yet to read the latch (ParkHolds).                             *)
(*                                                                         *)
(* ModelSwitch, in the second half: a download that runs is shown, what a  *)
(* download defers is asked, the choice made last is in force (InForce)    *)
(* and served or asked for (OnTheWay) unless it was hindered, and only a   *)
(* deletion takes a ready model's record.                                  *)
(***************************************************************************)
EXTENDS EngineControl, ModelSwitch, FiniteSetTheorems, TLAPS

LeadPoints == {"off", "reap", "reaping", "check", "spawn", "record", "probe", "tearing", "up",
           "dropping", "mark"}
TreeStates  == {"gone", "up", "serving", "runners"}
StopStates == [at : {"off", "cancel", "look", "wait"}, child : Child \cup {None}]

(* TypeOK, a kind of value at a time. *)
Flags ==
  /\ parked \in BOOLEAN /\ giveUp \in BOOLEAN /\ adopted \in BOOLEAN /\ recent \in BOOLEAN
  /\ ensuring \in BOOLEAN /\ cancelled \in BOOLEAN /\ recover \in BOOLEAN
  /\ swapPending \in BOOLEAN /\ recoverPending \in BOOLEAN /\ orphan \in BOOLEAN

Counters ==
  /\ deaths \in 0..MaxPending /\ failures \in 0..MaxPending /\ latching \in 0..MaxPending
  /\ timers \in 0..MaxPending /\ strikes \in 0..MaxAttempts + 1 /\ left \in 0..MaxEvents

Places ==
  /\ state \in {"stopped", "starting", "ready", "failed"}
  /\ operator \in {"idle", "park", "clear", "reset"}
  /\ bounce \in {"idle", "take", "decide", "stop", "ensure", "join", "verify", "exit"}

Kids ==
  /\ proc \in Child \cup {None} /\ fresh \in Child \cup {None}
  /\ retired \subseteq Child /\ unread \subseteq Child /\ stuck \subseteq Child
  /\ watchers \subseteq Child /\ seen \subseteq Child

LeadTyped == lead \in [at : LeadPoints, child : Child \cup {None}]
TreeTyped == tree \in [Child -> TreeStates]
StopTyped == stop \in [Actor -> StopStates]

Types == Flags /\ Counters /\ Places /\ Kids /\ LeadTyped /\ TreeTyped /\ StopTyped

(* A child with anything left of it is the adapter's, about to be, waited   *)
(* for by the next spawn or given up as unreadable; and but for those there *)
(* is only one.                                                            *)
Owned ==
  /\ \A c \in Child : tree[c] # "gone" =>
       c \in Told \/ c = proc \/ (At("record") /\ c = lead.child)
  /\ At("spawn") => retired = {} /\ \A c \in Child \ unread : tree[c] = "gone"
  /\ \A c, d \in Child \ unread : tree[c] # "gone" /\ tree[d] # "gone" => c = d

(* The start, and the child it holds. *)
Leads ==
  /\ At("off") <=> ~ensuring
  /\ lead.at \in {"check", "spawn", "record"} => proc = None
  /\ lead.at \in {"reaping", "tearing"} => proc \in retired \cup {None}
  /\ lead.at \in {"probe", "tearing", "up", "dropping", "mark"} => proc = lead.child
  /\ lead.at \in {"record", "probe", "tearing", "up", "dropping", "mark"} => lead.child \in Child
  /\ At("record") => lead.child \notin Told
  /\ fresh \notin Told

(* A child that runs on is still held, or the system does not let go of it. *)
Held ==
  \A c \in Child : Runs(c) => c \in stuck \/ c = proc \/ (At("record") /\ c = lead.child)

(* Under the latch a running child is about to be stopped: by the stop of   *)
(* the operator or by its own start, which has yet to read the latch.      *)
ParkHolds ==
  \A c \in Child : parked /\ Runs(c) /\ c \notin stuck =>
    \/ operator = "park" /\ stop["operator"].at \in {"cancel", "look"}
    \/ operator = "park" /\ stop["operator"].at = "wait" /\ stop["operator"].child = c
    \/ lead.at \notin {"off", "mark"}

IInv == Types /\ Owned /\ Leads /\ Held /\ ParkHolds

-----------------------------------------------------------------------------
(* Every step keeps the types. *)

(* The latches and the marks. *)
LEMMA FlagsKept == ASSUME Types, [Next]_vars PROVE Flags'
<1>1. EngineAssumption
  BY EngineAssumption
<1>2. CASE Starting
  <2>1. CASE Reap
    BY <1>1, <2>1 DEF Reap, Retire, At, Goto, Rest, vars, adapter, start,
       children, budget, owners, EngineAssumption, Types, Flags
  <2>2. CASE Reaping
    BY <1>1, <2>2 DEF Reaping, At, Goto, Rest, Stops, Exited, Runs, vars,
       adapter, start, children, budget, owners, EngineAssumption, Types,
       Flags
  <2>3. CASE Refused
    BY <1>1, <2>3 DEF Refused, At, Publish, Rest, vars, adapter, start,
       children, budget, owners, EngineAssumption, Types, Flags
  <2>4. CASE ExitsDone
    BY <1>1, <2>4 DEF ExitsDone, At, Goto, Rest, vars, adapter, start,
       children, budget, owners, EngineAssumption, Types, Flags
  <2>5. CASE Spawn
    BY <1>1, <2>5 DEF Spawn, At, Rest, Forgotten, vars, adapter, start,
       children, budget, owners, EngineAssumption, Types, Flags
  <2>6. CASE SpawnFails
    BY <1>1, <2>6 DEF SpawnFails, At, Publish, Rest, vars, adapter, start,
       children, budget, owners, EngineAssumption, Types, Flags
  <2>7. CASE Record
    BY <1>1, <2>7 DEF Record, At, Goto, Rest, vars, adapter, start, children,
       budget, owners, EngineAssumption, Types, Flags
  <2>8. CASE ProbeOk
    BY <1>1, <2>8 DEF ProbeOk, At, Goto, Rest, vars, adapter, start, children,
       budget, owners, EngineAssumption, Types, Flags
  <2>9. CASE ProbeFails
    BY <1>1, <2>9 DEF ProbeFails, Retire, At, Goto, Rest, vars, adapter,
       start, children, budget, owners, EngineAssumption, Types, Flags
  <2>10. CASE Tearing
    BY <1>1, <2>10 DEF Tearing, At, Publish, Rest, Stops, Exited, Runs, vars,
       adapter, start, children, budget, owners, EngineAssumption, Types,
       Flags
  <2>11. CASE ParkedMeanwhile
    BY <1>1, <2>11 DEF ParkedMeanwhile, Retire, At, Goto, Rest, vars, adapter,
       start, children, budget, owners, EngineAssumption, Types, Flags
  <2>12. CASE Dropping
    BY <1>1, <2>12 DEF Dropping, At, Publish, Rest, Stops, Exited, Runs, vars,
       adapter, start, children, budget, owners, EngineAssumption, Types,
       Flags
  <2>13. CASE NotParked
    BY <1>1, <2>13 DEF NotParked, At, Goto, Rest, vars, adapter, start,
       children, budget, owners, EngineAssumption, Types, Flags
  <2>14. CASE Mark
    BY <1>1, <2>14 DEF Mark, At, Publish, vars, adapter, start, children,
       budget, owners, EngineAssumption, Types, Flags
  <2> QED
    BY <1>2, <2>1, <2>2, <2>3, <2>4, <2>5, <2>6, <2>7, <2>8, <2>9,
       <2>10, <2>11, <2>12, <2>13, <2>14 DEF Starting
<1>3. CASE Ensure \/ Reconcile
  <2>1. CASE Ensure
    BY <1>1, <2>1 DEF Ensure, Event, MayLead, Lead, vars, adapter, start,
       children, budget, owners, EngineAssumption, Types, Flags
  <2>2. CASE Take
    BY <1>1, <2>2 DEF Take, vars, adapter, start, children, budget, owners,
       EngineAssumption, Types, Flags
  <2>3. CASE Decide
    BY <1>1, <2>3 DEF Decide, CallStop, vars, adapter, start, children,
       budget, owners, EngineAssumption, Types, Flags
  <2>4. CASE BounceEnsures
    BY <1>1, <2>4 DEF BounceEnsures, MayLead, Lead, vars, adapter, start,
       children, budget, owners, EngineAssumption, Types, Flags
  <2>5. CASE Verified
    BY <1>1, <2>5 DEF Verified, vars, adapter, start, children, budget,
       owners, EngineAssumption, Types, Flags
  <2>6. CASE Return
    BY <1>1, <2>6 DEF Return, vars, adapter, start, children, budget, owners,
       EngineAssumption, Types, Flags
  <2> QED
    BY <1>3, <2>1, <2>2, <2>3, <2>4, <2>5, <2>6 DEF Reconcile
<1>4. CASE Switch \/ Retune \/ Recover \/ Park \/ Unpark \/ ClearFailure \/ ResetStrikes
  <2>1. CASE Switch
    BY <1>1, <2>1 DEF Switch, Event, Kick, vars, adapter, start, children,
       budget, owners, EngineAssumption, Types, Flags
  <2>2. CASE Retune
    BY <1>1, <2>2 DEF Retune, Event, Kick, vars, adapter, start, children,
       budget, owners, EngineAssumption, Types, Flags
  <2>3. CASE Recover
    BY <1>1, <2>3 DEF Recover, Kick, vars, adapter, start, children, budget,
       owners, EngineAssumption, Types, Flags
  <2>4. CASE Park
    BY <1>1, <2>4 DEF Park, Event, CallStop, vars, adapter, start, children,
       budget, owners, EngineAssumption, Types, Flags
  <2>5. CASE Unpark
    BY <1>1, <2>5 DEF Unpark, Event, vars, adapter, start, children, budget,
       owners, EngineAssumption, Types, Flags
  <2>6. CASE ClearFailure
    BY <1>1, <2>6 DEF ClearFailure, vars, adapter, start, children, budget,
       owners, EngineAssumption, Types, Flags
  <2>7. CASE ResetStrikes
    BY <1>1, <2>7 DEF ResetStrikes, vars, adapter, start, children, budget,
       owners, EngineAssumption, Types, Flags
  <2> QED
    BY <1>4, <2>1, <2>2, <2>3, <2>4, <2>5, <2>6, <2>7
<1>5. CASE Report \/ Lapse \/ HandleDeath \/ HandleFailure \/ LatchFailed
  <2>1. CASE Report
    BY <1>1, <2>1 DEF Report, Event, MarkUnhealthy, vars, adapter, start,
       children, budget, owners, EngineAssumption, Types, Flags
  <2>2. CASE Lapse
    BY <1>1, <2>2 DEF Lapse, vars, adapter, start, children, budget, owners,
       EngineAssumption, Types, Flags
  <2>3. CASE HandleDeath
    BY <1>1, <2>3 DEF HandleDeath, Strike, Ours, Event, vars, adapter, start,
       children, budget, owners, EngineAssumption, Types, Flags
  <2>4. CASE HandleFailure
    BY <1>1, <2>4 DEF HandleFailure, Strike, Ours, Event, vars, adapter,
       start, children, budget, owners, EngineAssumption, Types, Flags
  <2>5. CASE LatchFailed
    BY <1>1, <2>5 DEF LatchFailed, vars, adapter, start, children, budget,
       owners, EngineAssumption, Types, Flags
  <2> QED
    BY <1>5, <2>1, <2>2, <2>3, <2>4, <2>5
<1>6. ASSUME NEW a \in Actor, Stopping(a) PROVE Flags'
  <2>1. CASE StopCancels(a)
    BY <1>1, <2>1 DEF StopCancels, vars, adapter, start, children, budget,
       owners, EngineAssumption, Types, Flags
  <2>2. CASE StopLooks(a)
    BY <1>1, <2>2 DEF StopLooks, Retire, Returns, NoStop, vars, adapter,
       start, children, budget, owners, EngineAssumption, Types, Flags
  <2>3. CASE StopEnds(a)
    BY <1>1, <2>3 DEF StopEnds, Exited, Stops, Returns, NoStop, Runs, vars,
       adapter, start, children, budget, owners, EngineAssumption, Types,
       Flags
  <2> QED
    BY <1>6, <2>1, <2>2, <2>3 DEF Stopping
<1>7. ASSUME NEW c \in Child, Notice(c) \/ Demote(c) \/ Answers(c)
            \/ Exits(c) \/ RunnersExit(c) \/ Jams(c) \/ Unreadable(c)
      PROVE  Flags'
  <2>1. CASE Notice(c)
    BY <1>1, <2>1 DEF Notice, Exited, Runs, vars, adapter, start, children,
       budget, owners, EngineAssumption, Types, Flags
  <2>2. CASE Demote(c)
    BY <1>1, <2>2 DEF Demote, MarkUnhealthy, vars, adapter, start, children,
       budget, owners, EngineAssumption, Types, Flags
  <2>3. CASE Answers(c)
    BY <1>1, <2>3 DEF Answers, vars, adapter, start, children, budget, owners,
       EngineAssumption, Types, Flags
  <2>4. CASE Exits(c)
    BY <1>1, <2>4 DEF Exits, Event, Runs, vars, adapter, start, children,
       budget, owners, EngineAssumption, Types, Flags
  <2>5. CASE RunnersExit(c)
    BY <1>1, <2>5 DEF RunnersExit, vars, adapter, start, children, budget,
       owners, EngineAssumption, Types, Flags
  <2>6. CASE Jams(c)
    BY <1>1, <2>6 DEF Jams, Event, Runs, vars, adapter, start, children,
       budget, owners, EngineAssumption, Types, Flags
  <2>7. CASE Unreadable(c)
    BY <1>1, <2>7 DEF Unreadable, Event, vars, adapter, start, children,
       budget, owners, EngineAssumption, Types, Flags
  <2> QED
    BY <1>7, <2>1, <2>2, <2>3, <2>4, <2>5, <2>6, <2>7
<1>8. CASE UNCHANGED vars
  BY <1>8 DEF vars, adapter, start, children, budget, owners, Types, Flags
<1> QED
  BY <1>2, <1>3, <1>4, <1>5, <1>6, <1>7, <1>8 DEF Next

(* What is counted stays within its bounds. *)
LEMMA CountersKept == ASSUME Types, [Next]_vars PROVE Counters'
<1>1. EngineAssumption
  BY EngineAssumption
<1>2. CASE Starting
  BY <1>1, <1>2 DEF Reap, Reaping, Refused, ExitsDone, Spawn, SpawnFails,
       Record, ProbeOk, ProbeFails, Tearing, ParkedMeanwhile, Dropping,
       NotParked, Mark, Retire, At, Goto, Rest, Stops, Exited, Runs, Publish,
       Forgotten, vars, adapter, start, children, budget, owners, Starting,
       EngineAssumption, Types, Counters
<1>3. CASE Ensure \/ Reconcile
  BY <1>1, <1>3 DEF Ensure, Take, Decide, BounceEnsures, Verified, Return,
       Event, MayLead, Lead, CallStop, vars, adapter, start, children, budget,
       owners, Reconcile, EngineAssumption, Types, Counters
<1>4. CASE Switch \/ Retune \/ Recover \/ Park \/ Unpark \/ ClearFailure \/ ResetStrikes
  BY <1>1, <1>4 DEF Switch, Retune, Recover, Park, Unpark, ClearFailure,
       ResetStrikes, Event, Kick, CallStop, vars, adapter, start, children,
       budget, owners, EngineAssumption, Types, Counters
<1>5. CASE Report \/ Lapse \/ HandleDeath \/ HandleFailure \/ LatchFailed
  BY <1>1, <1>5 DEF Report, Lapse, HandleDeath, HandleFailure, LatchFailed,
       Event, MarkUnhealthy, Strike, Ours, vars, adapter, start, children,
       budget, owners, EngineAssumption, Types, Counters
<1>6. ASSUME NEW a \in Actor, Stopping(a) PROVE Counters'
  BY <1>1, <1>6 DEF StopCancels, StopLooks, StopEnds, Retire, Returns, NoStop,
       Exited, Stops, Runs, vars, adapter, start, children, budget, owners,
       Stopping, EngineAssumption, Types, Counters
<1>7. ASSUME NEW c \in Child, Notice(c) \/ Demote(c) \/ Answers(c)
            \/ Exits(c) \/ RunnersExit(c) \/ Jams(c) \/ Unreadable(c)
      PROVE  Counters'
  BY <1>1, <1>7 DEF Notice, Demote, Answers, Exits, RunnersExit, Jams, Unreadable, Exited,
       Runs, MarkUnhealthy, Event, vars, adapter, start, children, budget,
       owners, EngineAssumption, Types, Counters
<1>8. CASE UNCHANGED vars
  BY <1>8 DEF vars, adapter, start, children, budget, owners, Types, Counters
<1> QED
  BY <1>2, <1>3, <1>4, <1>5, <1>6, <1>7, <1>8 DEF Next

(* Where each actor is. *)
LEMMA PlacesKept == ASSUME Types, [Next]_vars PROVE Places'
<1>1. EngineAssumption
  BY EngineAssumption
<1>2. CASE Starting
  BY <1>1, <1>2 DEF Reap, Reaping, Refused, ExitsDone, Spawn, SpawnFails,
       Record, ProbeOk, ProbeFails, Tearing, ParkedMeanwhile, Dropping,
       NotParked, Mark, Retire, At, Goto, Rest, Stops, Exited, Runs, Publish,
       Forgotten, vars, adapter, start, children, budget, owners, Starting,
       EngineAssumption, Types, Places
<1>3. CASE Ensure \/ Reconcile
  BY <1>1, <1>3 DEF Ensure, Take, Decide, BounceEnsures, Verified, Return,
       Event, MayLead, Lead, CallStop, vars, adapter, start, children, budget,
       owners, Reconcile, EngineAssumption, Types, Places
<1>4. CASE Switch \/ Retune \/ Recover \/ Park \/ Unpark \/ ClearFailure \/ ResetStrikes
  BY <1>1, <1>4 DEF Switch, Retune, Recover, Park, Unpark, ClearFailure,
       ResetStrikes, Event, Kick, CallStop, vars, adapter, start, children,
       budget, owners, EngineAssumption, Types, Places
<1>5. CASE Report \/ Lapse \/ HandleDeath \/ HandleFailure \/ LatchFailed
  BY <1>1, <1>5 DEF Report, Lapse, HandleDeath, HandleFailure, LatchFailed,
       Event, MarkUnhealthy, Strike, Ours, vars, adapter, start, children,
       budget, owners, EngineAssumption, Types, Places
<1>6. ASSUME NEW a \in Actor, Stopping(a) PROVE Places'
  BY <1>1, <1>6 DEF StopCancels, StopLooks, StopEnds, Retire, Returns, NoStop,
       Exited, Stops, Runs, vars, adapter, start, children, budget, owners,
       Stopping, EngineAssumption, Types, Places
<1>7. ASSUME NEW c \in Child, Notice(c) \/ Demote(c) \/ Answers(c)
            \/ Exits(c) \/ RunnersExit(c) \/ Jams(c) \/ Unreadable(c)
      PROVE  Places'
  BY <1>1, <1>7 DEF Notice, Demote, Answers, Exits, RunnersExit, Jams, Unreadable, Exited,
       Runs, MarkUnhealthy, Event, vars, adapter, start, children, budget,
       owners, EngineAssumption, Types, Places
<1>8. CASE UNCHANGED vars
  BY <1>8 DEF vars, adapter, start, children, budget, owners, Types, Places
<1> QED
  BY <1>2, <1>3, <1>4, <1>5, <1>6, <1>7, <1>8 DEF Next

(* The sets of children; a start that is through has one. *)
LEMMA KidsKept == ASSUME Types, Leads, [Next]_vars PROVE Kids'
<1>1. EngineAssumption
  BY EngineAssumption
<1>2. CASE Starting
  <2>1. CASE Reap
    BY <1>1, <2>1 DEF Reap, Retire, At, Goto, Rest, vars, adapter, start,
       children, budget, owners, EngineAssumption, Types, Kids, LeadTyped,
       Leads
  <2>2. CASE Reaping
    BY <1>1, <2>2 DEF Reaping, At, Goto, Rest, Stops, Exited, Runs, vars,
       adapter, start, children, budget, owners, EngineAssumption, Types,
       Kids, LeadTyped, Leads
  <2>3. CASE Refused
    BY <1>1, <2>3 DEF Refused, At, Publish, Rest, vars, adapter, start,
       children, budget, owners, EngineAssumption, Types, Kids, LeadTyped,
       Leads
  <2>4. CASE ExitsDone
    BY <1>1, <2>4 DEF ExitsDone, At, Goto, Rest, vars, adapter, start,
       children, budget, owners, EngineAssumption, Types, Kids, LeadTyped,
       Leads
  <2>5. CASE Spawn
    BY <1>1, <2>5 DEF Spawn, At, Rest, Forgotten, vars, adapter, start,
       children, budget, owners, EngineAssumption, Types, Kids, LeadTyped,
       Leads
  <2>6. CASE SpawnFails
    BY <1>1, <2>6 DEF SpawnFails, At, Publish, Rest, vars, adapter, start,
       children, budget, owners, EngineAssumption, Types, Kids, LeadTyped,
       Leads
  <2>7. CASE Record
    BY <1>1, <2>7 DEF Record, At, Goto, Rest, vars, adapter, start, children,
       budget, owners, EngineAssumption, Types, Kids, LeadTyped, Leads
  <2>8. CASE ProbeOk
    BY <1>1, <2>8 DEF ProbeOk, At, Goto, Rest, vars, adapter, start, children,
       budget, owners, EngineAssumption, Types, Kids, LeadTyped, Leads
  <2>9. CASE ProbeFails
    BY <1>1, <2>9 DEF ProbeFails, Retire, At, Goto, Rest, vars, adapter,
       start, children, budget, owners, EngineAssumption, Types, Kids,
       LeadTyped, Leads
  <2>10. CASE Tearing
    BY <1>1, <2>10 DEF Tearing, At, Publish, Rest, Stops, Exited, Runs, vars,
       adapter, start, children, budget, owners, EngineAssumption, Types,
       Kids, LeadTyped, Leads
  <2>11. CASE ParkedMeanwhile
    BY <1>1, <2>11 DEF ParkedMeanwhile, Retire, At, Goto, Rest, vars, adapter,
       start, children, budget, owners, EngineAssumption, Types, Kids,
       LeadTyped, Leads
  <2>12. CASE Dropping
    BY <1>1, <2>12 DEF Dropping, At, Publish, Rest, Stops, Exited, Runs, vars,
       adapter, start, children, budget, owners, EngineAssumption, Types,
       Kids, LeadTyped, Leads
  <2>13. CASE NotParked
    BY <1>1, <2>13 DEF NotParked, At, Goto, Rest, vars, adapter, start,
       children, budget, owners, EngineAssumption, Types, Kids, LeadTyped,
       Leads
  <2>14. CASE Mark
    BY <1>1, <2>14 DEF Mark, At, Publish, vars, adapter, start, children,
       budget, owners, EngineAssumption, Types, Kids, LeadTyped, Leads
  <2> QED
    BY <1>2, <2>1, <2>2, <2>3, <2>4, <2>5, <2>6, <2>7, <2>8, <2>9,
       <2>10, <2>11, <2>12, <2>13, <2>14 DEF Starting
<1>3. CASE Ensure \/ Reconcile
  BY <1>1, <1>3 DEF Ensure, Take, Decide, BounceEnsures, Verified, Return,
       Event, MayLead, Lead, CallStop, vars, adapter, start, children, budget,
       owners, Reconcile, EngineAssumption, Types, Kids, LeadTyped, Leads
<1>4. CASE Switch \/ Retune \/ Recover \/ Park \/ Unpark \/ ClearFailure \/ ResetStrikes
  BY <1>1, <1>4 DEF Switch, Retune, Recover, Park, Unpark, ClearFailure,
       ResetStrikes, Event, Kick, CallStop, vars, adapter, start, children,
       budget, owners, EngineAssumption, Types, Kids, LeadTyped, Leads
<1>5. CASE Report \/ Lapse \/ HandleDeath \/ HandleFailure \/ LatchFailed
  BY <1>1, <1>5 DEF Report, Lapse, HandleDeath, HandleFailure, LatchFailed,
       Event, MarkUnhealthy, Strike, Ours, vars, adapter, start, children,
       budget, owners, EngineAssumption, Types, Kids, LeadTyped, Leads
<1>6. ASSUME NEW a \in Actor, Stopping(a) PROVE Kids'
  BY <1>1, <1>6 DEF StopCancels, StopLooks, StopEnds, Retire, Returns, NoStop,
       Exited, Stops, Runs, vars, adapter, start, children, budget, owners,
       Stopping, EngineAssumption, Types, Kids, LeadTyped, Leads
<1>7. ASSUME NEW c \in Child, Notice(c) \/ Demote(c) \/ Answers(c)
            \/ Exits(c) \/ RunnersExit(c) \/ Jams(c) \/ Unreadable(c)
      PROVE  Kids'
  BY <1>1, <1>7 DEF Notice, Demote, Answers, Exits, RunnersExit, Jams, Unreadable, Exited,
       Runs, MarkUnhealthy, Event, vars, adapter, start, children, budget,
       owners, EngineAssumption, Types, Kids, LeadTyped, Leads
<1>8. CASE UNCHANGED vars
  BY <1>8 DEF vars, adapter, start, children, budget, owners, Types, Kids,
       LeadTyped, Leads
<1> QED
  BY <1>2, <1>3, <1>4, <1>5, <1>6, <1>7, <1>8 DEF Next

(* The start and its child. *)
LEMMA LeadTypedKept == ASSUME Types, [Next]_vars PROVE LeadTyped'
<1>1. EngineAssumption
  BY EngineAssumption
<1>2. CASE Starting
  BY <1>1, <1>2 DEF Reap, Reaping, Refused, ExitsDone, Spawn, SpawnFails,
       Record, ProbeOk, ProbeFails, Tearing, ParkedMeanwhile, Dropping,
       NotParked, Mark, Retire, At, Goto, Rest, Stops, Exited, Runs, Publish,
       Forgotten, vars, adapter, start, children, budget, owners, Starting,
       EngineAssumption, Types, LeadTyped, Kids, LeadPoints
<1>3. CASE Ensure \/ Reconcile
  BY <1>1, <1>3 DEF Ensure, Take, Decide, BounceEnsures, Verified, Return,
       Event, MayLead, Lead, CallStop, vars, adapter, start, children, budget,
       owners, Reconcile, EngineAssumption, Types, LeadTyped, Kids, LeadPoints
<1>4. CASE Switch \/ Retune \/ Recover \/ Park \/ Unpark \/ ClearFailure \/ ResetStrikes
  BY <1>1, <1>4 DEF Switch, Retune, Recover, Park, Unpark, ClearFailure,
       ResetStrikes, Event, Kick, CallStop, vars, adapter, start, children,
       budget, owners, EngineAssumption, Types, LeadTyped, Kids, LeadPoints
<1>5. CASE Report \/ Lapse \/ HandleDeath \/ HandleFailure \/ LatchFailed
  BY <1>1, <1>5 DEF Report, Lapse, HandleDeath, HandleFailure, LatchFailed,
       Event, MarkUnhealthy, Strike, Ours, vars, adapter, start, children,
       budget, owners, EngineAssumption, Types, LeadTyped, Kids, LeadPoints
<1>6. ASSUME NEW a \in Actor, Stopping(a) PROVE LeadTyped'
  BY <1>1, <1>6 DEF StopCancels, StopLooks, StopEnds, Retire, Returns, NoStop,
       Exited, Stops, Runs, vars, adapter, start, children, budget, owners,
       Stopping, EngineAssumption, Types, LeadTyped, Kids, LeadPoints
<1>7. ASSUME NEW c \in Child, Notice(c) \/ Demote(c) \/ Answers(c)
            \/ Exits(c) \/ RunnersExit(c) \/ Jams(c) \/ Unreadable(c)
      PROVE  LeadTyped'
  BY <1>1, <1>7 DEF Notice, Demote, Answers, Exits, RunnersExit, Jams, Unreadable, Exited,
       Runs, MarkUnhealthy, Event, vars, adapter, start, children, budget,
       owners, EngineAssumption, Types, LeadTyped, Kids, LeadPoints
<1>8. CASE UNCHANGED vars
  BY <1>8 DEF vars, adapter, start, children, budget, owners, Types,
       LeadTyped, Kids, LeadPoints
<1> QED
  BY <1>2, <1>3, <1>4, <1>5, <1>6, <1>7, <1>8 DEF Next

(* The process trees. *)
LEMMA TreeTypedKept == ASSUME Types, [Next]_vars PROVE TreeTyped'
<1>1. EngineAssumption
  BY EngineAssumption
<1>2. CASE Starting
  BY <1>1, <1>2 DEF Reap, Reaping, Refused, ExitsDone, Spawn, SpawnFails,
       Record, ProbeOk, ProbeFails, Tearing, ParkedMeanwhile, Dropping,
       NotParked, Mark, Retire, At, Goto, Rest, Stops, Exited, Runs, Publish,
       Forgotten, vars, adapter, start, children, budget, owners, Starting,
       EngineAssumption, Types, TreeTyped, TreeStates
<1>3. CASE Ensure \/ Reconcile
  BY <1>1, <1>3 DEF Ensure, Take, Decide, BounceEnsures, Verified, Return,
       Event, MayLead, Lead, CallStop, vars, adapter, start, children, budget,
       owners, Reconcile, EngineAssumption, Types, TreeTyped, TreeStates
<1>4. CASE Switch \/ Retune \/ Recover \/ Park \/ Unpark \/ ClearFailure \/ ResetStrikes
  BY <1>1, <1>4 DEF Switch, Retune, Recover, Park, Unpark, ClearFailure,
       ResetStrikes, Event, Kick, CallStop, vars, adapter, start, children,
       budget, owners, EngineAssumption, Types, TreeTyped, TreeStates
<1>5. CASE Report \/ Lapse \/ HandleDeath \/ HandleFailure \/ LatchFailed
  BY <1>1, <1>5 DEF Report, Lapse, HandleDeath, HandleFailure, LatchFailed,
       Event, MarkUnhealthy, Strike, Ours, vars, adapter, start, children,
       budget, owners, EngineAssumption, Types, TreeTyped, TreeStates
<1>6. ASSUME NEW a \in Actor, Stopping(a) PROVE TreeTyped'
  BY <1>1, <1>6 DEF StopCancels, StopLooks, StopEnds, Retire, Returns, NoStop,
       Exited, Stops, Runs, vars, adapter, start, children, budget, owners,
       Stopping, EngineAssumption, Types, TreeTyped, TreeStates
<1>7. ASSUME NEW c \in Child, Notice(c) \/ Demote(c) \/ Answers(c)
            \/ Exits(c) \/ RunnersExit(c) \/ Jams(c) \/ Unreadable(c)
      PROVE  TreeTyped'
  BY <1>1, <1>7 DEF Notice, Demote, Answers, Exits, RunnersExit, Jams, Unreadable, Exited,
       Runs, MarkUnhealthy, Event, vars, adapter, start, children, budget,
       owners, EngineAssumption, Types, TreeTyped, TreeStates
<1>8. CASE UNCHANGED vars
  BY <1>8 DEF vars, adapter, start, children, budget, owners, Types,
       TreeTyped, TreeStates
<1> QED
  BY <1>2, <1>3, <1>4, <1>5, <1>6, <1>7, <1>8 DEF Next

(* The two stops. *)
LEMMA StopTypedKept == ASSUME Types, [Next]_vars PROVE StopTyped'
<1>1. EngineAssumption
  BY EngineAssumption
<1>2. CASE Starting
  BY <1>1, <1>2 DEF Reap, Reaping, Refused, ExitsDone, Spawn, SpawnFails,
       Record, ProbeOk, ProbeFails, Tearing, ParkedMeanwhile, Dropping,
       NotParked, Mark, Retire, At, Goto, Rest, Stops, Exited, Runs, Publish,
       Forgotten, vars, adapter, start, children, budget, owners, Starting,
       EngineAssumption, Types, StopTyped, StopStates, Actor, Kids
<1>3. CASE Ensure \/ Reconcile
  BY <1>1, <1>3 DEF Ensure, Take, Decide, BounceEnsures, Verified, Return,
       Event, MayLead, Lead, CallStop, vars, adapter, start, children, budget,
       owners, Reconcile, EngineAssumption, Types, StopTyped, StopStates, Actor,
       Kids
<1>4. CASE Switch \/ Retune \/ Recover \/ Park \/ Unpark \/ ClearFailure \/ ResetStrikes
  BY <1>1, <1>4 DEF Switch, Retune, Recover, Park, Unpark, ClearFailure,
       ResetStrikes, Event, Kick, CallStop, vars, adapter, start, children,
       budget, owners, EngineAssumption, Types, StopTyped, StopStates, Actor, Kids
<1>5. CASE Report \/ Lapse \/ HandleDeath \/ HandleFailure \/ LatchFailed
  BY <1>1, <1>5 DEF Report, Lapse, HandleDeath, HandleFailure, LatchFailed,
       Event, MarkUnhealthy, Strike, Ours, vars, adapter, start, children,
       budget, owners, EngineAssumption, Types, StopTyped, StopStates, Actor, Kids
<1>6. ASSUME NEW a \in Actor, Stopping(a) PROVE StopTyped'
  BY <1>1, <1>6 DEF StopCancels, StopLooks, StopEnds, Retire, Returns, NoStop,
       Exited, Stops, Runs, vars, adapter, start, children, budget, owners,
       Stopping, EngineAssumption, Types, StopTyped, StopStates, Actor, Kids
<1>7. ASSUME NEW c \in Child, Notice(c) \/ Demote(c) \/ Answers(c)
            \/ Exits(c) \/ RunnersExit(c) \/ Jams(c) \/ Unreadable(c)
      PROVE  StopTyped'
  BY <1>1, <1>7 DEF Notice, Demote, Answers, Exits, RunnersExit, Jams, Unreadable, Exited,
       Runs, MarkUnhealthy, Event, vars, adapter, start, children, budget,
       owners, EngineAssumption, Types, StopTyped, StopStates, Actor, Kids
<1>8. CASE UNCHANGED vars
  BY <1>8 DEF vars, adapter, start, children, budget, owners, Types,
       StopTyped, StopStates, Actor, Kids
<1> QED
  BY <1>2, <1>3, <1>4, <1>5, <1>6, <1>7, <1>8 DEF Next

-----------------------------------------------------------------------------
(* The invariant. *)

(* What the other actions leave alone. *)
LEMMA Elsewhere ==
  ASSUME [Next]_vars
  PROVE  \/ Starting \/ Ensure \/ BounceEnsures
         \/ \E a \in Actor : StopLooks(a)
         \/ \E c \in Child : Answers(c) \/ Exits(c) \/ RunnersExit(c) \/ Jams(c) \/ Unreadable(c)
         \/ UNCHANGED <<tree, retired, unread, proc, lead, fresh, ensuring, stuck>>
<1> DEFINE Same == UNCHANGED <<tree, retired, unread, proc, lead, fresh, ensuring, stuck>>
<1>1. ASSUME Take \/ Decide \/ Verified \/ Return PROVE Same
  BY <1>1 DEF Take, Decide, Verified, Return, CallStop, vars, adapter, start,
       children, budget, owners
<1>2. ASSUME Switch \/ Retune \/ Recover \/ Report \/ Lapse PROVE Same
  BY <1>2 DEF Switch, Retune, Recover, Report, Lapse, Event, Kick,
       MarkUnhealthy, vars, adapter, start, children, budget, owners
<1>3. ASSUME Park \/ Unpark \/ ClearFailure \/ ResetStrikes PROVE Same
  BY <1>3 DEF Park, Unpark, ClearFailure, ResetStrikes, Event, CallStop, vars,
       adapter, start, children, budget, owners
<1>4. ASSUME HandleDeath \/ HandleFailure \/ LatchFailed PROVE Same
  BY <1>4 DEF HandleDeath, HandleFailure, LatchFailed, Strike, Ours, Event,
       vars, adapter, start, children, budget, owners
<1>5. ASSUME NEW a \in Actor, StopCancels(a) \/ StopEnds(a) PROVE Same
  BY <1>5 DEF StopCancels, StopEnds, Exited, Stops, Returns, NoStop, Runs,
       vars, adapter, start, children, budget, owners
<1>6. ASSUME NEW c \in Child, Notice(c) \/ Demote(c) PROVE Same
  BY <1>6 DEF Notice, Demote, Exited, Runs, MarkUnhealthy, vars, adapter,
       start, children, budget, owners
<1>7. ASSUME UNCHANGED vars PROVE Same
  BY <1>7 DEF vars, adapter, start, children, budget, owners
<1> QED
  BY <1>1, <1>2, <1>3, <1>4, <1>5, <1>6, <1>7 DEF Next, Reconcile, Stopping

(* What the start holds is moved by the start alone, and retired before it goes. *)
LEMMA LeadsKept == ASSUME Types, Leads, [Next]_vars PROVE Leads'
<1>1. EngineAssumption
  BY EngineAssumption
<1>2. CASE Starting
  <2>1. CASE Reap
    BY <1>1, <2>1 DEF Reap, Retire, At, Goto, Rest, vars, adapter, start,
       children, budget, owners, EngineAssumption, Types, Leads, Told, Kids,
       LeadTyped, LeadPoints, Flags
  <2>2. CASE Reaping
    BY <1>1, <2>2 DEF Reaping, At, Goto, Rest, Stops, Exited, Runs, vars,
       adapter, start, children, budget, owners, EngineAssumption, Types,
       Leads, Told, Kids, LeadTyped, LeadPoints, Flags
  <2>3. CASE Refused
    BY <1>1, <2>3 DEF Refused, At, Publish, Rest, vars, adapter, start,
       children, budget, owners, EngineAssumption, Types, Leads, Told, Kids,
       LeadTyped, LeadPoints, Flags
  <2>4. CASE ExitsDone
    BY <1>1, <2>4 DEF ExitsDone, At, Goto, Rest, vars, adapter, start,
       children, budget, owners, EngineAssumption, Types, Leads, Told, Kids,
       LeadTyped, LeadPoints, Flags
  <2>5. CASE Spawn
    BY <1>1, <2>5 DEF Spawn, At, Rest, Forgotten, vars, adapter, start,
       children, budget, owners, EngineAssumption, Types, Leads, Told, Kids,
       LeadTyped, LeadPoints, Flags
  <2>6. CASE SpawnFails
    BY <1>1, <2>6 DEF SpawnFails, At, Publish, Rest, vars, adapter, start,
       children, budget, owners, EngineAssumption, Types, Leads, Told, Kids,
       LeadTyped, LeadPoints, Flags
  <2>7. CASE Record
    BY <1>1, <2>7 DEF Record, At, Goto, Rest, vars, adapter, start, children,
       budget, owners, EngineAssumption, Types, Leads, Told, Kids, LeadTyped,
       LeadPoints, Flags
  <2>8. CASE ProbeOk
    BY <1>1, <2>8 DEF ProbeOk, At, Goto, Rest, vars, adapter, start, children,
       budget, owners, EngineAssumption, Types, Leads, Told, Kids, LeadTyped,
       LeadPoints, Flags
  <2>9. CASE ProbeFails
    BY <1>1, <2>9 DEF ProbeFails, Retire, At, Goto, Rest, vars, adapter,
       start, children, budget, owners, EngineAssumption, Types, Leads, Told, Kids,
       LeadTyped, LeadPoints, Flags
  <2>10. CASE Tearing
    BY <1>1, <2>10 DEF Tearing, At, Publish, Rest, Stops, Exited, Runs, vars,
       adapter, start, children, budget, owners, EngineAssumption, Types,
       Leads, Told, Kids, LeadTyped, LeadPoints, Flags
  <2>11. CASE ParkedMeanwhile
    BY <1>1, <2>11 DEF ParkedMeanwhile, Retire, At, Goto, Rest, vars, adapter,
       start, children, budget, owners, EngineAssumption, Types, Leads, Told, Kids,
       LeadTyped, LeadPoints, Flags
  <2>12. CASE Dropping
    BY <1>1, <2>12 DEF Dropping, At, Publish, Rest, Stops, Exited, Runs, vars,
       adapter, start, children, budget, owners, EngineAssumption, Types,
       Leads, Told, Kids, LeadTyped, LeadPoints, Flags
  <2>13. CASE NotParked
    BY <1>1, <2>13 DEF NotParked, At, Goto, Rest, vars, adapter, start,
       children, budget, owners, EngineAssumption, Types, Leads, Told, Kids,
       LeadTyped, LeadPoints, Flags
  <2>14. CASE Mark
    BY <1>1, <2>14 DEF Mark, At, Publish, vars, adapter, start, children,
       budget, owners, EngineAssumption, Types, Leads, Told, Kids, LeadTyped,
       LeadPoints, Flags
  <2> QED
    BY <1>2, <2>1, <2>2, <2>3, <2>4, <2>5, <2>6, <2>7, <2>8, <2>9,
       <2>10, <2>11, <2>12, <2>13, <2>14 DEF Starting
<1>3. CASE Ensure
  BY <1>1, <1>3 DEF Ensure, Event, MayLead, Lead, vars, adapter, start,
       children, budget, owners, At, EngineAssumption, Types, Leads, Told, Kids,
       LeadTyped, LeadPoints, Flags
<1>4. CASE BounceEnsures
  BY <1>1, <1>4 DEF BounceEnsures, MayLead, Lead, vars, adapter, start,
       children, budget, owners, At, EngineAssumption, Types, Leads, Told, Kids,
       LeadTyped, LeadPoints, Flags
<1>5. ASSUME NEW a \in Actor, StopLooks(a) PROVE Leads'
  BY <1>1, <1>5 DEF StopLooks, Retire, Returns, NoStop, vars, adapter, start,
       children, budget, owners, At, EngineAssumption, Types, Leads, Told, Kids,
       LeadTyped, LeadPoints, Flags
<1>6. ASSUME NEW c \in Child, Answers(c) PROVE Leads'
  BY <1>1, <1>6 DEF Answers, vars, adapter, start, children, budget, owners,
       At, EngineAssumption, Types, Leads, Told, Kids, LeadTyped, LeadPoints, Flags
<1>7. ASSUME NEW c \in Child, Exits(c) PROVE Leads'
  BY <1>1, <1>7 DEF Exits, Event, Runs, vars, adapter, start, children,
       budget, owners, At, EngineAssumption, Types, Leads, Told, Kids, LeadTyped,
       LeadPoints, Flags
<1>8. ASSUME NEW c \in Child, RunnersExit(c) PROVE Leads'
  BY <1>1, <1>8 DEF RunnersExit, vars, adapter, start, children, budget,
       owners, At, EngineAssumption, Types, Leads, Told, Kids, LeadTyped, LeadPoints,
       Flags
<1>9. ASSUME NEW c \in Child, Jams(c) PROVE Leads'
  BY <1>1, <1>9 DEF Jams, Event, Runs, vars, adapter, start, children, budget,
       owners, At, EngineAssumption, Types, Leads, Told, Kids, LeadTyped, LeadPoints,
       Flags
<1>10. ASSUME NEW c \in Child, Unreadable(c) PROVE Leads'
  BY <1>1, <1>10 DEF Unreadable, Event, vars, adapter, start, children, budget,
       owners, At, EngineAssumption, Types, Leads, Told, Kids, LeadTyped, LeadPoints,
       Flags, Told
<1>11. CASE UNCHANGED <<tree, retired, unread, proc, lead, fresh, ensuring>>
  BY <1>11 DEF At, Leads, Told
<1> QED
  BY Elsewhere, <1>2, <1>3, <1>4, <1>5, <1>6, <1>7, <1>8, <1>9, <1>10, <1>11

(* A spawn waits for everything recorded and finds nothing else. *)
LEMMA OwnedKept == ASSUME Types, Leads, Owned, [Next]_vars PROVE Owned'
<1>1. EngineAssumption
  BY EngineAssumption
<1>2. CASE Starting
  <2>1. CASE Reap
    BY <1>1, <2>1 DEF Reap, Retire, At, Goto, Rest, vars, adapter, start,
       children, budget, owners, EngineAssumption, Types, Owned, Told, Leads, Kids,
       LeadTyped, LeadPoints, TreeTyped, TreeStates
  <2>2. CASE Reaping
    BY <1>1, <2>2 DEF Reaping, At, Goto, Rest, Stops, Exited, Runs, vars,
       adapter, start, children, budget, owners, EngineAssumption, Types,
       Owned, Told, Leads, Kids, LeadTyped, LeadPoints, TreeTyped, TreeStates
  <2>3. CASE Refused
    BY <1>1, <2>3 DEF Refused, At, Publish, Rest, vars, adapter, start,
       children, budget, owners, EngineAssumption, Types, Owned, Told, Leads, Kids,
       LeadTyped, LeadPoints, TreeTyped, TreeStates
  <2>4. CASE ExitsDone
    BY <1>1, <2>4 DEF ExitsDone, At, Goto, Rest, vars, adapter, start,
       children, budget, owners, EngineAssumption, Types, Owned, Told, Leads, Kids,
       LeadTyped, LeadPoints, TreeTyped, TreeStates
  <2>5. CASE Spawn
    <3>1. PICK c \in Child : /\ tree' = [tree EXCEPT ![c] = "up"]
                             /\ unread' = unread \ {c}
                             /\ lead' = [at |-> "record", child |-> c]
      BY <2>5 DEF Spawn
    <3>2. At("spawn") /\ retired' = retired /\ proc' = proc
      BY <2>5 DEF Spawn, children, Rest
    <3> QED
      BY <3>1, <3>2 DEF At, Owned, Told, Types, TreeTyped
  <2>6. CASE SpawnFails
    BY <1>1, <2>6 DEF SpawnFails, At, Publish, Rest, vars, adapter, start,
       children, budget, owners, EngineAssumption, Types, Owned, Told, Leads, Kids,
       LeadTyped, LeadPoints, TreeTyped, TreeStates
  <2>7. CASE Record
    BY <1>1, <2>7 DEF Record, At, Goto, Rest, vars, adapter, start, children,
       budget, owners, EngineAssumption, Types, Owned, Told, Leads, Kids, LeadTyped,
       LeadPoints, TreeTyped, TreeStates
  <2>8. CASE ProbeOk
    BY <1>1, <2>8 DEF ProbeOk, At, Goto, Rest, vars, adapter, start, children,
       budget, owners, EngineAssumption, Types, Owned, Told, Leads, Kids, LeadTyped,
       LeadPoints, TreeTyped, TreeStates
  <2>9. CASE ProbeFails
    BY <1>1, <2>9 DEF ProbeFails, Retire, At, Goto, Rest, vars, adapter,
       start, children, budget, owners, EngineAssumption, Types, Owned, Told, Leads,
       Kids, LeadTyped, LeadPoints, TreeTyped, TreeStates
  <2>10. CASE Tearing
    BY <1>1, <2>10 DEF Tearing, At, Publish, Rest, Stops, Exited, Runs, vars,
       adapter, start, children, budget, owners, EngineAssumption, Types,
       Owned, Told, Leads, Kids, LeadTyped, LeadPoints, TreeTyped, TreeStates
  <2>11. CASE ParkedMeanwhile
    BY <1>1, <2>11 DEF ParkedMeanwhile, Retire, At, Goto, Rest, vars, adapter,
       start, children, budget, owners, EngineAssumption, Types, Owned, Told, Leads,
       Kids, LeadTyped, LeadPoints, TreeTyped, TreeStates
  <2>12. CASE Dropping
    BY <1>1, <2>12 DEF Dropping, At, Publish, Rest, Stops, Exited, Runs, vars,
       adapter, start, children, budget, owners, EngineAssumption, Types,
       Owned, Told, Leads, Kids, LeadTyped, LeadPoints, TreeTyped, TreeStates
  <2>13. CASE NotParked
    BY <1>1, <2>13 DEF NotParked, At, Goto, Rest, vars, adapter, start,
       children, budget, owners, EngineAssumption, Types, Owned, Told, Leads, Kids,
       LeadTyped, LeadPoints, TreeTyped, TreeStates
  <2>14. CASE Mark
    BY <1>1, <2>14 DEF Mark, At, Publish, vars, adapter, start, children,
       budget, owners, EngineAssumption, Types, Owned, Told, Leads, Kids, LeadTyped,
       LeadPoints, TreeTyped, TreeStates
  <2> QED
    BY <1>2, <2>1, <2>2, <2>3, <2>4, <2>5, <2>6, <2>7, <2>8, <2>9,
       <2>10, <2>11, <2>12, <2>13, <2>14 DEF Starting
<1>3. CASE Ensure
  BY <1>1, <1>3 DEF Ensure, Event, MayLead, Lead, vars, adapter, start,
       children, budget, owners, At, EngineAssumption, Types, Owned, Told, Leads,
       Kids, LeadTyped, LeadPoints, TreeTyped, TreeStates
<1>4. CASE BounceEnsures
  BY <1>1, <1>4 DEF BounceEnsures, MayLead, Lead, vars, adapter, start,
       children, budget, owners, At, EngineAssumption, Types, Owned, Told, Leads,
       Kids, LeadTyped, LeadPoints, TreeTyped, TreeStates
<1>5. ASSUME NEW a \in Actor, StopLooks(a) PROVE Owned'
  BY <1>1, <1>5 DEF StopLooks, Retire, Returns, NoStop, vars, adapter, start,
       children, budget, owners, At, EngineAssumption, Types, Owned, Told, Leads,
       Kids, LeadTyped, LeadPoints, TreeTyped, TreeStates
<1>6. ASSUME NEW c \in Child, Answers(c) PROVE Owned'
  BY <1>1, <1>6 DEF Answers, vars, adapter, start, children, budget, owners,
       At, EngineAssumption, Types, Owned, Told, Leads, Kids, LeadTyped, LeadPoints,
       TreeTyped, TreeStates
<1>7. ASSUME NEW c \in Child, Exits(c) PROVE Owned'
  BY <1>1, <1>7 DEF Exits, Event, Runs, vars, adapter, start, children,
       budget, owners, At, EngineAssumption, Types, Owned, Told, Leads, Kids,
       LeadTyped, LeadPoints, TreeTyped, TreeStates
<1>8. ASSUME NEW c \in Child, RunnersExit(c) PROVE Owned'
  BY <1>1, <1>8 DEF RunnersExit, vars, adapter, start, children, budget,
       owners, At, EngineAssumption, Types, Owned, Told, Leads, Kids, LeadTyped,
       LeadPoints, TreeTyped, TreeStates
<1>9. ASSUME NEW c \in Child, Jams(c) PROVE Owned'
  BY <1>1, <1>9 DEF Jams, Event, Runs, vars, adapter, start, children, budget,
       owners, At, EngineAssumption, Types, Owned, Told, Leads, Kids, LeadTyped,
       LeadPoints, TreeTyped, TreeStates
<1>10. ASSUME NEW c \in Child, Unreadable(c) PROVE Owned'
  BY <1>1, <1>10 DEF Unreadable, Event, vars, adapter, start, children, budget,
       owners, At, EngineAssumption, Types, Owned, Told, Leads, Kids, LeadTyped,
       LeadPoints, TreeTyped, TreeStates, Told
<1>11. CASE UNCHANGED <<tree, retired, unread, proc, lead, fresh, ensuring>>
  BY <1>11 DEF At, Owned, Told
<1> QED
  BY Elsewhere, <1>2, <1>3, <1>4, <1>5, <1>6, <1>7, <1>8, <1>9, <1>10, <1>11

(* A child is let go of only when it has exited or is stuck. *)
LEMMA HeldKept == ASSUME Types, Leads, Owned, Held, [Next]_vars PROVE Held'
<1>1. EngineAssumption
  BY EngineAssumption
<1>2. CASE Starting
  <2>1. CASE Reap
    BY <1>1, <2>1 DEF Reap, Retire, At, Goto, Rest, vars, adapter, start,
       children, budget, owners, EngineAssumption, Types, Held, Leads, Kids,
       LeadTyped, LeadPoints, TreeTyped, TreeStates, Runs
  <2>2. CASE Reaping
    BY <1>1, <2>2 DEF Reaping, At, Goto, Rest, Stops, Exited, Runs, vars,
       adapter, start, children, budget, owners, EngineAssumption, Types,
       Held, Leads, Kids, LeadTyped, LeadPoints, TreeTyped, TreeStates
  <2>3. CASE Refused
    BY <1>1, <2>3 DEF Refused, At, Publish, Rest, vars, adapter, start,
       children, budget, owners, EngineAssumption, Types, Held, Leads, Kids,
       LeadTyped, LeadPoints, TreeTyped, TreeStates, Runs
  <2>4. CASE ExitsDone
    BY <1>1, <2>4 DEF ExitsDone, At, Goto, Rest, vars, adapter, start,
       children, budget, owners, EngineAssumption, Types, Held, Leads, Kids,
       LeadTyped, LeadPoints, TreeTyped, TreeStates, Runs
  <2>5. CASE Spawn
    BY <1>1, <2>5 DEF Spawn, At, Rest, Forgotten, vars, adapter, start,
       children, budget, owners, EngineAssumption, Types, Held, Leads, Kids,
       LeadTyped, LeadPoints, TreeTyped, TreeStates, Runs
  <2>6. CASE SpawnFails
    BY <1>1, <2>6 DEF SpawnFails, At, Publish, Rest, vars, adapter, start,
       children, budget, owners, EngineAssumption, Types, Held, Leads, Kids,
       LeadTyped, LeadPoints, TreeTyped, TreeStates, Runs
  <2>7. CASE Record
    BY <1>1, <2>7 DEF Record, At, Goto, Rest, vars, adapter, start, children,
       budget, owners, EngineAssumption, Types, Held, Leads, Kids, LeadTyped,
       LeadPoints, TreeTyped, TreeStates, Runs
  <2>8. CASE ProbeOk
    BY <1>1, <2>8 DEF ProbeOk, At, Goto, Rest, vars, adapter, start, children,
       budget, owners, EngineAssumption, Types, Held, Leads, Kids, LeadTyped,
       LeadPoints, TreeTyped, TreeStates, Runs
  <2>9. CASE ProbeFails
    BY <1>1, <2>9 DEF ProbeFails, Retire, At, Goto, Rest, vars, adapter,
       start, children, budget, owners, EngineAssumption, Types, Held, Leads,
       Kids, LeadTyped, LeadPoints, TreeTyped, TreeStates, Runs
  <2>10. CASE Tearing
    BY <1>1, <2>10 DEF Tearing, At, Publish, Rest, Stops, Exited, Runs, vars,
       adapter, start, children, budget, owners, EngineAssumption, Types,
       Held, Leads, Kids, LeadTyped, LeadPoints, TreeTyped, TreeStates
  <2>11. CASE ParkedMeanwhile
    BY <1>1, <2>11 DEF ParkedMeanwhile, Retire, At, Goto, Rest, vars, adapter,
       start, children, budget, owners, EngineAssumption, Types, Held, Leads,
       Kids, LeadTyped, LeadPoints, TreeTyped, TreeStates, Runs
  <2>12. CASE Dropping
    BY <1>1, <2>12 DEF Dropping, At, Publish, Rest, Stops, Exited, Runs, vars,
       adapter, start, children, budget, owners, EngineAssumption, Types,
       Held, Leads, Kids, LeadTyped, LeadPoints, TreeTyped, TreeStates
  <2>13. CASE NotParked
    BY <1>1, <2>13 DEF NotParked, At, Goto, Rest, vars, adapter, start,
       children, budget, owners, EngineAssumption, Types, Held, Leads, Kids,
       LeadTyped, LeadPoints, TreeTyped, TreeStates, Runs
  <2>14. CASE Mark
    BY <1>1, <2>14 DEF Mark, At, Publish, vars, adapter, start, children,
       budget, owners, EngineAssumption, Types, Held, Leads, Kids, LeadTyped,
       LeadPoints, TreeTyped, TreeStates, Runs
  <2> QED
    BY <1>2, <2>1, <2>2, <2>3, <2>4, <2>5, <2>6, <2>7, <2>8, <2>9,
       <2>10, <2>11, <2>12, <2>13, <2>14 DEF Starting
<1>3. CASE Ensure
  BY <1>1, <1>3 DEF Ensure, Event, MayLead, Lead, vars, adapter, start,
       children, budget, owners, At, EngineAssumption, Types, Held, Leads,
       Kids, LeadTyped, LeadPoints, TreeTyped, TreeStates, Runs
<1>4. CASE BounceEnsures
  BY <1>1, <1>4 DEF BounceEnsures, MayLead, Lead, vars, adapter, start,
       children, budget, owners, At, EngineAssumption, Types, Held, Leads,
       Kids, LeadTyped, LeadPoints, TreeTyped, TreeStates, Runs
<1>5. ASSUME NEW a \in Actor, StopLooks(a) PROVE Held'
  BY <1>1, <1>5 DEF StopLooks, Retire, Returns, NoStop, vars, adapter, start,
       children, budget, owners, At, EngineAssumption, Types, Held, Leads,
       Kids, LeadTyped, LeadPoints, TreeTyped, TreeStates, Runs
<1>6. ASSUME NEW c \in Child, Answers(c) PROVE Held'
  BY <1>1, <1>6 DEF Answers, vars, adapter, start, children, budget, owners,
       At, EngineAssumption, Types, Held, Leads, Kids, LeadTyped, LeadPoints,
       TreeTyped, TreeStates, Runs
<1>7. ASSUME NEW c \in Child, Exits(c) PROVE Held'
  BY <1>1, <1>7 DEF Exits, Event, Runs, vars, adapter, start, children,
       budget, owners, At, EngineAssumption, Types, Held, Leads, Kids,
       LeadTyped, LeadPoints, TreeTyped, TreeStates
<1>8. ASSUME NEW c \in Child, RunnersExit(c) PROVE Held'
  BY <1>1, <1>8 DEF RunnersExit, vars, adapter, start, children, budget,
       owners, At, EngineAssumption, Types, Held, Leads, Kids, LeadTyped,
       LeadPoints, TreeTyped, TreeStates, Runs
<1>9. ASSUME NEW c \in Child, Jams(c) PROVE Held'
  BY <1>1, <1>9 DEF Jams, Event, Runs, vars, adapter, start, children, budget,
       owners, At, EngineAssumption, Types, Held, Leads, Kids, LeadTyped,
       LeadPoints, TreeTyped, TreeStates
<1>10. ASSUME NEW c \in Child, Unreadable(c) PROVE Held'
  BY <1>1, <1>10 DEF Unreadable, Event, vars, adapter, start, children, budget,
       owners, At, EngineAssumption, Types, Held, Leads, Kids, LeadTyped,
       LeadPoints, TreeTyped, TreeStates, Runs
<1>11. CASE UNCHANGED <<tree, retired, unread, proc, lead, fresh, ensuring, stuck>>
  BY <1>11 DEF At, Held, Runs
<1> QED
  BY Elsewhere, <1>2, <1>3, <1>4, <1>5, <1>6, <1>7, <1>8, <1>9, <1>10, <1>11

(* No step leaves a running child to nobody while the latch is on. *)
LEMMA ParkHoldsKept == ASSUME Types, Leads, Owned, Held, ParkHolds, [Next]_vars PROVE ParkHolds'
<1>1. EngineAssumption
  BY EngineAssumption
<1>2. CASE Starting
  <2>1. CASE Reap
    BY <1>1, <2>1 DEF Reap, Retire, At, Goto, Rest, vars, adapter, start,
       children, budget, owners, EngineAssumption, Types, ParkHolds, Held,
       Leads, Kids, LeadTyped, LeadPoints, TreeTyped, TreeStates, Runs, StopTyped,
       StopStates, Actor
  <2>2. CASE Reaping
    BY <1>1, <2>2 DEF Reaping, At, Goto, Rest, Stops, Exited, Runs, vars,
       adapter, start, children, budget, owners, EngineAssumption, Types,
       ParkHolds, Held, Leads, Kids, LeadTyped, LeadPoints, TreeTyped, TreeStates,
       StopTyped, StopStates, Actor
  <2>3. CASE Refused
    BY <1>1, <2>3 DEF Refused, At, Publish, Rest, vars, adapter, start,
       children, budget, owners, EngineAssumption, Types, ParkHolds, Held,
       Leads, Kids, LeadTyped, LeadPoints, TreeTyped, TreeStates, Runs, StopTyped,
       StopStates, Actor
  <2>4. CASE ExitsDone
    BY <1>1, <2>4 DEF ExitsDone, At, Goto, Rest, vars, adapter, start,
       children, budget, owners, EngineAssumption, Types, ParkHolds, Held,
       Leads, Kids, LeadTyped, LeadPoints, TreeTyped, TreeStates, Runs, StopTyped,
       StopStates, Actor
  <2>5. CASE Spawn
    BY <1>1, <2>5 DEF Spawn, At, Rest, Forgotten, vars, adapter, start,
       children, budget, owners, EngineAssumption, Types, ParkHolds, Held,
       Leads, Kids, LeadTyped, LeadPoints, TreeTyped, TreeStates, Runs, StopTyped,
       StopStates, Actor
  <2>6. CASE SpawnFails
    BY <1>1, <2>6 DEF SpawnFails, At, Publish, Rest, vars, adapter, start,
       children, budget, owners, EngineAssumption, Types, ParkHolds, Held,
       Leads, Kids, LeadTyped, LeadPoints, TreeTyped, TreeStates, Runs, StopTyped,
       StopStates, Actor
  <2>7. CASE Record
    BY <1>1, <2>7 DEF Record, At, Goto, Rest, vars, adapter, start, children,
       budget, owners, EngineAssumption, Types, ParkHolds, Held, Leads, Kids,
       LeadTyped, LeadPoints, TreeTyped, TreeStates, Runs, StopTyped, StopStates, Actor
  <2>8. CASE ProbeOk
    BY <1>1, <2>8 DEF ProbeOk, At, Goto, Rest, vars, adapter, start, children,
       budget, owners, EngineAssumption, Types, ParkHolds, Held, Leads, Kids,
       LeadTyped, LeadPoints, TreeTyped, TreeStates, Runs, StopTyped, StopStates, Actor
  <2>9. CASE ProbeFails
    BY <1>1, <2>9 DEF ProbeFails, Retire, At, Goto, Rest, vars, adapter,
       start, children, budget, owners, EngineAssumption, Types, ParkHolds,
       Held, Leads, Kids, LeadTyped, LeadPoints, TreeTyped, TreeStates, Runs,
       StopTyped, StopStates, Actor
  <2>10. CASE Tearing
    BY <1>1, <2>10 DEF Tearing, At, Publish, Rest, Stops, Exited, Runs, vars,
       adapter, start, children, budget, owners, EngineAssumption, Types,
       ParkHolds, Held, Leads, Kids, LeadTyped, LeadPoints, TreeTyped, TreeStates,
       StopTyped, StopStates, Actor
  <2>11. CASE ParkedMeanwhile
    BY <1>1, <2>11 DEF ParkedMeanwhile, Retire, At, Goto, Rest, vars, adapter,
       start, children, budget, owners, EngineAssumption, Types, ParkHolds,
       Held, Leads, Kids, LeadTyped, LeadPoints, TreeTyped, TreeStates, Runs,
       StopTyped, StopStates, Actor
  <2>12. CASE Dropping
    BY <1>1, <2>12 DEF Dropping, At, Publish, Rest, Stops, Exited, Runs, vars,
       adapter, start, children, budget, owners, EngineAssumption, Types,
       ParkHolds, Held, Leads, Kids, LeadTyped, LeadPoints, TreeTyped, TreeStates,
       StopTyped, StopStates, Actor
  <2>13. CASE NotParked
    BY <1>1, <2>13 DEF NotParked, At, Goto, Rest, vars, adapter, start,
       children, budget, owners, EngineAssumption, Types, ParkHolds, Held,
       Leads, Kids, LeadTyped, LeadPoints, TreeTyped, TreeStates, Runs, StopTyped,
       StopStates, Actor
  <2>14. CASE Mark
    BY <1>1, <2>14 DEF Mark, At, Publish, vars, adapter, start, children,
       budget, owners, EngineAssumption, Types, ParkHolds, Held, Leads, Kids,
       LeadTyped, LeadPoints, TreeTyped, TreeStates, Runs, StopTyped, StopStates, Actor
  <2> QED
    BY <1>2, <2>1, <2>2, <2>3, <2>4, <2>5, <2>6, <2>7, <2>8, <2>9,
       <2>10, <2>11, <2>12, <2>13, <2>14 DEF Starting
<1>3. CASE Ensure \/ Reconcile
  BY <1>1, <1>3 DEF Ensure, Take, Decide, BounceEnsures, Verified, Return,
       Event, MayLead, Lead, CallStop, vars, adapter, start, children, budget,
       owners, Reconcile, EngineAssumption, Types, ParkHolds, At, Held, Leads,
       Kids, LeadTyped, LeadPoints, TreeTyped, TreeStates, Runs, StopTyped, StopStates,
       Actor
<1>4. CASE Switch \/ Retune \/ Recover \/ Park \/ Unpark \/ ClearFailure \/ ResetStrikes
  <2>1. CASE Switch
    BY <1>1, <2>1 DEF Switch, Event, Kick, vars, adapter, start, children,
       budget, owners, EngineAssumption, Types, ParkHolds, At, Held, Leads,
       Kids, LeadTyped, LeadPoints, TreeTyped, TreeStates, Runs, StopTyped, StopStates,
       Actor
  <2>2. CASE Retune
    BY <1>1, <2>2 DEF Retune, Event, Kick, vars, adapter, start, children,
       budget, owners, EngineAssumption, Types, ParkHolds, At, Held, Leads,
       Kids, LeadTyped, LeadPoints, TreeTyped, TreeStates, Runs, StopTyped, StopStates,
       Actor
  <2>3. CASE Recover
    BY <1>1, <2>3 DEF Recover, Kick, vars, adapter, start, children, budget,
       owners, EngineAssumption, Types, ParkHolds, At, Held, Leads, Kids,
       LeadTyped, LeadPoints, TreeTyped, TreeStates, Runs, StopTyped, StopStates, Actor
  <2>4. CASE Park
    BY <1>1, <2>4 DEF Park, Event, CallStop, vars, adapter, start, children,
       budget, owners, EngineAssumption, Types, ParkHolds, At, Held, Leads,
       Kids, LeadTyped, LeadPoints, TreeTyped, TreeStates, Runs, StopTyped, StopStates,
       Actor
  <2>5. CASE Unpark
    BY <1>1, <2>5 DEF Unpark, Event, vars, adapter, start, children, budget,
       owners, EngineAssumption, Types, ParkHolds, At, Held, Leads, Kids,
       LeadTyped, LeadPoints, TreeTyped, TreeStates, Runs, StopTyped, StopStates, Actor
  <2>6. CASE ClearFailure
    BY <1>1, <2>6 DEF ClearFailure, vars, adapter, start, children, budget,
       owners, EngineAssumption, Types, ParkHolds, At, Held, Leads, Kids,
       LeadTyped, LeadPoints, TreeTyped, TreeStates, Runs, StopTyped, StopStates, Actor
  <2>7. CASE ResetStrikes
    BY <1>1, <2>7 DEF ResetStrikes, vars, adapter, start, children, budget,
       owners, EngineAssumption, Types, ParkHolds, At, Held, Leads, Kids,
       LeadTyped, LeadPoints, TreeTyped, TreeStates, Runs, StopTyped, StopStates, Actor
  <2> QED
    BY <1>4, <2>1, <2>2, <2>3, <2>4, <2>5, <2>6, <2>7
<1>5. CASE Report \/ Lapse \/ HandleDeath \/ HandleFailure \/ LatchFailed
  BY <1>1, <1>5 DEF Report, Lapse, HandleDeath, HandleFailure, LatchFailed,
       Event, MarkUnhealthy, Strike, Ours, vars, adapter, start, children,
       budget, owners, EngineAssumption, Types, ParkHolds, At, Held, Leads,
       Kids, LeadTyped, LeadPoints, TreeTyped, TreeStates, Runs, StopTyped, StopStates,
       Actor
<1>6. ASSUME NEW a \in Actor, Stopping(a) PROVE ParkHolds'
  <2>1. CASE StopCancels(a)
    BY <1>1, <2>1 DEF StopCancels, vars, adapter, start, children, budget,
       owners, EngineAssumption, Types, ParkHolds, At, Held, Leads, Kids,
       LeadTyped, LeadPoints, TreeTyped, TreeStates, Runs, StopTyped, StopStates, Actor
  <2>2. CASE StopLooks(a)
    <3>1. /\ tree' = tree /\ stuck' = stuck /\ lead' = lead /\ stop[a].at = "look"
      BY <2>2 DEF StopLooks, start
    <3>2. CASE a = "bounce"
      <4>1. parked' = parked /\ operator' = operator /\ stop'["operator"] = stop["operator"]
        BY <2>2, <3>2 DEF StopLooks, Returns, Types, StopTyped, Actor
      <4> QED
        BY <3>1, <4>1 DEF ParkHolds, Runs
    <3>3. CASE a = "operator" /\ proc = None
      <4>1. \A d \in Child : Runs(d) /\ d \notin stuck => lead.at \notin {"off", "mark"}
        BY <1>1, <3>3 DEF EngineAssumption, Held, At
      <4> QED
        BY <3>1, <4>1 DEF ParkHolds, Runs
    <3>4. CASE a = "operator" /\ proc # None
      <4>1. /\ parked' = parked /\ operator' = operator
            /\ stop'["operator"].at = "wait" /\ stop'["operator"].child = proc
        BY <2>2, <3>4 DEF StopLooks, Types, StopTyped, Actor
      <4>2. \A d \in Child : Runs(d) /\ d \notin stuck => d = proc \/ lead.at \notin {"off", "mark"}
        BY DEF Held, At
      <4> QED
        BY <3>1, <3>4, <4>1, <4>2 DEF ParkHolds, Runs
    <3> QED
      BY <3>2, <3>3, <3>4 DEF Actor
  <2>3. CASE StopEnds(a)
    BY <1>1, <2>3 DEF StopEnds, Exited, Stops, Returns, NoStop, Runs, vars,
       adapter, start, children, budget, owners, EngineAssumption, Types,
       ParkHolds, At, Held, Leads, Kids, LeadTyped, LeadPoints, TreeTyped, TreeStates,
       StopTyped, StopStates, Actor
  <2> QED
    BY <1>6, <2>1, <2>2, <2>3 DEF Stopping
<1>7. ASSUME NEW c \in Child, Notice(c) \/ Demote(c) \/ Answers(c)
            \/ Exits(c) \/ RunnersExit(c) \/ Jams(c) \/ Unreadable(c)
      PROVE  ParkHolds'
  BY <1>1, <1>7 DEF Notice, Demote, Answers, Exits, RunnersExit, Jams, Unreadable, Exited,
       Runs, MarkUnhealthy, Event, vars, adapter, start, children, budget,
       owners, EngineAssumption, Types, ParkHolds, At, Held, Leads, Kids,
       LeadTyped, LeadPoints, TreeTyped, TreeStates, StopTyped, StopStates, Actor
<1>8. CASE UNCHANGED vars
  BY <1>8 DEF vars, adapter, start, children, budget, owners, Types,
       ParkHolds, At, Held, Leads, Kids, LeadTyped, LeadPoints, TreeTyped, TreeStates,
       Runs, StopTyped, StopStates, Actor
<1> QED
  BY <1>2, <1>3, <1>4, <1>5, <1>6, <1>7, <1>8 DEF Next

(* The types are the model's. *)
LEMMA Typed == TypeOK <=> Types
BY DEF TypeOK, Types, Flags, Counters, Places, Kids, LeadTyped, TreeTyped, StopTyped,
       LeadPoints, TreeStates, StopStates

(* Nothing runs at the start. *)
LEMMA InitIInv == Init => IInv
<1> SUFFICES ASSUME Init PROVE IInv
  OBVIOUS
<1>1. EngineAssumption
  BY EngineAssumption
<1>2. Flags
  BY <1>1 DEF Init, Flags
<1>3. Counters /\ Places
  BY <1>1 DEF Init, Counters, Places, EngineAssumption
<1>4. Kids /\ LeadTyped /\ TreeTyped /\ StopTyped
  BY <1>1 DEF Init, Kids, LeadTyped, TreeTyped, StopTyped, LeadPoints, TreeStates, StopStates, Actor
<1>5. Leads
  BY <1>1, EngineAssumption DEF Init, Leads, At, Told, EngineAssumption
<1>6. Owned /\ Held /\ ParkHolds
  BY DEF Init, Owned, Told, Held, ParkHolds, Runs, At
<1> QED
  BY <1>2, <1>3, <1>4, <1>5, <1>6 DEF IInv, Types

(* The invariant is inductive. *)
LEMMA StepIInv == IInv /\ [Next]_vars => IInv'
BY FlagsKept, CountersKept, PlacesKept, KidsKept, LeadTypedKept, TreeTypedKept, StopTypedKept,
   LeadsKept, OwnedKept, HeldKept, ParkHoldsKept DEF IInv, Types

(* So it always holds. *)
LEMMA IInvAlways == Spec => []IInv
BY InitIInv, StepIInv, PTL DEF Spec

(* OneEngine: whatever starts, bounces, parks, adoptions and deaths meet, no *)
(* child is spawned beside anything left of another whose tree the sweep    *)
(* could read (PendingExits.Wait before the spawn of runStart, and the      *)
(* record every stop leaves).                                               *)
THEOREM OneEngineAlways == Spec => []OneEngine
<1>1. IInv => OneEngine
  <2> SUFFICES ASSUME IInv PROVE OneEngine
    OBVIOUS
  <2> DEFINE S == {c \in Child \ unread : tree[c] # "gone"}
  <2>1. S = {} \/ \E c : S = {c}
    BY DEF IInv, Owned
  <2>2. Cardinality(S) <= 1
    <3>1. Cardinality(S) = 0 \/ Cardinality(S) = 1
      BY <2>1, FS_EmptySet, FS_Singleton
    <3> QED
      BY <3>1
  <2>3. TypeOK
    BY Typed DEF IInv
  <2> QED
    BY <2>2, <2>3 DEF OneEngine
<1> QED
  BY <1>1, IInvAlways, PTL

(* ParkedIsFree: the operator's stop holds against a start already under     *)
(* way, wherever in it the latch landed (Park, runStart's second look).     *)
THEOREM ParkedAlways == Spec => []ParkedIsFree
<1>1. IInv => ParkedIsFree
  <2> SUFFICES ASSUME IInv, parked, ~ensuring, operator = "idle", NEW c \in Child, Runs(c)
               PROVE  c \in stuck
    BY DEF ParkedIsFree
  <2>1. At("off")
    BY DEF IInv, Leads
  <2> QED
    BY <2>1 DEF IInv, ParkHolds, At
<1> QED
  BY <1>1, IInvAlways, PTL

(* An exit is held to be a death only by the supervisor of the child whose *)
(* generation is the current one (superviseChild).                         *)
LEMMA Noticed ==
  ASSUME [Next]_vars, NEW c \in Child, c \in seen', c \notin seen
  PROVE  fresh = c
<1>1. CASE Starting
  BY <1>1 DEF Reap, Reaping, Refused, ExitsDone, Spawn, SpawnFails, Record,
       ProbeOk, ProbeFails, Tearing, ParkedMeanwhile, Dropping, NotParked,
       Mark, Retire, At, Goto, Rest, Stops, Exited, Runs, Publish, Forgotten,
       vars, adapter, start, children, budget, owners, Starting
<1>2. CASE Ensure \/ Reconcile
  BY <1>2 DEF Ensure, Take, Decide, BounceEnsures, Verified, Return, Event,
       MayLead, Lead, CallStop, vars, adapter, start, children, budget,
       owners, Reconcile
<1>3. CASE Switch \/ Retune \/ Recover \/ Park \/ Unpark \/ ClearFailure \/ ResetStrikes
  BY <1>3 DEF Switch, Retune, Recover, Park, Unpark, ClearFailure,
       ResetStrikes, Event, Kick, CallStop, vars, adapter, start, children,
       budget, owners
<1>4. CASE Report \/ Lapse \/ HandleDeath \/ HandleFailure \/ LatchFailed
  BY <1>4 DEF Report, Lapse, HandleDeath, HandleFailure, LatchFailed, Event,
       MarkUnhealthy, Strike, Ours, vars, adapter, start, children, budget,
       owners
<1>5. ASSUME NEW a \in Actor, Stopping(a) PROVE fresh = c
  BY <1>5 DEF StopCancels, StopLooks, StopEnds, Retire, Returns, NoStop,
       Exited, Stops, Runs, vars, adapter, start, children, budget, owners,
       Stopping
<1>6. ASSUME NEW d \in Child, Notice(d) \/ Demote(d) \/ Answers(d)
            \/ Exits(d) \/ RunnersExit(d) \/ Jams(d) \/ Unreadable(d)
      PROVE  fresh = c
  BY <1>6 DEF Notice, Demote, Answers, Exits, RunnersExit, Jams, Unreadable, Exited, Runs,
       MarkUnhealthy, Event, vars, adapter, start, children, budget, owners
<1>7. CASE UNCHANGED vars
  BY <1>7 DEF vars, budget
<1> QED
  BY <1>1, <1>2, <1>3, <1>4, <1>5, <1>6, <1>7 DEF Next

(* NoFalseCrash: a child the agent retired is never charged as a crash,      *)
(* since its generation goes before its signal (stopProcess).               *)
THEOREM NoFalseCrashAlways == Spec => NoFalseCrash
<1>1. IInv /\ [Next]_vars => [\A c \in Child : c \in seen' \ seen => c \notin Told]_vars
  <2> SUFFICES ASSUME IInv, [Next]_vars, NEW c \in Child, c \in seen', c \notin seen
               PROVE  c \notin Told
    OBVIOUS
  <2>1. fresh = c
    BY Noticed
  <2> QED
    BY <2>1 DEF IInv, Leads
<1> QED
  BY <1>1, IInvAlways, PTL DEF NoFalseCrash, Spec

-----------------------------------------------------------------------------
(* The model the engine serves. *)

Rows    == [Models -> {"none", "fetching", "ready", "failed"}]
Deletes == [pc : {"idle", "load", "save", "forget", "wipe", "read", "erase"}, m : Maybe, stopped : BOOLEAN,
            row : Rows, active : Maybe]
Jobs    == [pc : {"none", "run", "check", "commit", "end"}, stop : BOOLEAN]
Pendings == [m : Maybe, by : Actors \cup {"nobody"}]
Wishes  == [swap : BOOLEAN, retune : BOOLEAN]

(* The types, a kind of state at a time: who chooses and what is chosen,    *)
(* the catalog and its deletion, the downloads, the reconcile.             *)
ChoiceTyped ==
  /\ act \in [Actors -> [pc : {"idle", "publish", "look", "mark", "pull"}, m : Maybe]]
  /\ \A x \in Actors : act[x].pc # "idle" => act[x].m # NoModel
  /\ file \in Maybe /\ cfg \in Maybe /\ override \in Maybe \cup {Unset} /\ wanted \in Maybe

CatalogTyped ==
  /\ row \in Rows /\ active \in Maybe
  /\ del \in Deletes

PullTyped ==
  /\ job \in [Models -> Jobs] /\ pending \in Pendings
  /\ firing \subseteq Models /\ deferred \in Wishes

RcTyped == rc \in [pc : {"off", "top", "read", "commit", "tune", "exit"}, t : Maybe]

BootTyped ==
  /\ boot \in [pc : {"todo", "ask", "commit", "pull", "done"}, m : Maybe]
  /\ boot.pc \in {"ask", "commit", "pull"} => boot.m \in Models

ModelTypes == ChoiceTyped /\ CatalogTyped /\ PullTyped /\ RcTyped /\ BootTyped

(* The assumption, named for what it says. *)
LEMMA ModelConsts ==
  /\ NoModel \notin Models /\ Unset \notin Models /\ NoModel # Unset
  /\ NoModel \in Maybe /\ Models \subseteq Maybe /\ Unset \notin Maybe
  BY SwitchAssumption DEF Maybe

(* The types hold at the start. *)
LEMMA ModelInit == ASSUME SwitchInit PROVE ModelTypes
<1>1. ChoiceTyped
  BY ModelConsts DEF SwitchInit, ChoiceTyped, Idle
<1>2. CatalogTyped
  BY ModelConsts DEF SwitchInit, CatalogTyped, NoDelete, Rows, Deletes
<1>3. PullTyped
  BY ModelConsts DEF SwitchInit, PullTyped, NoJob, Nothing, NoSwitch, Jobs, Pendings, Wishes
<1>4. RcTyped
  BY ModelConsts DEF SwitchInit, RcTyped
<1>5. BootTyped
  BY ModelConsts DEF SwitchInit, BootTyped, Booted
<1> QED
  BY <1>1, <1>2, <1>3, <1>4, <1>5 DEF ModelTypes

(* A choice in force is a model or none. *)
LEMMA PreferredIs == ASSUME ChoiceTyped PROVE Preferred \in Maybe
  BY DEF ChoiceTyped, Preferred

(* The choosers and what they choose keep their types. *)
LEMMA ChoiceTypedNext ==
  ASSUME ModelTypes, [SwitchNext]_switchVars
  PROVE  ChoiceTyped'
<1> USE ModelConsts DEF ModelTypes, ChoiceTyped, prefVars, histVars
<1>1. ASSUME NEW x \in Actors, Choose(x) PROVE ChoiceTyped'
  BY <1>1 DEF Choose
<1>2. ASSUME NEW x \in Actors, PublishChoice(x) PROVE ChoiceTyped'
  BY <1>2 DEF PublishChoice, ActGoto
<1>3. ASSUME NEW x \in Actors, Look(x) \/ MarkPending(x) \/ Dispatch(x) PROVE ChoiceTyped'
  <2>1. /\ Leave(x) \/ (act[x].pc # "idle" /\ \E pc \in {"mark", "pull"} : ActGoto(x, pc))
        /\ UNCHANGED <<file, cfg, override, wanted>>
    BY <1>3 DEF Look, MarkPending, Dispatch
  <2> QED
    BY <2>1 DEF ActGoto, Leave, Idle
<1>4. CASE PullModel \/ DeferRetune \/ Reconciling \/ Booting
  BY <1>4 DEF PullModel, DeferRetune, Reconciling, Booting, BootLooks, BootAsks, BootCommits, BootPulls,
       RcTop, RcRead, RcCommit, RcTune, RcExit
<1>5. ASSUME NEW m \in Models, Pulling(m) PROVE ChoiceTyped'
  BY <1>5 DEF Pulling, Land, PullFails, Stopped, CancelPull, Check,
       Commit, EndPull, Fire
<1>6. CASE Deleting
  BY <1>6 DEF Deleting, DeleteAsks, DeleteLoads, DeleteSaves, DeleteForgets, DeleteWipes, DeleteReads, DeleteErases
<1>7. CASE Restart
  BY <1>7 DEF Restart, Idle
<1>8. CASE UNCHANGED switchVars
  BY <1>8 DEF switchVars
<1> QED
  BY <1>1, <1>2, <1>3, <1>4, <1>5, <1>6, <1>7, <1>8 DEF SwitchNext, Switching

(* So do the catalog and the copy a deletion holds of it. *)
LEMMA CatalogTypedNext ==
  ASSUME ModelTypes, [SwitchNext]_switchVars
  PROVE  CatalogTyped'
<1> USE ModelConsts, PreferredIs DEF ModelTypes, CatalogTyped, pullVars, swapVars, delVars
<1>0. NoDelete \in Deletes
  BY DEF NoDelete, Deletes, Rows
<1>1. ASSUME NEW x \in Actors, Switching(x) PROVE CatalogTyped'
  BY <1>1 DEF Switching, Choose, PublishChoice, Look, MarkPending, Dispatch, BeginPull,
       ChoiceTyped, Rows
<1>2. CASE PullModel \/ DeferRetune \/ Booting
  BY <1>2 DEF PullModel, DeferRetune, Booting, BootLooks, BootAsks, BootCommits, BootPulls, BeginPull,
       Activate, Rows, BootTyped
<1>3. CASE Reconciling
  BY <1>3 DEF Reconciling, RcTop, RcRead, RcCommit, RcTune, RcExit,
       Activate, RcTyped
<1>4. ASSUME NEW m \in Models, Pulling(m) PROVE CatalogTyped'
  BY <1>4 DEF Pulling, Land, PullFails, Stopped, CancelPull, Check,
       Commit, EndPull, Fire, Activate, Rows
<1>5. CASE DeleteAsks
  <2>1. /\ \E m \in Models : del' = [NoDelete EXCEPT !.pc = "load", !.m = m, !.stopped = (m \in InFlight)]
        /\ UNCHANGED <<row, active>>
    BY <1>5 DEF DeleteAsks
  <2>2. \A m \in Models, z \in BOOLEAN : [NoDelete EXCEPT !.pc = "load", !.m = m, !.stopped = z] \in Deletes
    BY <1>0 DEF Deletes
  <2>3. \A m \in Models : (m \in InFlight) \in BOOLEAN
    OBVIOUS
  <2> QED
    BY <2>1, <2>2, <2>3
<1>6. CASE DeleteLoads
  <2>1. CASE row[del.m] # "none"
    BY <1>6, <2>1 DEF DeleteLoads, Deletes
  <2>2. CASE row[del.m] = "none"
    BY <1>0, <1>6, <2>2 DEF DeleteLoads, Deletes
  <2> QED
    BY <2>1, <2>2
<1>7. CASE DeleteSaves
  <2>1. del' = NoDelete \/ del' = [NoDelete EXCEPT !.pc = "forget", !.m = del.m]
    BY <1>7 DEF DeleteSaves
  <2>2. del' \in Deletes
    BY <1>0, <2>1 DEF Deletes
  <2>3. row' \in Rows /\ active' \in Maybe
    BY <1>7 DEF DeleteSaves, Deletes, Rows
  <2> QED
    BY <2>2, <2>3
<1>8. CASE DeleteForgets \/ DeleteWipes \/ DeleteReads \/ DeleteErases
  <2>1. /\ del' = NoDelete \/ \E pc \in {"wipe", "read", "erase"} : del' = [del EXCEPT !.pc = pc]
        /\ UNCHANGED <<row, active>>
    BY <1>8 DEF DeleteForgets, DeleteWipes, DeleteReads, DeleteErases
  <2> QED
    BY <1>0, <2>1 DEF Deletes
<1>9. CASE Restart
  BY <1>0, <1>9 DEF Restart
<1>10. CASE UNCHANGED switchVars
  BY <1>10 DEF switchVars
<1> QED
  BY <1>1, <1>2, <1>3, <1>4, <1>5, <1>6, <1>7, <1>8, <1>9, <1>10 DEF SwitchNext, Deleting

(* What the steps of a download make of the jobs. *)
LEMMA JobSteps ==
  ASSUME PullTyped, NEW m \in Models
  PROVE  /\ \A pc \in {"check", "commit", "end"} : JobGoto(m, pc) => job' \in [Models -> Jobs]
         /\ [job EXCEPT ![m].stop = TRUE] \in [Models -> Jobs]
         /\ [job EXCEPT ![m] = NoJob] \in [Models -> Jobs]
         /\ [job EXCEPT ![m] = [pc |-> "run", stop |-> FALSE]] \in [Models -> Jobs]
         /\ NoSwitch \in Pendings /\ Nothing \in Wishes
         /\ BeginPull(m) => job' \in [Models -> Jobs]
         /\ Notes(m) => deferred' \in Wishes /\ pending' \in Pendings
<1>1. job[m] \in Jobs
  BY DEF PullTyped
<1>2. /\ \A pc \in {"check", "commit", "end"} : [job[m] EXCEPT !.pc = pc] \in Jobs
      /\ [job[m] EXCEPT !.stop = TRUE] \in Jobs /\ NoJob \in Jobs
      /\ [pc |-> "run", stop |-> FALSE] \in Jobs
  BY <1>1 DEF Jobs, NoJob
<1>3. NoSwitch \in Pendings /\ Nothing \in Wishes
  BY ModelConsts DEF NoSwitch, Pendings, Nothing, Wishes
<1>4. Notes(m) => deferred' \in Wishes /\ pending' \in Pendings
  BY <1>3 DEF Notes, PullTyped, Wishes
<1> QED
  BY <1>1, <1>2, <1>3, <1>4 DEF PullTyped, BeginPull, JobGoto

(* So do the downloads and what they ask of the engine. *)
LEMMA PullTypedNext ==
  ASSUME ModelTypes, [SwitchNext]_switchVars
  PROVE  PullTyped'
<1> USE ModelConsts, PreferredIs, JobSteps DEF ModelTypes, PullTyped, pullVars
<1>1. ASSUME NEW x \in Actors, Choose(x) \/ PublishChoice(x) \/ Look(x) PROVE PullTyped'
  BY <1>1 DEF Choose, PublishChoice, Look
<1>2. ASSUME NEW x \in Actors, MarkPending(x) PROVE PullTyped'
  BY <1>2 DEF MarkPending, ChoiceTyped, Pendings
<1>3. ASSUME NEW x \in Actors, Dispatch(x) PROVE PullTyped'
  <2>1. act[x].m \in Models
    BY <1>3 DEF Dispatch, ChoiceTyped, Maybe
  <2> QED
    BY <1>3, <2>1 DEF Dispatch
<1>4. CASE PullModel
  BY <1>4 DEF PullModel
<1>5. CASE DeferRetune
  BY <1>5 DEF DeferRetune, Wishes
<1>6. CASE Booting
  BY <1>6 DEF Booting, BootLooks, BootAsks, BootCommits, BootPulls, BootTyped
<1>7. CASE Reconciling
  BY <1>7 DEF Reconciling, RcTop, RcRead, RcCommit, RcTune, RcExit
<1>8. ASSUME NEW m \in Models, Land(m) \/ PullFails(m) \/ Stopped(m) PROVE PullTyped'
  BY <1>8 DEF Land, PullFails, Stopped
<1>9. ASSUME NEW m \in Models, CancelPull(m) PROVE PullTyped'
  BY <1>9 DEF CancelPull
<1>15. ASSUME NEW m \in Models, Check(m) \/ Commit(m) PROVE PullTyped'
  BY <1>15 DEF Check, Commit
<1>10. ASSUME NEW m \in Models, EndPull(m) \/ Fire(m) PROVE PullTyped'
  BY <1>10 DEF EndPull, Fire
<1>11. CASE DeleteAsks
  <2>1. PICK m \in Models : job' = IF m \in InFlight THEN [job EXCEPT ![m].stop = TRUE] ELSE job
    BY <1>11 DEF DeleteAsks
  <2>2. job' \in [Models -> Jobs]
    BY <2>1
  <2> QED
    BY <1>11, <2>2 DEF DeleteAsks
<1>12. CASE DeleteLoads \/ DeleteSaves \/ DeleteForgets \/ DeleteWipes \/ DeleteReads \/ DeleteErases
  BY <1>12 DEF DeleteLoads, DeleteSaves, DeleteForgets, DeleteWipes, DeleteReads, DeleteErases
<1>13. CASE Restart
  BY <1>13 DEF Restart, Jobs, NoJob, NoSwitch, Pendings, Nothing, Wishes
<1>14. CASE UNCHANGED switchVars
  BY <1>14 DEF switchVars
<1> QED
  BY <1>1, <1>2, <1>3, <1>4, <1>5, <1>6, <1>7, <1>8, <1>9, <1>10, <1>11, <1>12, <1>13, <1>14, <1>15
  DEF SwitchNext, Switching, Pulling, Deleting

(* So does the reconcile. *)
LEMMA RcTypedNext ==
  ASSUME ModelTypes, [SwitchNext]_switchVars
  PROVE  RcTyped'
<1> USE ModelConsts, PreferredIs DEF ModelTypes, RcTyped, swapVars, AskReconcile
<1>1. ASSUME NEW x \in Actors, Switching(x) PROVE RcTyped'
  BY <1>1 DEF Switching, Choose, PublishChoice, Look, MarkPending, Dispatch
<1>2. CASE PullModel \/ DeferRetune \/ Booting
  BY <1>2 DEF PullModel, DeferRetune, Booting, BootLooks, BootAsks, BootCommits, BootPulls
<1>3. CASE Reconciling
  BY <1>3 DEF Reconciling, RcTop, RcRead, RcCommit, RcTune, RcExit
<1>4. ASSUME NEW m \in Models, Pulling(m) PROVE RcTyped'
  BY <1>4 DEF Pulling, Land, PullFails, Stopped, CancelPull, Check,
       Commit, EndPull, Fire
<1>5. CASE Deleting
  BY <1>5 DEF Deleting, DeleteAsks, DeleteLoads, DeleteSaves, DeleteForgets, DeleteWipes, DeleteReads, DeleteErases
<1>7. CASE Restart
  BY <1>7 DEF Restart
<1>6. CASE UNCHANGED switchVars
  BY <1>6 DEF switchVars
<1> QED
  BY <1>1, <1>2, <1>3, <1>4, <1>5, <1>6, <1>7 DEF SwitchNext

(* So does the start of the process. *)
LEMMA BootTypedNext ==
  ASSUME ModelTypes, [SwitchNext]_switchVars
  PROVE  BootTyped'
<1> USE ModelConsts, PreferredIs DEF ModelTypes, BootTyped, restVars, Booted, NotBooted, Maybe
<1>1. ASSUME NEW x \in Actors, Switching(x) PROVE BootTyped'
  BY <1>1 DEF Switching, Choose, PublishChoice, Look, MarkPending, Dispatch
<1>2. CASE PullModel \/ DeferRetune \/ Reconciling
  BY <1>2 DEF PullModel, DeferRetune, Reconciling, RcTop, RcRead, RcCommit, RcTune, RcExit
<1>3. CASE Booting
  BY <1>3 DEF Booting, BootLooks, BootAsks, BootCommits, BootPulls
<1>4. ASSUME NEW m \in Models, Pulling(m) PROVE BootTyped'
  BY <1>4 DEF Pulling, Land, PullFails, Stopped, CancelPull, Check, Commit, EndPull, Fire
<1>5. CASE Deleting
  BY <1>5 DEF Deleting, DeleteAsks, DeleteLoads, DeleteSaves, DeleteForgets, DeleteWipes, DeleteReads, DeleteErases
<1>6. CASE Restart \/ UNCHANGED switchVars
  BY <1>6 DEF Restart, switchVars
<1> QED
  BY <1>1, <1>2, <1>3, <1>4, <1>5, <1>6 DEF SwitchNext

(* Every step keeps the types. *)
LEMMA ModelTypesNext ==
  ASSUME ModelTypes, [SwitchNext]_switchVars
  PROVE  ModelTypes'
  BY ChoiceTypedNext, CatalogTypedNext, PullTypedNext, RcTypedNext, BootTypedNext DEF ModelTypes

-----------------------------------------------------------------------------
(* What downloads deferred has a carrier, step by step. *)
LEMMA CarrierNext ==
  ASSUME ModelTypes, DeferredHasCarrier, [SwitchNext]_switchVars
  PROVE  DeferredHasCarrier'
<1> USE DEF DeferredHasCarrier, InFlight, pullVars, ModelTypes, PullTyped
<1>1. CASE UNCHANGED <<job, firing, deferred>>
  BY <1>1
<1>2. ASSUME NEW m, BeginPull(m), UNCHANGED <<firing, deferred>> PROVE DeferredHasCarrier'
  BY <1>2 DEF BeginPull
<1>3. ASSUME NEW m \in Models, NEW pc \in {"check", "commit", "end"}, JobGoto(m, pc), firing' = firing,
             deferred' # Nothing => deferred # Nothing \/ job[m].pc # "none"
      PROVE  DeferredHasCarrier'
  BY <1>3 DEF JobGoto
<1>4. ASSUME NEW m \in Models, job' = [job EXCEPT ![m].stop = TRUE], UNCHANGED <<firing, deferred>>
      PROVE  DeferredHasCarrier'
  BY <1>4
<1>5. ASSUME NEW x \in Actors, Switching(x) PROVE DeferredHasCarrier'
  BY <1>1, <1>2, <1>5 DEF Switching, Choose, PublishChoice, Look, MarkPending, Dispatch
<1>6. CASE PullModel \/ Booting
  BY <1>1, <1>2, <1>6 DEF PullModel, Booting, BootLooks, BootAsks, BootCommits, BootPulls
<1>7. CASE DeferRetune
  BY <1>7 DEF DeferRetune
<1>8. CASE Reconciling
  BY <1>1, <1>8 DEF Reconciling, RcTop, RcRead, RcCommit, RcTune, RcExit
<1>9. ASSUME NEW m \in Models, Land(m) \/ PullFails(m) \/ Stopped(m) PROVE DeferredHasCarrier'
  BY <1>3, <1>9 DEF Land, PullFails, Stopped
<1>10. ASSUME NEW m \in Models, Check(m) \/ Commit(m) PROVE DeferredHasCarrier'
  BY <1>3, <1>10 DEF Check, Commit
<1>11. ASSUME NEW m \in Models, CancelPull(m) PROVE DeferredHasCarrier'
  BY <1>4, <1>11 DEF CancelPull
<1>12. ASSUME NEW m \in Models, EndPull(m) PROVE DeferredHasCarrier'
  BY <1>12 DEF EndPull, NoJob
<1>13. ASSUME NEW m \in Models, Fire(m) PROVE DeferredHasCarrier'
  BY <1>13 DEF Fire
<1>14. CASE DeleteAsks
  BY <1>1, <1>4, <1>14 DEF DeleteAsks
<1>15. CASE DeleteLoads \/ DeleteSaves \/ DeleteForgets \/ DeleteWipes \/ DeleteReads \/ DeleteErases
  BY <1>1, <1>15 DEF DeleteLoads, DeleteSaves, DeleteForgets, DeleteWipes, DeleteReads, DeleteErases
<1>16. CASE Restart
  BY <1>16 DEF Restart
<1>17. CASE UNCHANGED switchVars
  BY <1>1, <1>17 DEF switchVars
<1> QED
  BY <1>5, <1>6, <1>7, <1>8, <1>9, <1>10, <1>11, <1>12, <1>13, <1>14, <1>15, <1>16, <1>17
  DEF SwitchNext, Pulling, Deleting

(* A row leaves ready only in a deletion that saves its catalog.           *)
LEMMA ReadyStays ==
  ASSUME ModelTypes, [SwitchNext]_switchVars, NEW m \in Models,
         Ready(m), ~Ready(m)'
  PROVE  DeleteSaves
<1> USE DEF Ready, pullVars, ModelTypes, CatalogTyped, Rows
<1>1. ASSUME NEW x \in Actors, Switching(x) PROVE FALSE
  BY <1>1 DEF Switching, Choose, PublishChoice, Look, MarkPending, Dispatch, BeginPull
<1>2. ~(PullModel \/ Booting \/ DeferRetune)
  BY DEF PullModel, Booting, BootLooks, BootAsks, BootCommits, BootPulls, DeferRetune, BeginPull
<1>3. ~(Reconciling \/ Restart \/ UNCHANGED switchVars)
  BY DEF Reconciling, RcTop, RcRead, RcCommit, RcTune, RcExit, Restart,
     switchVars
<1>4. ASSUME NEW n \in Models, Pulling(n) PROVE FALSE
  BY <1>4 DEF Pulling, Land, PullFails, Stopped, CancelPull, Check,
       Commit, EndPull, Fire
<1>5. ~(DeleteAsks \/ DeleteLoads \/ DeleteForgets \/ DeleteWipes \/ DeleteReads \/ DeleteErases)
  BY DEF DeleteAsks, DeleteLoads, DeleteForgets, DeleteWipes, DeleteReads, DeleteErases
<1> QED
  BY <1>1, <1>2, <1>3, <1>4, <1>5 DEF SwitchNext, Deleting

(* The deletion's copy shows no model ready that is not. *)
Copied == del.pc = "save" => \A m \in Models : del.row[m] = "ready" => Ready(m)

(* A step other than a deletion's save leaves what its copy holds ready. *)
LEMMA CopiedNext ==
  ASSUME ModelTypes, Copied, [SwitchNext]_switchVars
  PROVE  Copied'
<1> USE DEF ModelTypes, CatalogTyped, Copied
<1>1. CASE DeleteLoads
  BY <1>1 DEF DeleteLoads, pullVars, NoDelete, Ready, Deletes
<1>2. CASE DeleteAsks \/ DeleteSaves \/ DeleteForgets \/ DeleteWipes \/ DeleteReads \/ DeleteErases \/ Restart
  <2>1. NoDelete.pc = "idle" /\ NoDelete \in Deletes
    BY ModelConsts DEF NoDelete, Deletes, Rows
  <2>2. CASE DeleteAsks
    BY <2>1, <2>2 DEF DeleteAsks, Deletes
  <2>3. CASE DeleteSaves \/ DeleteErases \/ Restart
    BY <2>1, <2>3 DEF DeleteSaves, DeleteErases, Restart, Deletes
  <2>4. CASE DeleteForgets \/ DeleteWipes \/ DeleteReads
    BY <2>1, <2>4 DEF DeleteForgets, DeleteWipes, DeleteReads, Deletes
  <2> QED
    BY <1>2, <2>2, <2>3, <2>4
<1>3. ASSUME del' = del, ~DeleteSaves PROVE Copied'
  BY <1>3, ReadyStays
<1>4. CASE ~Deleting /\ ~Restart
  <2>1. del' = del
    BY <1>4 DEF SwitchNext, Switching, Choose, PublishChoice, Look, MarkPending, Dispatch,
         PullModel, DeferRetune, Booting, BootLooks, BootAsks, BootCommits, BootPulls,
         Reconciling, RcTop, RcRead, RcCommit, RcTune, RcExit,
         Pulling, Land, PullFails, Stopped, CancelPull, Check, Commit, EndPull, Fire, delVars, switchVars
  <2> QED
    BY <1>3, <1>4, <2>1 DEF Deleting
<1> QED
  BY <1>1, <1>2, <1>4 DEF Deleting

(* A download that runs is shown, as long as no deletion tore the catalog. *)
Shown == \A m \in Models : job[m].pc = "run" /\ ~job[m].stop /\ ~torn => row[m] \in {"fetching", "ready"}

(* A job that nobody cancelled keeps its row through every step. *)
LEMMA ShownNext ==
  ASSUME ModelTypes, Shown, [SwitchNext]_switchVars
  PROVE  Shown'
<1> USE DEF ModelTypes, CatalogTyped, PullTyped, Shown, Rows, Jobs, Ready, pullVars, delVars
<1>1. CASE UNCHANGED <<job, row, torn>>
  BY <1>1
<1>2. ASSUME NEW m, BeginPull(m), torn' = torn PROVE Shown'
  BY <1>2 DEF BeginPull
<1>3. ASSUME NEW x \in Actors, Switching(x) PROVE Shown'
  BY <1>1, <1>2, <1>3 DEF Switching, Choose, PublishChoice, Look, MarkPending, Dispatch
<1>4. CASE PullModel \/ Booting \/ DeferRetune
  BY <1>1, <1>2, <1>4 DEF PullModel, Booting, BootLooks, BootAsks, BootCommits, BootPulls, DeferRetune
<1>5. CASE Reconciling
  BY <1>1, <1>5 DEF Reconciling, RcTop, RcRead, RcCommit, RcTune, RcExit
<1>6. ASSUME NEW m \in Models, Land(m) \/ PullFails(m) \/ EndPull(m) PROVE Shown'
  BY <1>6 DEF Land, PullFails, EndPull, JobGoto, NoJob
<1>7. ASSUME NEW m \in Models, Stopped(m) \/ CancelPull(m) \/ Check(m) \/ Commit(m)
             \/ Fire(m)
      PROVE  Shown'
  BY <1>7 DEF Stopped, CancelPull, Check, Commit, Fire, JobGoto
<1>8. CASE DeleteAsks
  BY <1>8 DEF DeleteAsks
<1>9. CASE DeleteSaves
  <2>1. CASE UNCHANGED <<row, torn>>
    BY <1>1, <1>9, <2>1 DEF DeleteSaves
  <2>2. CASE torn' = (torn \/ del.row # row \/ del.active # active \/ del.m \in InFlight)
             /\ row' = [del.row EXCEPT ![del.m] = "none"] /\ job' = job
    <3> SUFFICES ASSUME NEW m \in Models, job[m].pc = "run", ~job[m].stop, ~torn' PROVE row'[m] \in {"fetching", "ready"}
      BY <2>2
    <3>1. ~torn /\ del.row = row /\ del.m # m
      BY <2>2 DEF InFlight
    <3> QED
      BY <2>2, <3>1
  <2> QED
    BY <1>9, <2>1, <2>2 DEF DeleteSaves
<1>10. CASE DeleteLoads \/ DeleteForgets \/ DeleteWipes \/ DeleteReads \/ DeleteErases
  BY <1>1, <1>10 DEF DeleteLoads, DeleteForgets, DeleteWipes, DeleteReads, DeleteErases
<1>11. CASE Restart
  BY <1>11 DEF Restart, NoJob
<1>12. CASE UNCHANGED switchVars
  BY <1>1, <1>12 DEF switchVars
<1> QED
  BY <1>3, <1>4, <1>5, <1>6, <1>7, <1>8, <1>9, <1>10, <1>11, <1>12 DEF SwitchNext, Pulling, Deleting

-----------------------------------------------------------------------------
(* What is in force is what was chosen last, unless that choice was hindered: a deletion wipes only a choice of its *)
(* own model, since one published in its way is hindered. *)
InForce == ~hindered => wanted = Preferred /\ (del.pc = "wipe" => override = del.m)

(* Only a choice, a deletion's wipe and a restart change the preference, and each says what is wanted from then on. *)
LEMMA InForceNext ==
  ASSUME ModelTypes, InForce, [SwitchNext]_switchVars
  PROVE  InForce'
<1> USE ModelConsts DEF ModelTypes, InForce, Preferred, prefVars, histVars, delVars
<1>1. ASSUME UNCHANGED <<override, cfg, wanted>>, hindered => hindered', del'.pc = "wipe" => del' = del
      PROVE  InForce'
  BY <1>1
<1>2. ASSUME NEW x \in Actors, Choose(x) \/ Look(x) \/ MarkPending(x) \/ Dispatch(x) PROVE InForce'
  BY <1>1, <1>2 DEF Choose, Look, MarkPending, Dispatch
<1>3. ASSUME NEW x \in Actors, PublishChoice(x) PROVE InForce'
  BY <1>3 DEF PublishChoice, ChoiceTyped
<1>4. CASE PullModel \/ DeferRetune
  BY <1>1, <1>4 DEF PullModel, DeferRetune
<1>5. CASE Booting
  BY <1>1, <1>5 DEF Booting, BootLooks, BootAsks, BootCommits, BootPulls, Activate, Hindered
<1>6. CASE Reconciling
  BY <1>1, <1>6 DEF Reconciling, RcTop, RcRead, RcCommit, RcTune, RcExit, Activate, Hindered
<1>7. ASSUME NEW n \in Models, Pulling(n) PROVE InForce'
  BY <1>1, <1>7 DEF Pulling, Land, PullFails, Stopped, CancelPull, Check, Commit, EndPull, Fire, Activate, Hindered
<1>8. CASE DeleteAsks \/ DeleteLoads \/ DeleteSaves
  <2>1. CASE DeleteAsks
    BY <1>1, <2>1 DEF DeleteAsks, NoDelete
  <2>2. CASE DeleteLoads
    BY <1>1, <2>2 DEF DeleteLoads, NoDelete
  <2>3. CASE DeleteSaves
    <3>1. /\ del' = NoDelete \/ del' = [NoDelete EXCEPT !.pc = "forget", !.m = del.m]
          /\ UNCHANGED <<override, cfg, wanted, hindered>>
      BY <2>3 DEF DeleteSaves
    <3>2. NoDelete.pc = "idle" /\ NoDelete \in Deletes
      BY DEF NoDelete, Deletes, Rows
    <3>3. del'.pc # "wipe"
      BY <3>1, <3>2 DEF Deletes
    <3> QED
      BY <1>1, <3>1, <3>3
  <2> QED
    BY <1>8, <2>1, <2>2, <2>3
<1>9. CASE DeleteForgets
  BY <1>9 DEF DeleteForgets, CatalogTyped, Deletes
<1>10. CASE DeleteWipes
  BY <1>10 DEF DeleteWipes, CatalogTyped, Deletes, ChoiceTyped
<1>11. CASE DeleteReads \/ DeleteErases
  <2>1. del'.pc # "wipe"
    BY <1>11 DEF DeleteReads, DeleteErases, NoDelete, CatalogTyped, Deletes
  <2> QED
    BY <1>1, <1>11, <2>1 DEF DeleteReads, DeleteErases
<1>12. CASE Restart
  BY <1>12 DEF Restart, NoDelete, ChoiceTyped
<1>13. CASE UNCHANGED switchVars
  BY <1>1, <1>13 DEF switchVars
<1> QED
  BY <1>2, <1>3, <1>4, <1>5, <1>6, <1>7, <1>8, <1>9, <1>10, <1>11, <1>12, <1>13 DEF SwitchNext, Switching, Deleting

(* The choice in force is served or on its way, unless it was hindered. *)
OnTheWay == \A m \in Models : wanted = m /\ Ready(m) /\ ~hindered /\ ~reached => OnItsWay(m)

(* Every step that ends one way to the switch leaves it made or another way open. *)
LEMMA ChoiceNext ==
  ASSUME ModelTypes, Copied, InForce, OnTheWay, [SwitchNext]_switchVars
  PROVE  OnTheWay'
<1> SUFFICES ASSUME NEW m \in Models, wanted' = m, Ready(m)', ~hindered', ~reached'
             PROVE  OnItsWay(m)'
  BY DEF OnTheWay
<1> USE ModelConsts DEF ModelTypes, Ready, pullVars, prefVars, swapVars, histVars, restVars, delVars
<1>1. wanted = m /\ Ready(m) /\ ~hindered /\ ~reached => OnItsWay(m)
  BY DEF OnTheWay
<1>0. wanted = m /\ ~hindered => Preferred = m
  BY DEF InForce
<1>2. ASSUME OnItsWay(m), UNCHANGED <<boot, swapFlag, rc, act, job>> PROVE OnItsWay(m)'
  BY <1>2 DEF OnItsWay
<1>3. ASSUME NEW x \in Actors, Choose(x) PROVE OnItsWay(m)'
  BY <1>1, <1>3 DEF Choose, OnItsWay, ChoiceTyped
<1>4. ASSUME NEW x \in Actors, PublishChoice(x) PROVE OnItsWay(m)'
  BY <1>4 DEF PublishChoice, ActGoto, OnItsWay, ChoiceTyped
<1>5. ASSUME NEW x \in Actors, Look(x) PROVE OnItsWay(m)'
  BY <1>1, <1>5 DEF Look, ActGoto, Leave, AskReconcile, OnItsWay, ChoiceTyped
<1>6. ASSUME NEW n, BeginPull(n), Ready(m)' PROVE Ready(m) /\ (job[m].pc \in {"check", "commit"} => job'[m] = job[m])
  BY <1>6 DEF BeginPull, InFlight, CatalogTyped, PullTyped, Rows
<1>7. ASSUME NEW x \in Actors, MarkPending(x) \/ Dispatch(x) PROVE OnItsWay(m)'
  BY <1>1, <1>6, <1>7 DEF MarkPending, Dispatch, ActGoto, Leave, OnItsWay, ChoiceTyped
<1>8. CASE PullModel \/ DeferRetune
  BY <1>1, <1>6, <1>8 DEF PullModel, DeferRetune, AskReconcile, OnItsWay
<1>9. CASE Booting
  <2>1. CASE BootLooks
    <3>1. UNCHANGED <<swapFlag, rc, act, job, row, wanted, reached>>
      BY <2>1 DEF BootLooks
    <3>2. CASE Hindered(Preferred)
      <4>1. ~hindered /\ Preferred # wanted
        BY <3>2, Zenon DEF Hindered
      <4> QED
        BY <1>0, <3>1, <4>1
    <3>3. CASE UNCHANGED hindered /\ boot' = [pc |-> IF Ready(Preferred) THEN "ask" ELSE "pull", m |-> Preferred]
      BY <1>1, <1>0, <3>1, <3>3 DEF OnItsWay
    <3>4. CASE UNCHANGED hindered /\ Preferred = NoModel
      BY <1>1, <1>0, <3>1, <3>4
    <3> QED
      BY <2>1, <3>2, <3>3, <3>4 DEF BootLooks
  <2>2. CASE BootAsks
    BY <1>1, <1>0, <2>2 DEF BootAsks, Hindered, OnItsWay, BootTyped
  <2>3. CASE BootCommits
    BY <1>1, <2>3 DEF BootCommits, Activate, Hindered, OnItsWay
  <2>4. CASE BootPulls
    BY <1>1, <1>6, <2>4 DEF BootPulls, OnItsWay
  <2> QED
    BY <1>9, <2>1, <2>2, <2>3, <2>4 DEF Booting
<1>10. CASE Reconciling
  <2>1. CASE RcTop
    BY <1>1, <2>1 DEF RcTop, OnItsWay, RcTyped
  <2>2. CASE RcRead
    BY <1>1, <1>0, <2>2 DEF RcRead, OnItsWay, RcTyped
  <2>3. CASE RcCommit
    BY <1>1, <2>3 DEF RcCommit, Activate, Hindered, OnItsWay, RcTyped
  <2>4. CASE RcTune
    BY <1>1, <2>4 DEF RcTune, OnItsWay, RcTyped
  <2>5. CASE RcExit
    BY <1>1, <2>5 DEF RcExit, OnItsWay, RcTyped
  <2> QED
    BY <1>10, <2>1, <2>2, <2>3, <2>4, <2>5 DEF Reconciling
<1>11. ASSUME NEW n \in Models, Land(n) PROVE OnItsWay(m)'
  BY <1>1, <1>11 DEF Land, JobGoto, OnItsWay, PullTyped, Jobs, CatalogTyped, Rows
<1>12. ASSUME NEW n \in Models, PullFails(n) \/ Stopped(n) \/ CancelPull(n) PROVE OnItsWay(m)'
  BY <1>1, <1>12 DEF PullFails, Stopped, CancelPull, JobGoto, OnItsWay, PullTyped, Jobs, CatalogTyped, Rows
<1>13. ASSUME NEW n \in Models, Check(n) PROVE OnItsWay(m)'
  BY <1>1, <1>0, <1>13 DEF Check, JobGoto, OnItsWay, PullTyped, Jobs
<1>14. ASSUME NEW n \in Models, Commit(n) PROVE OnItsWay(m)'
  <2>1. /\ job' = [job EXCEPT ![n].pc = "end"] /\ UNCHANGED <<row, wanted, boot, swapFlag, rc, act>>
    BY <1>14 DEF Commit, Activate, JobGoto
  <2>2. CASE n = m
    BY <1>14, <2>1, <2>2 DEF Commit, Activate, Hindered
  <2>3. CASE n # m
    <3>3. UNCHANGED hindered \/ Hindered(n)
      BY <1>14 DEF Commit, Activate
    <3>4. UNCHANGED reached \/ (reached' = (reached \/ n = wanted))
      BY <1>14 DEF Commit, Activate
    <3>5. ~hindered
      <4>1. CASE UNCHANGED hindered
        BY <4>1
      <4>2. CASE hindered' = (hindered \/ n = wanted)
        BY <4>2, Zenon
      <4> QED
        BY <3>3, <4>1, <4>2 DEF Hindered
    <3>6. ~reached
      <4>1. CASE UNCHANGED reached
        BY <4>1
      <4>2. CASE reached' = (reached \/ n = wanted)
        BY <4>2, Zenon
      <4> QED
        BY <3>4, <4>1, <4>2
    <3>1. OnItsWay(m)
      BY <1>1, <2>1, <3>5, <3>6
    <3>2. job'[m] = job[m]
      BY <2>1, <2>3 DEF PullTyped
    <3> QED
      BY <2>1, <3>1, <3>2 DEF OnItsWay
  <2> QED
    BY <2>2, <2>3
<1>15. ASSUME NEW n \in Models, EndPull(n) \/ Fire(n) PROVE OnItsWay(m)'
  BY <1>1, <1>15 DEF EndPull, Fire, AskReconcile, NoJob, OnItsWay, PullTyped, Jobs, CatalogTyped, Rows
<1>16. CASE DeleteAsks
  BY <1>1, <1>16 DEF DeleteAsks, OnItsWay, PullTyped, Jobs
<1>17. CASE DeleteLoads \/ DeleteForgets \/ DeleteReads \/ DeleteErases
  BY <1>1, <1>2, <1>17 DEF DeleteLoads, DeleteForgets, DeleteReads, DeleteErases
<1>18. CASE DeleteSaves
  BY <1>1, <1>2, <1>18 DEF DeleteSaves, Copied, CatalogTyped, Deletes, Rows
<1>19. CASE DeleteWipes
  BY <1>1, <1>2, <1>19 DEF DeleteWipes
<1>20. CASE Restart
  BY <1>20 DEF Restart, NotBooted, OnItsWay
<1>21. CASE UNCHANGED switchVars
  BY <1>1, <1>2, <1>21 DEF switchVars
<1> QED
  BY <1>3, <1>4, <1>5, <1>7, <1>8, <1>9, <1>10, <1>11, <1>12, <1>13, <1>14, <1>15, <1>16, <1>17, <1>18, <1>19, <1>20,
     <1>21 DEF SwitchNext, Switching, Pulling, Deleting

(* All of it together. *)
ModelInv == ModelTypes /\ DeferredHasCarrier /\ Copied /\ Shown /\ InForce /\ OnTheWay

(* The invariant, whose parts rest on the types and on Copied. *)
LEMMA ModelInvAlways == SwitchSpec => []ModelInv
<1>1. SwitchInit => ModelInv
  <2> SUFFICES ASSUME SwitchInit PROVE ModelInv
    OBVIOUS
  <2>1. DeferredHasCarrier /\ Copied /\ Shown /\ InForce /\ OnTheWay
    BY DEF SwitchInit, DeferredHasCarrier, Copied, Shown, InForce, OnTheWay, Preferred, NoJob, NoDelete
  <2> QED
    BY <2>1, ModelInit DEF ModelInv
<1>2. ModelInv /\ [SwitchNext]_switchVars => ModelInv'
  BY ModelTypesNext, CarrierNext, CopiedNext, ShownNext, InForceNext, ChoiceNext DEF ModelInv
<1> QED
  BY <1>1, <1>2, PTL DEF SwitchSpec

(* DeferredHasCarrier: what a finished download asked of the engine is     *)
(* neither lost nor left without a goroutine to ask it (endPull).          *)
THEOREM DeferredAlways == SwitchSpec => []DeferredHasCarrier
<1>1. ModelInv => DeferredHasCarrier
  BY DEF ModelInv
<1> QED
  BY <1>1, ModelInvAlways, PTL

(* RunningHasRow: a download that runs has its row, whatever cancels,      *)
(* failures and joins meet it (spawnPull, settleCancelledPull).            *)
THEOREM RunningShown == SwitchSpec => []RunningHasRow
<1>1. ModelInv => RunningHasRow
  <2> SUFFICES ASSUME ModelInv PROVE RunningHasRow
    OBVIOUS
  <2>1. /\ \A x \in Actors : act[x].m \in Maybe /\ (act[x].pc # "idle" => act[x].m # NoModel)
        /\ file \in Maybe /\ cfg \in Maybe /\ wanted \in Maybe /\ override \in Maybe \cup {Unset}
    BY DEF ModelInv, ModelTypes, ChoiceTyped
  <2>2. row \in Rows /\ active \in Maybe /\ del.m \in Maybe
    BY DEF ModelInv, ModelTypes, CatalogTyped, Deletes
  <2>3. firing \subseteq Models /\ pending.m \in Maybe /\ rc.t \in Maybe /\ boot.m \in Maybe
    BY DEF ModelInv, ModelTypes, PullTyped, Pendings, RcTyped, BootTyped
  <2> QED
    BY <2>1, <2>2, <2>3 DEF RunningHasRow, SwitchTypeOK, Rows, ModelInv, Shown
<1> QED
  BY <1>1, ModelInvAlways, PTL

(* ChoiceNotForgotten: the choice published last, once it is on disk, is   *)
(* in force, and is served or its switch is still asked for, through every *)
(* download, cancel, second choice, deletion and restart; but for a choice *)
(* that met what the code cannot get past: a catalog that cannot be read   *)
(* or written when the switch is due, an engine that does not show the     *)
(* model at the start, a deletion about to wipe the choice before it       *)
(* (SwapPreferredBuild, runPullJob, forgetDeletedModel).                   *)
THEOREM ChoiceAlways == SwitchSpec => []ChoiceNotForgotten
<1>1. ModelInv => ChoiceNotForgotten
  BY DEF ModelInv, InForce, OnTheWay, ChoiceNotForgotten
<1> QED
  BY <1>1, ModelInvAlways, PTL

(* ReadyKept: only a deletion takes the record of a model that is on disk  *)
(* (recordPullState, settleCancelledPull).                                 *)
THEOREM ReadyAlways == SwitchSpec => ReadyKept
<1>1. ModelInv /\ [SwitchNext]_switchVars =>
        [\A m \in Models : Ready(m) /\ ~Ready(m)' => del.pc = "save"]_switchVars
  BY ReadyStays DEF ModelInv, DeleteSaves
<1> QED
  BY <1>1, ModelInvAlways, PTL DEF ReadyKept, SwitchSpec
=================================================================================
