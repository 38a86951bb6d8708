------------------------------ MODULE PeerWait ------------------------------
(***************************************************************************)
(* The wait of one streamed turn for its peer's first byte                 *)
(* (gateway/peerwait.go, the head of proxyAnthropicStream): the request,   *)
(* the watch that asks the peer's health while it waits, the ceiling's     *)
(* timer, and who of them decides how the turn ends.                       *)
(*                                                                         *)
(* Timers are late by any amount; what the peer's health and the map say   *)
(* of it is arbitrary. A leg on this device has no watch and is not here.  *)
(***************************************************************************)
EXTENDS Integers

CONSTANTS Policies, \* the wait policies an instance starts from
          Nil,
          Horizon   \* bound: the last instant

(* waitPolicyFor, peerLivenessFor: a flat budget, or a watch whose ceiling *)
(* is longer than its grace (the budget).                                  *)
Policy == [budget : 1..Horizon, watch : BOOLEAN, ceiling : 0..Horizon,
           interval : 1..Horizon]

ASSUME PolicyAssumption ==
  /\ Horizon \in Nat \ {0} /\ Policies \subseteq Policy
  /\ \A p \in Policies : p.watch => p.ceiling > p.budget

Timeout     == "peer_ttfb_timeout"
StillBusy   == "peer_still_busy"
Stopped     == "peer_stopped_serving"
Unreachable == "peer_unreachable"
Reasons     == {Timeout, StillBusy, Stopped, Unreachable}
Outcomes    == Reasons \cup {"stream", "dispatch_failed", "client_disconnected"}

ASSUME NoneAssumption == Nil \notin Outcomes

Verdicts == {"working", "idle", "silent", "unknowable"}
Misses   == 2 \* peerLivenessMisses

VARIABLES
  policy, now,
  request,  \* postToEngine: "open", "answered" or "failed"
  client,   \* the client is there
  cancelled, \* the watch has cancelled the request
  reason, disarmed, \* preCommitWatch
  stopped,  \* the watch's context is done
  timer,    \* the flat or the ceiling's timer: "armed", "tripped", "off"
  loop,     \* the watch goroutine
  wake,     \* when it goes on
  misses, working,
  finding,  \* the reason it returns
  heard,    \* its last two verdicts, the older first
  outcome   \* how the turn ended, or Nil

waitVars == <<policy, now, request, client, cancelled, reason, disarmed, stopped, timer,
             loop, wake, misses, working, finding, heard, outcome>>

leg   == <<request, client, outcome, disarmed>>
watch == <<loop, wake, misses, working, finding, heard>>

WaitTypeOK ==
  /\ policy \in Policies /\ now \in 0..Horizon
  /\ request \in {"open", "answered", "failed"} /\ outcome \in Outcomes \cup {Nil}
  /\ client \in BOOLEAN /\ cancelled \in BOOLEAN /\ disarmed \in BOOLEAN
  /\ stopped \in BOOLEAN /\ working \in BOOLEAN
  /\ reason \in Reasons \cup {Nil} /\ finding \in Reasons \cup {Nil}
  /\ timer \in {"armed", "tripped", "off"}
  /\ loop \in {"sleep", "check", "probe", "trip", "cancel", "done"}
  /\ wake \in 0..2 * Horizon /\ misses \in 0..Misses
  /\ heard \in (Verdicts \cup {Nil}) \X (Verdicts \cup {Nil})

(* armPreCommitWatch, and the request under way. *)
WaitInit ==
  /\ policy \in Policies /\ now = 0
  /\ request = "open" /\ client = TRUE /\ cancelled = FALSE
  /\ reason = Nil /\ disarmed = FALSE /\ stopped = FALSE
  /\ timer = "armed"
  /\ loop = (IF policy.watch THEN "sleep" ELSE "done")
  /\ wake = (IF policy.watch THEN policy.budget ELSE 0)
  /\ misses = 0 /\ working = FALSE /\ finding = Nil
  /\ heard = <<Nil, Nil>> /\ outcome = Nil

-----------------------------------------------------------------------------
(* The request *)

Tick ==
  /\ now < Horizon /\ outcome = Nil /\ now' = now + 1
  /\ UNCHANGED <<policy, request, client, cancelled, reason, disarmed, stopped, timer,
                 loop, wake, misses, working, finding, heard, outcome>>

(* Response headers, which may come after the request was cancelled. *)
Headers ==
  /\ request = "open" /\ request' = "answered"
  /\ UNCHANGED <<policy, now, client, cancelled, reason, disarmed, stopped, timer,
                 watch, outcome>>

(* The transport fails, on its own or for a context that is done. *)
Fails ==
  /\ request = "open" /\ request' = "failed"
  /\ UNCHANGED <<policy, now, client, cancelled, reason, disarmed, stopped, timer,
                 watch, outcome>>

HangUp ==
  /\ client /\ outcome = Nil /\ client' = FALSE /\ stopped' = TRUE
  /\ UNCHANGED <<policy, now, request, cancelled, reason, disarmed, timer, watch,
                 outcome>>

(* disarm, once postToEngine has returned, and what becomes of the turn. *)
Disarm ==
  /\ request # "open" /\ outcome = Nil
  /\ disarmed' = TRUE /\ stopped' = TRUE
  /\ timer' = IF timer = "armed" THEN "off" ELSE timer
  /\ outcome' = IF reason # Nil THEN reason
                ELSE IF request = "answered" THEN "stream"
                ELSE IF client THEN "dispatch_failed" ELSE "client_disconnected"
  /\ UNCHANGED <<policy, now, request, client, cancelled, reason, watch>>

-----------------------------------------------------------------------------
(* The verdict *)

(* Mutant: the abort is not checked against the headers. *)
TripLate(why) == reason' = IF reason # Nil THEN reason ELSE why

(* preCommitWatch.trip under its lock: the first to decide wins, and the   *)
(* headers win against both. The cancel follows outside the lock.          *)
Trip(why) == reason' = IF disarmed \/ reason # Nil THEN reason ELSE why

Took(before, after) == before = Nil /\ after # Nil

(* Mutant: the timer only ends the watch. *)
TimerStops ==
  /\ timer = "armed" /\ timer' = "off" /\ stopped' = TRUE
  /\ now >= (IF policy.watch THEN policy.ceiling ELSE policy.budget)
  /\ UNCHANGED <<policy, now, leg, cancelled, reason, watch>>

(* The timer's function: the flat budget, or the ceiling, which also ends  *)
(* the watch.                                                              *)
TimerFires ==
  /\ timer = "armed"
  /\ now >= (IF policy.watch THEN policy.ceiling ELSE policy.budget)
  /\ Trip(Timeout)
  /\ timer' = IF Took(reason, reason') THEN "tripped" ELSE "off"
  /\ stopped' = (stopped \/ (policy.watch /\ timer' = "off"))
  /\ UNCHANGED <<policy, now, leg, cancelled, watch>>

TimerCancels ==
  /\ timer = "tripped" /\ timer' = "off" /\ cancelled' = TRUE
  /\ stopped' = (stopped \/ policy.watch)
  /\ UNCHANGED <<policy, now, leg, reason, watch>>

-----------------------------------------------------------------------------
(* watchPeerWhileItWorks *)

Returns(why) == loop' = "trip" /\ finding' = why

Wakes ==
  /\ loop = "sleep"
  /\ \/ stopped /\ Returns(Nil)
     \/ ~stopped /\ now >= wake /\ loop' = "check" /\ UNCHANGED finding
  /\ UNCHANGED <<policy, now, leg, cancelled, reason, stopped, timer, wake, misses,
                 working, heard>>

Check ==
  /\ loop = "check"
  /\ \/ now >= policy.ceiling /\ Returns(IF working THEN StillBusy ELSE Timeout)
     \/ now < policy.ceiling /\ loop' = "probe" /\ UNCHANGED finding
  /\ UNCHANGED <<policy, now, leg, cancelled, reason, stopped, timer, wake, misses,
                 working, heard>>

(* classifyPeerWork, of the answer to a probe and of what the map says of  *)
(* the peer's engine.                                                      *)
Probes == [outcome : {"ok", "legacy", "auth", "none"}, ready : BOOLEAN, busy : BOOLEAN]
Facts  == [known : BOOLEAN, live : BOOLEAN]

Classify(probe, facts) ==
  IF probe.outcome \in {"legacy", "auth"} THEN "unknowable"
  ELSE IF probe.outcome = "none" THEN "silent"
  ELSE IF (facts.known => facts.live) /\ probe.ready /\ probe.busy THEN "working"
  ELSE "idle"

(* Mutant: a miss is never forgotten. *)
MissesKept(v) == IF v = "silent" THEN misses + 1 ELSE misses

(* Two in a row count, not two in all. *)
MissesAfter(v) == IF v = "silent" THEN misses + 1 ELSE 0

(* The answer of a probe, which has an interval to come; the next check is *)
(* an interval later, or at the ceiling.                                   *)
Answer ==
  /\ loop = "probe"
  /\ \E p \in Probes, f \in Facts :
       LET v == Classify(p, f) IN
       /\ heard' = <<heard[2], v>>
       /\ misses' = MissesAfter(v) /\ working' = (v = "working")
       /\ \/ v = "idle" /\ Returns(Stopped) /\ UNCHANGED wake
          \/ v = "unknowable" /\ Returns(Timeout) /\ UNCHANGED wake
          \/ v = "silent" /\ misses' >= Misses /\ Returns(Unreachable) /\ UNCHANGED wake
          \/ /\ v = "working" \/ (v = "silent" /\ misses' < Misses)
             /\ \/ stopped /\ Returns(Nil) /\ UNCHANGED wake
                \/ /\ ~stopped /\ loop' = "sleep" /\ UNCHANGED finding
                   /\ wake' = IF policy.ceiling - now < policy.interval
                              THEN policy.ceiling ELSE now + policy.interval
  /\ UNCHANGED <<policy, now, leg, cancelled, reason, stopped, timer>>

LoopTrips ==
  /\ loop = "trip"
  /\ IF finding = Nil THEN UNCHANGED reason ELSE Trip(finding)
  /\ loop' = IF Took(reason, reason') THEN "cancel" ELSE "done"
  /\ UNCHANGED <<policy, now, leg, cancelled, stopped, timer, wake, misses, working,
                 finding, heard>>

LoopCancels ==
  /\ loop = "cancel" /\ loop' = "done" /\ cancelled' = TRUE
  /\ UNCHANGED <<policy, now, leg, reason, stopped, timer, wake, misses, working,
                 finding, heard>>

-----------------------------------------------------------------------------
Watch == Wakes \/ Check \/ Answer \/ LoopTrips \/ LoopCancels
Timer == TimerFires \/ TimerCancels

WaitNext == Tick \/ Headers \/ Fails \/ HangUp \/ Disarm \/ Watch \/ Timer

WaitSpec == WaitInit /\ [][WaitNext]_waitVars

(* Timers fire, goroutines run, a probe has an interval; the peer need     *)
(* never answer, and a request ends for certain only when its context is   *)
(* done.                                                                   *)
WaitFairness ==
  /\ WF_waitVars(Tick) /\ WF_waitVars(Timer) /\ WF_waitVars(Watch) /\ WF_waitVars(Disarm)
  /\ WF_waitVars((cancelled \/ ~client) /\ Fails)

WaitFairSpec == WaitSpec /\ WaitFairness

-----------------------------------------------------------------------------
(* Properties *)

(* "a decision reached at the same moment headers arrived loses to the     *)
(* headers" (peerwait.go:317): a turn whose stream has begun is not cut by *)
(* the watch or by a timer that was already running, and one that is cut   *)
(* is reported as what the watch found, not as a failure of the dispatch   *)
(* or of the client.                                                       *)
StreamNotCut == outcome = "stream" => ~cancelled /\ reason = Nil
CutIsNamed   == cancelled /\ outcome # Nil => outcome = reason
CutsAreClean == WaitTypeOK /\ StreamNotCut /\ CutIsNamed

(* "a probe that does not come back is not evidence about the peer"        *)
(* (peerwait.go:55): a turn ends with an unreachable peer only when its    *)
(* last two answers were lost, and never before the grace.                 *)
SilentTwice ==
  /\ reason = Unreachable => heard = <<"silent", "silent">>
  /\ reason # Nil => now >= policy.budget

(* No turn waits for ever for a peer that never answers. *)
TurnEnds == <>(outcome # Nil)
=============================================================================
