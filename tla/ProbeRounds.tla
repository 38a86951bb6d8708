---------------------------- MODULE ProbeRounds ----------------------------
(***************************************************************************)
(* What the disco subsystem promises the reconciler about a direct probe   *)
(* round (internal/network/disco/types.go, EventProbeRoundFinalized): the  *)
(* round is reported at most once, only when every probe of it has been    *)
(* answered or has missed, and as a success exactly when one was answered. *)
(* A round may also be lost and then is never reported. How probes are     *)
(* matched, counted and aged is DiscoRounds' business, which implements    *)
(* this specification.                                                     *)
(***************************************************************************)
EXTENDS Naturals

CONSTANT MaxRounds    \* bound: rounds probed

Rounds == 1..MaxRounds

\* st: where the round is; out: probes sent and not accounted for;
\* good: a probe of it has been answered, and, once reported, what was said
VARIABLE round

RoundStates == {"new", "sending", "open", "reported", "lost"}

TypeOK == round \in [Rounds -> [st : RoundStates, out : Nat, good : BOOLEAN]]

New == [st |-> "new", out |-> 0, good |-> FALSE]

Init == round = [r \in Rounds |-> New]

(* A round whose sends are over is reported with its last result. *)
Settled(a) == IF a.st = "open" /\ a.out = 0 THEN [a EXCEPT !.st = "reported"] ELSE a

Begin(a, b)  == a.st = "new" /\ b = [a EXCEPT !.st = "sending"]
Send(a, b)   == a.st = "sending" /\ b = [a EXCEPT !.out = @ + 1]
Answer(a, b) == /\ a.st \in {"sending", "open"} /\ a.out > 0
                /\ b = Settled([a EXCEPT !.out = @ - 1, !.good = TRUE])
Miss(a, b)   == /\ a.st \in {"sending", "open"}
                /\ \E n \in 1..a.out : b = Settled([a EXCEPT !.out = @ - n])
Close(a, b)  == a.st = "sending" /\ b = Settled([a EXCEPT !.st = "open"])
Lose(a, b)   == a.st \in {"sending", "open"} /\ b = [st |-> "lost", out |-> 0, good |-> FALSE]

RoundStep(a, b) ==
  Begin(a, b) \/ Send(a, b) \/ Answer(a, b) \/ Miss(a, b) \/ Close(a, b) \/ Lose(a, b)

(* Several rounds may miss probes in one step: one sweep ages them all. *)
Next ==
  /\ round' \in [Rounds -> [st : RoundStates, out : Nat, good : BOOLEAN]]
  /\ \A r \in Rounds : round'[r] = round[r] \/ RoundStep(round[r], round'[r])

Spec == Init /\ [][Next]_round
=============================================================================
