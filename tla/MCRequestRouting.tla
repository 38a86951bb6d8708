-------------------------- MODULE MCRequestRouting --------------------------
(* RequestRouting for TLC: the instances the runs start from. *)
EXTENDS RequestRouting

CONSTANTS k, own, other, pub

Base == [asks |-> {<<None, None>>}, places |-> {own, pub, Self}, caps |-> {1},
         answers |-> {"warm", "full"}, rounds |-> 1, changes |-> 0]

(* Turns of one conversation, and one that a model row pins to the public  *)
(* peer.                                                                   *)
Conversation ==
  [Base EXCEPT !.asks = {<<k, None>>, <<k, pub>>}]

(* Two of the user's computers, warm and cold. *)
Residency ==
  [Base EXCEPT !.places = {own, other}, !.answers = {"warm", "cold"}]

(* A peer that changes what it advertises between two maps. *)
NewCapacity ==
  [Base EXCEPT !.places = {own}, !.caps = {1, 2}, !.changes = 1]

(* Rounds that are tried again, pinned and not. *)
Retries ==
  [Base EXCEPT !.asks = {<<None, None>>, <<None, own>>}, !.places = {own, pub},
               !.rounds = 3, !.answers = {"warm", "down"}]

Routing == {Conversation, Residency, NewCapacity, Retries}
=============================================================================
