------------------------- MODULE MCSessionLifecycle -------------------------
(* SessionLifecycle for TLC: the instances the runs start from. *)
EXTENDS SessionLifecycle

(* Two sign-ins and sign-outs, two failures, from an empty state dir. *)
SignIns == [features |-> {"login", "reauth", "logout"},
            logins |-> 2, builds |-> 4, fails |-> 2]

(* A boot over an enrollment, with a re-auth, a Node Key rotation, a state *)
(* dir that is removed and one failure.                                    *)
BootAndRotate ==
  [features |-> {"boot", "enrolled", "login", "reauth", "rotate", "vanish"},
   logins |-> 1, builds |-> 5, fails |-> 1]

(* Two sign-ins, with Node Key rotations between and during them.  *)
Rotations ==
  [features |-> {"login", "reauth", "rotate"},
   logins |-> 2, builds |-> 5, fails |-> 0]

Lifecycle == {SignIns, BootAndRotate, Rotations}

(* A session, a Node Key rotation and a sign-out. *)
RotateAndLogout == {[features |-> {"login", "rotate", "logout"},
                     logins |-> 1, builds |-> 4, fails |-> 0]}
=============================================================================
