------------------------ MODULE MCInviteRegistration ------------------------
(* Small instances of InviteRegistration for TLC. *)
EXTENDS InviteRegistration, TLC

(* Requests of one kind, and addresses, are interchangeable.               *)
Symmetry ==
  Permutations(Emails) \cup Permutations(Claims) \cup Permutations(SignUps)
    \cup Permutations(Invites)
=============================================================================
