----------------------------- MODULE SeatLedger -----------------------------
(***************************************************************************)
(* The abstract promise of the closed-alpha seat accounting: an invitation *)
(* holds a seat, the holder may take it, seats are given back, and at no   *)
(* moment are more than Cap seats occupied.  InviteRegistration (rows,     *)
(* tickets, sign-ups, clocks) and CapacityLocks (locks) implement it.      *)
(***************************************************************************)
EXTENDS Naturals, FiniteSets

CONSTANTS
  Invites,  \* identities of invitation rows, never reused
  Cap       \* ALPHA_STAGE_1_CAP, the number of seats

(* What the code provides: finitely many rows, a whole number of seats.    *)
SeatAssumption == IsFiniteSet(Invites) /\ Cap \in Nat

VARIABLES
  held,     \* invitations that reserve a seat and have not been redeemed
  taken     \* invitations redeemed by a member

vars == <<held, taken>>

Occupied == held \cup taken

Init == held = {} /\ taken = {}

(* An operator issues invitation i; seats of lapsed invitations may be     *)
(* collected in the same transaction.                                      *)
Issue(i, lapsed) ==
  /\ i \notin Occupied
  /\ lapsed \subseteq held
  /\ Cardinality(Occupied \ lapsed) < Cap
  /\ held' = (held \ lapsed) \cup {i}
  /\ UNCHANGED taken

(* The holder redeems invitation i.  An invitation that had lapsed can     *)
(* only be redeemed while a seat is free.                                  *)
Redeem(i) ==
  /\ i \notin taken
  /\ i \in held \/ Cardinality(Occupied) < Cap
  /\ held' = held \ {i}
  /\ taken' = taken \cup {i}

(* Invitations lapse, are revoked, or their members leave.                 *)
Vacate(gone) ==
  /\ gone \subseteq Occupied
  /\ held' = held \ gone
  /\ taken' = taken \ gone

Next ==
  \/ \E i \in Invites, lapsed \in SUBSET held : Issue(i, lapsed)
  \/ \E i \in Invites : Redeem(i)
  \/ \E gone \in SUBSET Occupied : Vacate(gone)

Spec == Init /\ [][Next]_vars

(* An invitation is open or redeemed, never both.                          *)
TypeOK ==
  /\ held \subseteq Invites
  /\ taken \subseteq Invites
  /\ held \cap taken = {}

(* The number of occupied seats never exceeds the stage's capacity         *)
(* (enforce_alpha_stage1_capacity).                                        *)
CapacityRespected == Cardinality(Occupied) <= Cap
=============================================================================
