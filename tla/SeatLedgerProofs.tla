-------------------------- MODULE SeatLedgerProofs --------------------------
(***************************************************************************)
(* The seat ledger keeps its promise for every set of invitations and every*)
(* capacity.                                                               *)
(***************************************************************************)
EXTENDS SeatLedger, FiniteSetTheorems, TLAPS

LedgerInv == TypeOK /\ CapacityRespected

(* A set of invitations is finite, and adding one adds one seat at most.   *)
LEMMA OneMore ==
  ASSUME SeatAssumption, NEW S \in SUBSET Invites, NEW i \in Invites, Cardinality(S) < Cap
  PROVE  Cardinality(S \cup {i}) <= Cap
<1>1. IsFiniteSet(S)
  BY FS_Subset DEF SeatAssumption
<1>2. Cardinality(S) \in Nat
  BY <1>1, FS_CardinalityType
<1>3. CASE i \in S
  <2>1. S \cup {i} = S
    BY <1>3
  <2> QED
    BY <2>1, <1>2 DEF SeatAssumption
<1>4. CASE i \notin S
  <2>1. Cardinality(S \cup {i}) = Cardinality(S) + 1
    BY <1>1, <1>4, FS_AddElement
  <2> QED
    BY <2>1, <1>2 DEF SeatAssumption
<1> QED
  BY <1>3, <1>4

(* Giving seats back never increases the number occupied.                  *)
LEMMA Fewer ==
  ASSUME SeatAssumption, NEW S \in SUBSET Invites, NEW T \in SUBSET S, Cardinality(S) <= Cap
  PROVE  Cardinality(T) <= Cap
<1>1. IsFiniteSet(S)
  BY FS_Subset DEF SeatAssumption
<1>2. /\ Cardinality(T) <= Cardinality(S)
      /\ IsFiniteSet(T)
  BY <1>1, FS_Subset
<1>3. Cardinality(S) \in Nat /\ Cardinality(T) \in Nat
  BY <1>1, <1>2, FS_CardinalityType
<1> QED
  BY <1>2, <1>3 DEF SeatAssumption

LEMMA InitLedger == SeatAssumption /\ Init => LedgerInv
  BY FS_EmptySet
     DEF SeatAssumption, Init, LedgerInv, TypeOK, CapacityRespected, Occupied

LEMMA NextLedger == SeatAssumption /\ LedgerInv /\ [Next]_vars => LedgerInv'
<1> SUFFICES ASSUME SeatAssumption, LedgerInv, [Next]_vars
             PROVE  LedgerInv'
  OBVIOUS
<1> USE DEF LedgerInv, TypeOK
<1>1. ASSUME NEW i \in Invites, NEW lapsed \in SUBSET held, Issue(i, lapsed)
      PROVE  LedgerInv'
  <2>1. Occupied' = (Occupied \ lapsed) \cup {i}
    BY <1>1 DEF Issue, Occupied
  <2>2. Occupied \ lapsed \in SUBSET Invites /\ Cardinality(Occupied \ lapsed) < Cap
    BY <1>1 DEF Issue, Occupied
  <2>3. Cardinality(Occupied') <= Cap
    BY <2>1, <2>2, OneMore
  <2> QED
    BY <1>1, <2>3 DEF Issue, Occupied, CapacityRespected
<1>2. ASSUME NEW i \in Invites, Redeem(i)
      PROVE  LedgerInv'
  <2>1. Occupied' = Occupied \cup {i} /\ Occupied \in SUBSET Invites
    BY <1>2 DEF Redeem, Occupied
  <2>2. CASE i \in held
    BY <1>2, <2>1, <2>2 DEF Redeem, Occupied, CapacityRespected
  <2>3. CASE Cardinality(Occupied) < Cap
    <3>1. Cardinality(Occupied') <= Cap
      BY <2>1, <2>3, OneMore
    <3> QED
      BY <1>2, <3>1 DEF Redeem, CapacityRespected
  <2> QED
    BY <1>2, <2>2, <2>3 DEF Redeem
<1>3. ASSUME NEW gone \in SUBSET Occupied, Vacate(gone)
      PROVE  LedgerInv'
  <2>1. Occupied' \in SUBSET Occupied /\ Occupied \in SUBSET Invites
    BY <1>3 DEF Vacate, Occupied
  <2>2. Cardinality(Occupied') <= Cap
    BY <2>1, Fewer DEF CapacityRespected
  <2> QED
    BY <1>3, <2>2 DEF Vacate, CapacityRespected
<1>4. CASE UNCHANGED vars
  BY <1>4 DEF vars, CapacityRespected, Occupied
<1> QED
  BY <1>1, <1>2, <1>3, <1>4 DEF Next

(* However invitations are issued, redeemed, lapse and are given back, the *)
(* stage's capacity is never exceeded (enforce_alpha_stage1_capacity).     *)
THEOREM CapacityAlwaysRespected ==
  ASSUME SeatAssumption PROVE Spec => []CapacityRespected
<1>1. Init => LedgerInv
  BY InitLedger
<1>2. LedgerInv /\ [Next]_vars => LedgerInv'
  BY NextLedger
<1>3. LedgerInv => CapacityRespected
  BY DEF LedgerInv
<1> QED
  BY <1>1, <1>2, <1>3, PTL DEF Spec
=============================================================================
