-------------------------- MODULE CapacityLocksProofs --------------------------
(***************************************************************************)
(* Lock by lock, for any invites, transactions and clocks: locks belong to *)
(* running transactions, uncommitted seats to the holder of the capacity   *)
(* lock, no redeemed, revoked or expired invite comes back, the check of an*)
(* issue agrees with the trigger, and the commits are steps of SeatLedger. *)
(***************************************************************************)
EXTENDS CapacityLocks, FiniteSetTheorems, TLAPS

(* ------------------------ the inductive invariant ----------------------- *)

Types ==
  /\ clock \in 0 .. MaxTime
  /\ table \in [Invites -> Row]
  /\ txn \in [Txns -> Txn]
  /\ rowLock \in [Invites -> Txns \cup {None}]
  /\ capLock \in Txns \cup {None}

LocksHeld ==
  /\ capLock # None => Running(capLock)
  /\ \A i \in Invites : rowLock[i] # None => Running(rowLock[i])

(* A running createStage1Invite owns its new row, which nobody sees yet.   *)
Owns(p, i) ==
  /\ p \in Creates /\ Running(p)
  /\ i = txn[p].target
  /\ table[i].status = "absent"

(* An UPDATE holds the lock of the open row it is changing.                *)
Grips(p, i) == i \in Invites /\ rowLock[i] = p /\ Open(table[i])

TxnInv(p) ==
  /\ \A i \in Invites : txn[p].wrote[i] # None =>
       /\ Running(p)
       /\ Grips(p, i) \/ Owns(p, i)
       /\ Occupies(txn[p].wrote[i], txn[p].began) => capLock = p
  /\ txn[p].pc = "waiting" => txn[p].at \in Invites
  /\ txn[p].pc = "guarding" => Grips(p, txn[p].at)
  /\ txn[p].pc \in {"locking", "checking", "inserting"} => p \in Creates
  /\ p \in Creates /\ Running(p) =>
       txn[p].target \in Invites /\ Owns(p, txn[p].target)

DistinctTargets ==
  \A p, q \in Creates :
    Running(p) /\ Running(q) /\ txn[p].target = txn[q].target => p = q

IInv ==
  /\ Types
  /\ LocksHeld
  /\ \A p \in Txns : TxnInv(p)
  /\ DistinctTargets

(* ------------------------------ lemmas ---------------------------------- *)

LEMMA FreshType == ASSUME NEW pc \in {"idle"} \cup Ended PROVE Fresh(pc) \in Txn
  BY LocksAssumption DEF Fresh, Txn, Times, Ended

LEMMA InitHolds == Init => IInv
<1> SUFFICES ASSUME Init PROVE IInv
  OBVIOUS
<1>1. Types
  BY FreshType, LocksAssumption DEF Init, Types
<1>2. LocksHeld
  BY DEF Init, LocksHeld
<1>3. \A p \in Txns : txn[p] = Fresh("idle")
  BY DEF Init
<1>4. \A p \in Txns : TxnInv(p) /\ ~ Running(p)
  BY <1>3 DEF TxnInv, Running, Fresh
<1>5. DistinctTargets
  BY <1>4 DEF DistinctTargets, Txns
<1> QED
  BY <1>1, <1>2, <1>4, <1>5 DEF IInv

(* What another transaction relies on survives a step that leaves it alone,*)
(* keeps its locks, and keeps the rows it has locked or is about to create.*)
LEMMA Undisturbed ==
  ASSUME IInv, NEW q \in Txns,
         txn'[q] = txn[q],
         capLock = q => capLock' = q,
         \A i \in Invites : rowLock[i] = q => rowLock'[i] = q,
         \A i \in Invites : Grips(q, i) => Open(table'[i]),
         \A i \in Invites : Owns(q, i) => table'[i].status = "absent"
  PROVE  TxnInv(q)'
<1>1. TxnInv(q)
  BY DEF IInv
<1>2. Running(q)' <=> Running(q)
  BY DEF Running
<1>3. \A i \in Invites : Grips(q, i) => Grips(q, i)'
  BY DEF Grips, Open
<1>4. \A i \in Invites : Owns(q, i) => Owns(q, i)'
  BY <1>2 DEF Owns
<1>5. \A i \in Invites : txn'[q].wrote[i] # None =>
        /\ Running(q)'
        /\ Grips(q, i)' \/ Owns(q, i)'
        /\ Occupies(txn[q].wrote[i], txn[q].began)' => capLock' = q
  BY <1>1, <1>2, <1>3, <1>4 DEF TxnInv, Occupies, Open
<1>6. txn'[q].pc = "guarding" => Grips(q, txn[q].at)'
  BY <1>1, <1>3 DEF TxnInv, Grips
<1>7. q \in Creates /\ Running(q)' => txn'[q].target \in Invites /\ Owns(q, txn[q].target)'
  BY <1>1, <1>2, <1>4 DEF TxnInv
<1> QED
  BY <1>1, <1>5, <1>6, <1>7 DEF TxnInv

(* One transaction moves on to x; nothing is committed.                    *)
LEMMA Moves ==
  ASSUME IInv, NEW p \in Txns, NEW x \in Txn,
         txn' = [txn EXCEPT ![p] = x],
         x.pc \notin {"idle"} \cup Ended,
         UNCHANGED <<clock, table>>,
         capLock' \in {capLock, p}, capLock \in {None, p, capLock'},
         rowLock' \in [Invites -> Txns \cup {None}],
         \A i \in Invites : rowLock'[i] \in {rowLock[i], p},
         \A i \in Invites : rowLock[i] \in {None, p, rowLock'[i]},
         TxnInv(p)',
         Running(p) => x.target = txn[p].target,
         ~ Running(p) => \A q \in Creates : p \in Creates => txn[q].target # x.target
  PROVE  IInv'
<1>1. txn' \in [Txns -> Txn] /\ txn'[p] = x /\ \A q \in Txns \ {p} : txn'[q] = txn[q]
  BY DEF IInv, Types
<1>2. Types'
  BY <1>1 DEF IInv, Types
<1>3. Running(p)'
  BY <1>1 DEF Running
<1>4. \A q \in Txns : Running(q) => Running(q)'
  BY <1>1, <1>3 DEF Running
<1>5. LocksHeld'
  BY <1>3, <1>4, LocksAssumption DEF IInv, LocksHeld, Types
<1>6. ASSUME NEW q \in Txns PROVE TxnInv(q)'
  <2>1. CASE q = p
    BY <2>1
  <2>2. CASE q # p
    <3>1. txn'[q] = txn[q]
      BY <1>1, <2>2
    <3>2. capLock = q => capLock' = q
      BY <2>2, LocksAssumption
    <3>3. \A i \in Invites : rowLock[i] = q => rowLock'[i] = q
      BY <2>2, LocksAssumption
    <3>4. \A i \in Invites : Grips(q, i) => Open(table'[i])
      BY DEF Grips, Open
    <3>5. \A i \in Invites : Owns(q, i) => table'[i].status = "absent"
      BY DEF Owns
    <3> QED
      BY <3>1, <3>2, <3>3, <3>4, <3>5, Undisturbed
  <2> QED
    BY <2>1, <2>2
<1>7. DistinctTargets'
  <2> SUFFICES ASSUME NEW q \in Creates, NEW r \in Creates, Running(q)', Running(r)',
                      txn'[q].target = txn'[r].target
               PROVE  q = r
    BY DEF DistinctTargets
  <2>1. q \in Txns /\ r \in Txns
    BY DEF Txns
  <2>2. CASE q # p /\ r # p
    BY <1>1, <2>1, <2>2 DEF IInv, DistinctTargets, Running
  <2>3. CASE Running(p) /\ (q = p \/ r = p)
    BY <1>1, <2>1, <2>3 DEF IInv, DistinctTargets, Running
  <2>4. CASE ~ Running(p) /\ (q = p \/ r = p)
    BY <1>1, <2>1, <2>4
  <2> QED
    BY <2>2, <2>3, <2>4
<1> QED
  BY <1>2, <1>5, <1>6, <1>7 DEF IInv

(* A transaction ends; table' is whatever it committed.                    *)
LEMMA Ends ==
  ASSUME IInv, NEW p \in Txns, NEW pc \in Ended,
         txn' = [txn EXCEPT ![p] = Fresh(pc)],
         Released(p),
         UNCHANGED clock,
         table' \in [Invites -> Row],
         \A i \in Invites : table'[i] = table[i] \/ txn[p].wrote[i] # None
  PROVE  IInv'
<1>1. /\ txn' \in [Txns -> Txn] /\ txn'[p] = Fresh(pc)
      /\ \A q \in Txns \ {p} : txn'[q] = txn[q]
  BY FreshType DEF IInv, Types
<1>2. /\ rowLock' \in [Invites -> Txns \cup {None}]
      /\ \A i \in Invites : rowLock'[i] = IF rowLock[i] = p THEN None ELSE rowLock[i]
      /\ capLock' = IF capLock = p THEN None ELSE capLock
  BY DEF Released, IInv, Types
<1>3. Types'
  BY <1>1, <1>2 DEF IInv, Types
<1>4. ~ Running(p)' /\ \A q \in Txns \ {p} : Running(q)' <=> Running(q)
  BY <1>1 DEF Running, Fresh
<1>5. LocksHeld'
  BY <1>2, <1>4, LocksAssumption DEF IInv, LocksHeld, Types
<1>6. ASSUME NEW q \in Txns PROVE TxnInv(q)'
  <2>1. CASE q = p
    <3>1. \A i \in Invites : txn'[p].wrote[i] = None
      BY <1>1 DEF Fresh
    <3>2. txn'[p].pc = pc
      BY <1>1 DEF Fresh
    <3> QED
      BY <2>1, <3>1, <3>2, <1>4 DEF TxnInv, Ended
  <2>2. CASE q # p
    <3>1. TxnInv(p)
      BY DEF IInv
    <3>2. ASSUME NEW i \in Invites, Grips(q, i) PROVE table'[i] = table[i]
      <4>1. ~ Grips(p, i) /\ ~ Owns(p, i)
        BY <2>2, <3>2 DEF Grips, Owns, Open
      <4> QED
        BY <4>1, <3>1 DEF TxnInv
    <3>3. ASSUME NEW i \in Invites, Owns(q, i) PROVE table'[i] = table[i]
      <4>1. ~ Grips(p, i)
        BY <3>3 DEF Grips, Owns, Open
      <4>2. ~ Owns(p, i)
        BY <2>2, <3>3 DEF Owns, IInv, DistinctTargets
      <4> QED
        BY <4>1, <4>2, <3>1 DEF TxnInv
    <3>4. txn'[q] = txn[q]
      BY <1>1, <2>2
    <3>5. \A i \in Invites : Grips(q, i) => Open(table'[i])
      BY <3>2 DEF Grips
    <3>6. \A i \in Invites : Owns(q, i) => table'[i].status = "absent"
      BY <3>3 DEF Owns
    <3>7. capLock = q => capLock' = q
      BY <1>2, <2>2
    <3>8. \A i \in Invites : rowLock[i] = q => rowLock'[i] = q
      BY <1>2, <2>2
    <3> QED
      BY <3>4, <3>5, <3>6, <3>7, <3>8, Undisturbed
  <2> QED
    BY <2>1, <2>2
<1>7. DistinctTargets'
  BY <1>1, <1>4 DEF IInv, DistinctTargets, Txns
<1> QED
  BY <1>3, <1>5, <1>6, <1>7 DEF IInv

LEMMA RollsBack ==
  ASSUME IInv, NEW p \in Txns, NEW pc \in Ended, RollBack(p, pc)
  PROVE  IInv'
<1>1. table' \in [Invites -> Row] /\ \A i \in Invites : table'[i] = table[i]
  BY DEF RollBack, IInv, Types
<1> QED
  BY <1>1, Ends DEF RollBack

(* ------------------------------ steps ----------------------------------- *)

LEMMA StatementType ==
  ASSUME NEW p, NEW x \in Txn
  PROVE  /\ Statement(x) \in Txn
         /\ Statement(x).pc = "updating"
         /\ \A i \in Invites : Statement(x).wrote[i] = x.wrote[i]
         /\ Statement(x).began = x.began /\ Statement(x).target = x.target
  BY DEF Statement, Txn

LEMMA BeginHolds ==
  ASSUME IInv, NEW p \in Txns, NEW i \in Invites, Begin(p, i)
  PROVE  IInv'
<1>1. PICK now \in AppNow, kind \in {"create"} \cup UpdateKinds :
        LET x == [txn[p] EXCEPT !.pc = "locking", !.kind = kind, !.began = clock,
                                !.now = now, !.target = i]
        IN  txn' = [txn EXCEPT ![p] = IF p \in Creates THEN x ELSE Statement(x)]
  <2>1. CASE p \in Creates
    BY <2>1 DEF Begin
  <2>2. CASE p \notin Creates
    BY <2>2 DEF Begin
  <2> QED
    BY <2>1, <2>2
<1> DEFINE x == [txn[p] EXCEPT !.pc = "locking", !.kind = kind, !.began = clock,
                               !.now = now, !.target = i]
           y == IF p \in Creates THEN x ELSE Statement(x)
<1>2. txn[p] \in Txn /\ txn[p].pc = "idle" /\ ~ Running(p)
  BY DEF Begin, IInv, Types, Running
<1>3. now \in 0 .. (MaxTime + Skew) /\ clock \in Times
  BY LocksAssumption DEF AppNow, IInv, Types, Times
<1>4. x \in Txn /\ x.pc = "locking" /\ x.target = i /\ x.wrote = txn[p].wrote
  BY <1>2, <1>3 DEF Txn
<1>5. /\ y \in Txn /\ y.target = i /\ \A j \in Invites : y.wrote[j] = None
      /\ p \in Creates => y.pc = "locking"
      /\ p \notin Creates => y.pc = "updating"
  <2>1. \A j \in Invites : x.wrote[j] = None
    BY <1>2, <1>4 DEF IInv, TxnInv
  <2>2. CASE p \in Creates
    BY <1>4, <2>1, <2>2
  <2>3. CASE p \notin Creates
    <3> HIDE DEF x
    <3> QED
      BY <1>4, <2>1, <2>3, StatementType
  <2> QED
    BY <2>2, <2>3
<1>6. txn' = [txn EXCEPT ![p] = y] /\ txn'[p] = y
  BY <1>1 DEF IInv, Types
<1>7. p \in Creates => table[i].status = "absent" /\ \A q \in Creates : txn[q].target # i
  BY DEF Begin
<1>8. UNCHANGED <<clock, table, rowLock, capLock>>
  BY DEF Begin
<1>9. TxnInv(p)'
  BY <1>5, <1>6, <1>7, <1>8 DEF TxnInv, Owns, Running, Ended
<1>10. y.pc \notin {"idle"} \cup Ended
  BY <1>5 DEF Ended
<1>11. rowLock' \in [Invites -> Txns \cup {None}]
  BY <1>8 DEF IInv, Types
<1> HIDE DEF x, y
<1> QED
  BY <1>2, <1>5, <1>6, <1>7, <1>8, <1>9, <1>10, <1>11, Moves

LEMMA TakeCapacityLockHolds ==
  ASSUME IInv, NEW p \in Txns, TakeCapacityLock(p)
  PROVE  IInv'
<1> DEFINE y == Statement(txn[p])
<1>1. /\ txn[p] \in Txn /\ txn[p].pc = "locking" /\ Running(p)
      /\ TxnInv(p) /\ p \in Creates
  BY DEF TakeCapacityLock, IInv, Types, TxnInv, Running, Ended
<1>2. /\ y \in Txn /\ y.pc = "updating" /\ y.target = txn[p].target
      /\ y.began = txn[p].began /\ \A j \in Invites : y.wrote[j] = txn[p].wrote[j]
  BY <1>1, StatementType
<1>3. txn' = [txn EXCEPT ![p] = y] /\ txn'[p] = y /\ capLock = None /\ capLock' = p
  BY DEF TakeCapacityLock, IInv, Types
<1>4. UNCHANGED <<clock, table, rowLock>>
  BY DEF TakeCapacityLock
<1> HIDE DEF y
<1>5. TxnInv(p)'
  BY <1>1, <1>2, <1>3, <1>4 DEF TxnInv, Owns, Grips, Running, Ended, Occupies, Open
<1>6. y.pc \notin {"idle"} \cup Ended
  BY <1>2 DEF Ended
<1>7. rowLock' \in [Invites -> Txns \cup {None}]
  BY <1>4 DEF IInv, Types
<1> QED
  BY <1>1, <1>2, <1>3, <1>4, <1>5, <1>6, <1>7, Moves

(* Steps of the UPDATE that neither write nor take the capacity lock.      *)
LEMMA Proceeds ==
  ASSUME IInv, NEW p \in Txns, NEW x \in Txn,
         txn' = [txn EXCEPT ![p] = x],
         Running(p),
         UNCHANGED <<clock, table, capLock>>,
         x.wrote = txn[p].wrote, x.began = txn[p].began, x.target = txn[p].target,
         x.pc \in {"updating", "waiting", "guarding", "checking", "inserting", "committing"},
         rowLock' \in [Invites -> Txns \cup {None}],
         \A i \in Invites : rowLock'[i] \in {rowLock[i], p},
         \A i \in Invites : rowLock[i] \in {None, p, rowLock'[i]},
         x.pc = "waiting" => x.at \in Invites,
         x.pc = "guarding" => x.at \in Invites /\ rowLock'[x.at] = p /\ Open(table[x.at]),
         x.pc \in {"checking", "inserting"} => p \in Creates
  PROVE  IInv'
<1>1. txn'[p] = x /\ TxnInv(p)
  BY DEF IInv, Types
<1>2. x.pc \notin {"idle"} \cup Ended
  BY DEF Ended
<1>3. \A i \in Invites : Grips(p, i) => Grips(p, i)'
  BY DEF Grips, Open
<1>4. \A i \in Invites : Owns(p, i) => Owns(p, i)'
  BY <1>1, <1>2 DEF Owns, Running
<1>5. Running(p)'
  BY <1>1, <1>2 DEF Running
<1>6. x.pc = "guarding" => Grips(p, x.at)'
  BY <1>1 DEF Grips, Open
<1>7. \A i \in Invites : txn'[p].wrote[i] # None =>
        /\ Running(p)'
        /\ Grips(p, i)' \/ Owns(p, i)'
        /\ Occupies(txn[p].wrote[i], txn[p].began)' => capLock' = p
  BY <1>1, <1>3, <1>4, <1>5 DEF TxnInv, Occupies, Open
<1>8. TxnInv(p)'
  BY <1>1, <1>4, <1>5, <1>6, <1>7 DEF TxnInv
<1> QED
  BY <1>2, <1>8, Moves

LEMMA VisitHolds ==
  ASSUME IInv, NEW p \in Txns, NEW i \in Invites, Visit(p, i)
  PROVE  IInv'
<1> DEFINE x == [txn[p] EXCEPT !.pc = "waiting", !.at = i, !.todo = @ \ {i}]
<1>1. txn[p] \in Txn /\ txn[p].pc = "updating" /\ Running(p)
  BY DEF Visit, IInv, Types, Running, Ended
<1>2. /\ x \in Txn /\ x.pc = "waiting" /\ x.at = i
      /\ x.wrote = txn[p].wrote /\ x.began = txn[p].began /\ x.target = txn[p].target
  BY <1>1 DEF Txn
<1>3. txn' = [txn EXCEPT ![p] = x]
  BY DEF Visit, IInv, Types
<1>4. UNCHANGED <<clock, table, rowLock, capLock>> /\ rowLock \in [Invites -> Txns \cup {None}]
  BY DEF Visit, IInv, Types
<1> HIDE DEF x
<1> QED
  BY <1>1, <1>2, <1>3, <1>4, Proceeds

LEMMA LockRowHolds ==
  ASSUME IInv, NEW p \in Txns, LockRow(p)
  PROVE  IInv'
<1> DEFINE i == txn[p].at
           pc == IF Matches(txn[p], i) THEN "guarding" ELSE "updating"
           x == [txn[p] EXCEPT !.pc = pc]
<1>1. txn[p] \in Txn /\ txn[p].pc = "waiting" /\ Running(p) /\ i \in Invites
  BY DEF LockRow, IInv, Types, TxnInv, Running, Ended
<1>2. /\ x \in Txn /\ x.pc = pc /\ x.at = i
      /\ x.wrote = txn[p].wrote /\ x.began = txn[p].began /\ x.target = txn[p].target
  BY <1>1 DEF Txn
<1>3. txn' = [txn EXCEPT ![p] = x]
  BY DEF LockRow, IInv, Types
<1>4. /\ UNCHANGED <<clock, table, capLock>>
      /\ rowLock' = [rowLock EXCEPT ![i] = p] /\ rowLock[i] \in {None, p}
      /\ rowLock \in [Invites -> Txns \cup {None}]
  BY DEF LockRow, IInv, Types
<1>5. /\ rowLock' \in [Invites -> Txns \cup {None}]
      /\ \A j \in Invites : rowLock'[j] \in {rowLock[j], p}
      /\ \A j \in Invites : rowLock[j] \in {None, p, rowLock'[j]}
      /\ rowLock'[i] = p
  BY <1>1, <1>4
<1>6. Matches(txn[p], i) => Open(table[i])
  BY DEF Matches, Open
<1>7. pc \in {"guarding", "updating"} /\ (pc = "guarding" => Open(table[i]))
  BY <1>6
<1> HIDE DEF pc, x
<1> QED
  BY <1>1, <1>2, <1>3, <1>4, <1>5, <1>7, Proceeds

LEMMA WriteHolds ==
  ASSUME IInv, NEW p \in Txns, NEW i \in Invites, NEW row \in Row,
         NEW pc \in {"updating", "committing"},
         Running(p), Grips(p, i) \/ Owns(p, i),
         Write(p, i, row, pc)
  PROVE  IInv'
<1> DEFINE x == [txn[p] EXCEPT !.pc = pc, !.wrote[i] = row]
<1>1. CASE RollBack(p, "rejected")
  BY <1>1, RollsBack DEF Ended
<1>2. CASE /\ txn' = [txn EXCEPT ![p].pc = pc, ![p].wrote[i] = row]
           /\ UNCHANGED <<clock, table, rowLock>>
           /\ \/ capLock \in {None, p} /\ capLock' = p
              \/ ~ Occupies(row, txn[p].began) /\ UNCHANGED capLock
  <2>1. txn[p] \in Txn /\ txn \in [Txns -> Txn] /\ TxnInv(p)
    BY DEF IInv, Types
  <2>2. /\ x \in Txn /\ x.pc = pc /\ x.began = txn[p].began /\ x.target = txn[p].target
        /\ x.wrote[i] = row
        /\ \A j \in Invites \ {i} : x.wrote[j] = txn[p].wrote[j]
    BY <2>1 DEF Txn
  <2>3. txn' = [txn EXCEPT ![p] = x] /\ txn'[p] = x
    BY <1>2, <2>1
  <2> HIDE DEF x
  <2>4. x.pc \notin {"idle"} \cup Ended /\ Running(p)'
    BY <2>2, <2>3 DEF Running, Ended
  <2>5. \A j \in Invites : Grips(p, j) => Grips(p, j)'
    BY <1>2 DEF Grips, Open
  <2>6. \A j \in Invites : Owns(p, j) => Owns(p, j)'
    BY <1>2, <2>2, <2>3, <2>4 DEF Owns
  <2>7. \A j \in Invites : txn'[p].wrote[j] # None =>
          /\ Running(p)'
          /\ Grips(p, j)' \/ Owns(p, j)'
          /\ Occupies(txn[p].wrote[j], txn[p].began)' => capLock' = p
    BY <1>2, <2>1, <2>2, <2>3, <2>4, <2>5, <2>6 DEF TxnInv, Occupies, Open
  <2>8. TxnInv(p)'
    BY <2>1, <2>2, <2>3, <2>4, <2>6, <2>7 DEF TxnInv
  <2>9. rowLock' \in [Invites -> Txns \cup {None}]
    BY <1>2 DEF IInv, Types
  <2> QED
    BY <1>2, <2>2, <2>3, <2>4, <2>8, <2>9, Moves
<1> QED
  BY <1>1, <1>2 DEF Write

LEMMA UpdateRowHolds ==
  ASSUME IInv, NEW p \in Txns, UpdateRow(p)
  PROVE  IInv'
<1> DEFINE i == txn[p].at
<1>1. txn[p].pc = "guarding" /\ Running(p) /\ Grips(p, i) /\ i \in Invites
  BY DEF UpdateRow, IInv, TxnInv, Running, Ended, Grips
<1>2. table[i] \in Row /\ txn[p].kind \in {"create"} \cup UpdateKinds
  BY <1>1 DEF IInv, Types, Txn
<1>3. Updated(txn[p].kind, table[i]) \in Row
  BY <1>2 DEF Updated, Row, UpdateKinds
<1>4. Write(p, i, Updated(txn[p].kind, table[i]), "updating")
  BY DEF UpdateRow
<1> QED
  BY <1>1, <1>3, <1>4, WriteHolds

LEMMA InsertInviteHolds ==
  ASSUME IInv, NEW p \in Txns, InsertInvite(p)
  PROVE  IInv'
<1> DEFINE i == txn[p].target
           row == [status |-> "pending", expiresAt |-> txn[p].now + Life]
<1>1. txn[p].pc = "inserting" /\ Running(p) /\ i \in Invites /\ Owns(p, i)
  BY DEF InsertInvite, IInv, TxnInv, Running, Ended
<1>2. row \in Row
  <2>1. txn[p].now \in 0 .. (MaxTime + Skew)
    BY DEF IInv, Types, Txn
  <2> QED
    BY <2>1, LocksAssumption DEF Row, Times
<1>3. Write(p, i, row, "committing")
  BY DEF InsertInvite
<1> QED
  BY <1>1, <1>2, <1>3, WriteHolds

(* Steps that only move pc.                                                *)
LEMMA PcMoves ==
  ASSUME IInv, NEW p \in Txns, Running(p),
         NEW pc \in {"checking", "inserting", "committing"},
         pc # "committing" => p \in Creates,
         txn' = [txn EXCEPT ![p].pc = pc],
         UNCHANGED <<clock, table, rowLock, capLock>>
  PROVE  IInv'
<1> DEFINE x == [txn[p] EXCEPT !.pc = pc]
<1>1. txn[p] \in Txn
  BY DEF IInv, Types
<1>2. /\ x \in Txn /\ x.pc = pc
      /\ x.wrote = txn[p].wrote /\ x.began = txn[p].began /\ x.target = txn[p].target
  BY <1>1 DEF Txn
<1>3. txn' = [txn EXCEPT ![p] = x]
  BY DEF IInv, Types
<1>4. rowLock \in [Invites -> Txns \cup {None}]
  BY DEF IInv, Types
<1> HIDE DEF x
<1> QED
  BY <1>2, <1>3, <1>4, Proceeds

LEMMA EndUpdateHolds ==
  ASSUME IInv, NEW p \in Txns, EndUpdate(p)
  PROVE  IInv'
<1>1. Running(p)
  BY DEF EndUpdate, Running, Ended
<1>2. CASE p \in Creates
  BY <1>1, <1>2, PcMoves DEF EndUpdate
<1>3. CASE p \notin Creates
  BY <1>1, <1>3, PcMoves DEF EndUpdate
<1> QED
  BY <1>2, <1>3

LEMMA CheckSeatsHolds ==
  ASSUME IInv, NEW p \in Txns, CheckSeats(p)
  PROVE  IInv'
<1>1. Running(p) /\ p \in Creates
  BY DEF CheckSeats, Running, Ended, IInv, TxnInv
<1>2. CASE RollBack(p, "refused")
  BY <1>2, RollsBack DEF Ended
<1>3. CASE /\ txn' = [txn EXCEPT ![p].pc = "inserting"]
           /\ UNCHANGED <<clock, table, rowLock, capLock>>
  BY <1>1, <1>3, PcMoves
<1> QED
  BY <1>2, <1>3 DEF CheckSeats

LEMMA CommitHolds ==
  ASSUME IInv, NEW p \in Txns, Commit(p)
  PROVE  IInv'
<1>1. txn[p].wrote \in [Invites -> Row \cup {None}]
  BY DEF IInv, Types, Txn
<1>2. table' \in [Invites -> Row]
  <2>1. \A i \in Invites : txn[p].wrote[i] # None => txn[p].wrote[i] \in Row
    BY <1>1
  <2> QED
    BY <2>1 DEF Commit, View, IInv, Types
<1>3. \A i \in Invites : table'[i] = table[i] \/ txn[p].wrote[i] # None
  BY DEF Commit, View
<1> QED
  BY <1>2, <1>3, Ends DEF Commit, Ended

LEMMA AgeHolds ==
  ASSUME IInv, NEW i \in Invites, Age(i)
  PROVE  IInv'
<1>1. /\ table' = [table EXCEPT ![i].status = "stale"] /\ table[i].status = "reserved"
      /\ UNCHANGED <<clock, txn, rowLock, capLock>>
  BY DEF Age
<1>2. table \in [Invites -> Row]
  BY DEF IInv, Types
<1>3. /\ table' \in [Invites -> Row]
      /\ \A j \in Invites \ {i} : table'[j] = table[j]
      /\ table'[i].status = "stale"
  BY <1>1, <1>2 DEF Row
<1>4. Types' /\ LocksHeld' /\ DistinctTargets'
  BY <1>1, <1>3 DEF IInv, Types, LocksHeld, DistinctTargets, Running
<1>5. ASSUME NEW q \in Txns PROVE TxnInv(q)'
  <2>1. \A j \in Invites : Grips(q, j) => Open(table'[j])
    BY <1>3 DEF Grips, Open
  <2>2. \A j \in Invites : Owns(q, j) => table'[j].status = "absent"
    BY <1>1, <1>3 DEF Owns
  <2> QED
    BY <1>1, <2>1, <2>2, Undisturbed
<1> QED
  BY <1>4, <1>5 DEF IInv

LEMMA StutterHolds ==
  ASSUME IInv, UNCHANGED <<table, txn, rowLock, capLock>>, clock' \in 0 .. MaxTime
  PROVE  IInv'
<1>1. Types' /\ LocksHeld' /\ DistinctTargets'
  BY DEF IInv, Types, LocksHeld, DistinctTargets, Running
<1>2. ASSUME NEW q \in Txns PROVE TxnInv(q)'
  BY Undisturbed DEF Grips, Owns
<1> QED
  BY <1>1, <1>2 DEF IInv

LEMMA StepHolds == IInv /\ [Next]_vars => IInv'
<1> SUFFICES ASSUME IInv, [Next]_vars PROVE IInv'
  OBVIOUS
<1>1. CASE Tick
  BY <1>1, StutterHolds, LocksAssumption DEF Tick, IInv, Types
<1>2. ASSUME NEW i \in Invites, Age(i) PROVE IInv'
  BY <1>2, AgeHolds
<1>3. ASSUME NEW p \in Txns, NEW i \in Invites, Begin(p, i) PROVE IInv'
  BY <1>3, BeginHolds
<1>4. ASSUME NEW p \in Txns, TxnStep(p) PROVE IInv'
  <2>1. CASE TakeCapacityLock(p)
    BY <2>1, TakeCapacityLockHolds
  <2>2. ASSUME NEW i \in Invites, Visit(p, i) PROVE IInv'
    BY <2>2, VisitHolds
  <2>3. CASE LockRow(p)
    BY <2>3, LockRowHolds
  <2>4. CASE UpdateRow(p)
    BY <2>4, UpdateRowHolds
  <2>5. CASE EndUpdate(p)
    BY <2>5, EndUpdateHolds
  <2>6. CASE CheckSeats(p)
    BY <2>6, CheckSeatsHolds
  <2>7. CASE InsertInvite(p)
    BY <2>7, InsertInviteHolds
  <2>8. CASE Commit(p)
    BY <2>8, CommitHolds
  <2>9. CASE DetectDeadlock(p)
    BY <2>9, RollsBack DEF DetectDeadlock, Ended
  <2> QED
    BY <1>4, <2>1, <2>2, <2>3, <2>4, <2>5, <2>6, <2>7, <2>8, <2>9 DEF TxnStep
<1>5. ASSUME NEW p \in Txns, Fail(p) PROVE IInv'
  BY <1>5, RollsBack DEF Fail, Ended
<1>6. CASE UNCHANGED vars
  BY <1>6, StutterHolds DEF vars, IInv, Types
<1> QED
  BY <1>1, <1>2, <1>3, <1>4, <1>5, <1>6 DEF Next

LEMMA Invariance == Spec => []IInv
  BY InitHolds, StepHolds, PTL DEF Spec

(* ----------------------------- theorems --------------------------------- *)

(* Locks belong to running transactions, an uncommitted row is locked or   *)
(* still unknown to others, and only the holder of the capacity lock has   *)
(* uncommitted rows that occupy a seat (the trigger of migration 0005).    *)
THEOREM TypeCorrect == Spec => []TypeOK
<1>1. IInv => TypeOK
  <2> SUFFICES ASSUME IInv PROVE TypeOK
    OBVIOUS
  <2>1. \A p \in Txns, i \in Invites :
          txn[p].wrote[i] # None =>
            /\ Running(p)
            /\ rowLock[i] = p \/ (p \in Creates /\ i = txn[p].target)
            /\ Occupies(txn[p].wrote[i], txn[p].began) => capLock = p
    BY DEF IInv, TxnInv, Grips, Owns
  <2> QED
    BY <2>1 DEF IInv, Types, LocksHeld, TypeOK
<1> QED
  BY <1>1, Invariance, PTL

(* A redeemed, revoked or expired invite stays as it is: an UPDATE that    *)
(* waited for its row finds that it no longer matches.                     *)
THEOREM FinalStays == Spec => FinalIsFinal
<1> DEFINE A == \A i \in Invites :
             table[i].status \in {"consumed", "closed"} => table'[i] = table[i]
<1>1. IInv /\ [Next]_vars => A
  <2> SUFFICES ASSUME IInv, [Next]_vars, NEW i \in Invites,
                      table[i].status \in {"consumed", "closed"}
               PROVE  table'[i] = table[i]
    OBVIOUS
  <2>1. ASSUME NEW j \in Invites, Age(j) PROVE table'[i] = table[i]
    BY <2>1 DEF Age, IInv, Types
  <2>2. ASSUME NEW p \in Txns, Commit(p) PROVE table'[i] = table[i]
    <3>1. ~ Grips(p, i) /\ ~ Owns(p, i)
      BY DEF Grips, Owns, Open
    <3>2. txn[p].wrote[i] = None
      BY <3>1 DEF IInv, TxnInv
    <3> QED
      BY <2>2, <3>2 DEF Commit, View
  <2>3. ASSUME NEW p \in Txns, TxnStep(p), ~ Commit(p) PROVE UNCHANGED table
    BY <2>3 DEF TxnStep, TakeCapacityLock, Visit, LockRow, UpdateRow, Write, EndUpdate,
                CheckSeats, InsertInvite, DetectDeadlock, RollBack
  <2>4. ASSUME NEW p \in Txns, NEW j \in Invites, Begin(p, j) \/ Fail(p)
        PROVE  UNCHANGED table
    BY <2>4 DEF Begin, Fail, RollBack
  <2>5. CASE Tick \/ UNCHANGED vars
    BY <2>5 DEF Tick, vars
  <2>6. ASSUME NEW p \in Txns, Fail(p) PROVE UNCHANGED table
    BY <2>6 DEF Fail, RollBack
  <2> QED
    BY <2>1, <2>2, <2>3, <2>4, <2>5, <2>6 DEF Next
<1>2. IInv /\ [Next]_vars => [A]_vars
  BY <1>1
<1>3. [][A]_vars <=> FinalIsFinal
  BY DEF FinalIsFinal
<1> HIDE DEF A
<1> QED
  BY <1>2, <1>3, Invariance, PTL DEF Spec

(* ------------------- what the transactions know of seats ---------------- *)

(* A row that occupies a seat or would, were it not for its date.          *)
Alive(row) == row.status = "consumed" \/ Open(row)

(* Rows the UPDATE of p has found and not yet dealt with.                  *)
Unvisited(p) ==
  CASE txn[p].pc = "updating" -> txn[p].todo
    [] txn[p].pc \in {"waiting", "guarding"} -> txn[p].todo \cup {txn[p].at}
    [] OTHER -> {}

KindFits(p) == txn[p].kind \in IF p \in Creates THEN {"create"} ELSE UpdateKinds

(* What the UPDATE and the INSERT of a transaction of the given kind and   *)
(* target write over row i.                                                *)
WrittenRowFits(kind, target, i, new, old) ==
  /\ kind = "create" => new.status = IF i = target THEN "pending" ELSE "closed"
  /\ kind = "revoke" => new.status = "closed"
  /\ kind \in {"sweep", "claim"} => Open(new) /\ new.expiresAt = old.expiresAt
  /\ kind = "redeem" => i = target /\ new.status = "consumed"

WritesFit(p) ==
  \A i \in Invites : txn[p].wrote[i] # None =>
    WrittenRowFits(txn[p].kind, txn[p].target, i, txn[p].wrote[i], table[i])

(* A redemption concerns the row it names and no other.                    *)
AimsAtTarget(p) ==
  txn[p].kind = "redeem" =>
    /\ txn[p].todo \subseteq {txn[p].target}
    /\ txn[p].pc \in {"waiting", "guarding"} => txn[p].at = txn[p].target

(* A seat that p is about to fill has been free since it was counted.      *)
SeatFree(p) ==
  \A i \in Invites :
    /\ txn[p].wrote[i] # None
    /\ txn[p].kind \in {"create", "redeem"}
    /\ Occupies(txn[p].wrote[i], clock)
    => SeatsBut(p, i, clock) < Cap

(* createStage1Invite holds the capacity lock from its first statement on. *)
HoldsStage(p) == p \in Creates /\ txn[p].pc # "locking" => capLock = p

(* Its UPDATE misses no lapsed row.                                        *)
LapsedFound(p) ==
  p \in Creates /\ txn[p].pc \in {"updating", "waiting", "guarding", "checking"} =>
    \A j \in Invites \ {txn[p].target} :
      Open(View(p)[j]) => View(p)[j].expiresAt > txn[p].now \/ j \in Unvisited(p)

(* The rows that are alive, when its check has passed.                     *)
RoomFound(p) ==
  txn[p].pc = "inserting" =>
    Cardinality({j \in Invites \ {txn[p].target} : Alive(View(p)[j])}) < Cap

SeatInv(p) ==
  Running(p) =>
    /\ txn[p].began <= clock
    /\ KindFits(p)
    /\ WritesFit(p)
    /\ AimsAtTarget(p)
    /\ SeatFree(p)
    /\ HoldsStage(p)
    /\ LapsedFound(p)
    /\ RoomFound(p)

SInv == CreateNeverSurprised /\ \A p \in Txns : SeatInv(p)

LEMMA InitSeats == Init => SInv
<1> SUFFICES ASSUME Init PROVE SInv
  OBVIOUS
<1>1. \A p \in Txns : txn[p].pc = "idle"
  BY DEF Init, Fresh
<1> QED
  BY <1>1 DEF SInv, CreateNeverSurprised, SeatInv, Running, Txns

(* Fewer rows of the table take no more seats.                             *)
LEMMA FewerSeats ==
  ASSUME NEW T \in SUBSET Invites, NEW S \in SUBSET T, Cardinality(T) < Cap
  PROVE  Cardinality(S) < Cap
<1>1. IsFiniteSet(T)
  BY LocksAssumption, FS_Subset
<1>2. Cardinality(S) <= Cardinality(T) /\ IsFiniteSet(S)
  BY <1>1, FS_Subset
<1>3. Cardinality(S) \in Nat /\ Cardinality(T) \in Nat
  BY <1>1, <1>2, FS_CardinalityType
<1> QED
  BY <1>2, <1>3, LocksAssumption

LEMMA ViewRow ==
  ASSUME NEW p, NEW i \in Invites
  PROVE  View(p)[i] = IF txn[p].wrote[i] # None THEN txn[p].wrote[i] ELSE table[i]
  BY DEF View

(* Types of what is read below.                                            *)
LEMMA Readings ==
  ASSUME IInv, NEW p \in Txns
  PROVE  /\ clock \in Nat /\ txn[p].began \in Nat /\ txn[p].now \in Nat
         /\ \A i \in Invites : table[i] \in Row /\ table[i].expiresAt \in Nat
         /\ \A i \in Invites : txn[p].wrote[i] # None =>
              txn[p].wrote[i] \in Row /\ txn[p].wrote[i].expiresAt \in Nat
         /\ \A i \in Invites : View(p)[i] \in Row /\ View(p)[i].expiresAt \in Nat
<1>1. clock \in Nat
  BY LocksAssumption DEF IInv, Types
<1>2. txn[p].began \in Nat /\ txn[p].now \in Nat
  BY LocksAssumption DEF IInv, Types, Txn, Times
<1>3. \A row \in Row : row.expiresAt \in Nat
  BY LocksAssumption DEF Row, Times
<1>4. \A i \in Invites : table[i] \in Row
  BY DEF IInv, Types
<1>5. \A i \in Invites : txn[p].wrote[i] # None => txn[p].wrote[i] \in Row
  BY DEF IInv, Types, Txn
<1>6. \A i \in Invites : View(p)[i] \in Row
  BY <1>4, <1>5, ViewRow
<1> QED
  BY <1>1, <1>2, <1>3, <1>4, <1>5, <1>6

(* A row that occupies a seat now has occupied it since it was written.    *)
LEMMA OccupiesSince ==
  ASSUME NEW row, NEW s \in Nat, NEW t \in Nat, row.expiresAt \in Nat,
         s <= t, Occupies(row, t)
  PROVE  Occupies(row, s)
  BY DEF Occupies

(* What others do to the table under the capacity lock of q only ever gives*)
(* seats back.                                                             *)
Dwindles ==
  \A j \in Invites :
    /\ Alive(table'[j]) => Alive(table[j])
    /\ Open(table'[j]) => Open(table[j]) /\ table'[j].expiresAt = table[j].expiresAt
    /\ Occupies(table'[j], clock') => Occupies(table[j], clock)

LEMMA OthersSeats ==
  ASSUME IInv, clock' \in Nat, NEW q \in Txns, SeatInv(q),
         txn'[q] = txn[q],
         clock <= clock',
         capLock = q => capLock' = q /\ Dwindles,
         \A i \in Invites : txn[q].wrote[i] # None => table'[i].expiresAt = table[i].expiresAt
  PROVE  SeatInv(q)'
<1> SUFFICES ASSUME Running(q)
             PROVE  SeatInv(q)'
  BY DEF SeatInv, Running
<1>1. txn[q].began <= clock' /\ KindFits(q)' /\ AimsAtTarget(q)'
  BY Readings DEF SeatInv, KindFits, AimsAtTarget
<1>2. WritesFit(q)'
  BY DEF SeatInv, WritesFit, WrittenRowFits, Open
<1>3. HoldsStage(q)'
  BY DEF SeatInv, HoldsStage
<1>4. \A j \in Invites : View(q)'[j] = IF txn[q].wrote[j] # None THEN txn[q].wrote[j] ELSE table'[j]
  BY DEF View
<1>5. ASSUME NEW i \in Invites, txn[q].wrote[i] # None, txn[q].kind \in {"create", "redeem"},
             Occupies(txn[q].wrote[i], clock')
      PROVE  SeatsBut(q, i, clock)' < Cap
  <2>1. txn[q].wrote[i].expiresAt \in Nat /\ clock \in Nat /\ clock' \in Nat
    BY <1>5, Readings
  <2>2. Occupies(txn[q].wrote[i], clock)
    BY <1>5, <2>1, OccupiesSince
  <2>3. Occupies(txn[q].wrote[i], txn[q].began)
    BY <2>1, <2>2, Readings, OccupiesSince DEF SeatInv
  <2>4. Dwindles
    BY <1>5, <2>3 DEF IInv, TxnInv
  <2>5. SeatsBut(q, i, clock) < Cap
    BY <1>5, <2>2 DEF SeatInv, SeatFree
  <2>6. ASSUME NEW j \in Invites, Occupies(View(q)'[j], clock')
        PROVE  Occupies(View(q)[j], clock)
    <3>1. CASE txn[q].wrote[j] # None
      <4>1. View(q)'[j] = txn[q].wrote[j] /\ View(q)[j] = txn[q].wrote[j]
        BY <1>4, <3>1, ViewRow
      <4> QED
        BY <2>1, <2>6, <3>1, <4>1, Readings, OccupiesSince
    <3>2. CASE txn[q].wrote[j] = None
      <4>1. View(q)'[j] = table'[j] /\ View(q)[j] = table[j]
        BY <1>4, <3>2, ViewRow
      <4> QED
        BY <2>4, <2>6, <4>1 DEF Dwindles
    <3> QED
      BY <3>1, <3>2
  <2> DEFINE now == {j \in Invites \ {i} : Occupies(View(q)[j], clock)}
             then == {j \in Invites \ {i} : Occupies(View(q)'[j], clock')}
  <2>7. then \in SUBSET now /\ now \in SUBSET Invites
    BY <2>6
  <2>8. SeatsBut(q, i, clock) = Cardinality(now) /\ SeatsBut(q, i, clock)' = Cardinality(then)
    BY DEF SeatsBut
  <2> HIDE DEF now, then
  <2> QED
    BY <2>5, <2>7, <2>8, FewerSeats
<1>6. SeatFree(q)'
  BY <1>5 DEF SeatFree
<1>7. LapsedFound(q)'
  <2> SUFFICES ASSUME q \in Creates,
                      txn[q].pc \in {"updating", "waiting", "guarding", "checking"},
                      NEW j \in Invites \ {txn[q].target}, Open(View(q)'[j])
               PROVE  View(q)'[j].expiresAt > txn[q].now \/ j \in Unvisited(q)
    BY DEF LapsedFound, Unvisited, Open
  <2>1. capLock = q
    BY DEF SeatInv, HoldsStage
  <2>2. Open(View(q)[j]) /\ View(q)'[j].expiresAt = View(q)[j].expiresAt
    BY <1>4, <2>1, ViewRow DEF Dwindles
  <2> QED
    BY <2>2 DEF SeatInv, LapsedFound
<1>8. RoomFound(q)'
  <2> SUFFICES ASSUME txn[q].pc = "inserting"
               PROVE  Cardinality({j \in Invites \ {txn[q].target} : Alive(View(q)'[j])}) < Cap
    BY DEF RoomFound, Alive, Open
  <2>1. q \in Creates /\ capLock = q
    BY DEF IInv, TxnInv, SeatInv, HoldsStage
  <2>2. \A j \in Invites : Alive(View(q)'[j]) => Alive(View(q)[j])
    BY <1>4, <2>1, ViewRow DEF Dwindles
  <2>3. Cardinality({j \in Invites \ {txn[q].target} : Alive(View(q)[j])}) < Cap
    BY DEF SeatInv, RoomFound
  <2> DEFINE now == {j \in Invites \ {txn[q].target} : Alive(View(q)[j])}
             then == {j \in Invites \ {txn[q].target} : Alive(View(q)'[j])}
  <2>4. then \in SUBSET now /\ now \in SUBSET Invites
    BY <2>2
  <2> HIDE DEF now, then
  <2>5. Cardinality(now) < Cap => Cardinality(then) < Cap
    BY <2>4, FewerSeats
  <2> QED
    BY <2>3, <2>5 DEF now, then
<1> QED
  BY <1>1, <1>2, <1>3, <1>6, <1>7, <1>8 DEF SeatInv

(* The steps of p that commit nothing leave the others alone.              *)
LEMMA QuietOthers ==
  ASSUME IInv, SInv, NEW p \in Txns, UNCHANGED <<clock, table>>,
         \A q \in Txns \ {p} : txn'[q] = txn[q] /\ (capLock = q => capLock' = q),
         SeatInv(p)', p \in Creates => txn'[p].pc # "rejected"
  PROVE  SInv'
<1>1. clock <= clock' /\ clock' \in Nat /\ Dwindles
  BY Readings DEF Dwindles, Alive, Open, Occupies
<1>2. ASSUME NEW q \in Txns PROVE SeatInv(q)'
  BY <1>1, OthersSeats DEF SInv
<1>3. CreateNeverSurprised'
  BY DEF SInv, CreateNeverSurprised, Txns
<1> QED
  BY <1>2, <1>3 DEF SInv

(* A step of p that writes nothing.                                        *)
LEMMA SelfSeats ==
  ASSUME IInv, SInv, NEW p \in Txns, Running(p), NEW x \in Txn,
         txn' = [txn EXCEPT ![p] = x],
         UNCHANGED <<clock, table>>,
         capLock' \in {capLock, p}, capLock \in {None, p, capLock'},
         x.wrote = txn[p].wrote, x.began = txn[p].began, x.now = txn[p].now,
         x.kind = txn[p].kind, x.target = txn[p].target, x.pc # "rejected",
         AimsAtTarget(p)', HoldsStage(p)', LapsedFound(p)', RoomFound(p)'
  PROVE  SInv'
<1>1. txn'[p] = x /\ SeatInv(p) /\ \A q \in Txns \ {p} : txn'[q] = txn[q]
  BY DEF IInv, Types, SInv
<1>2. \A j \in Invites : View(p)'[j] = View(p)[j]
  BY <1>1 DEF View
<1>3. KindFits(p)' /\ WritesFit(p)'
  BY <1>1 DEF SeatInv, KindFits, WritesFit, WrittenRowFits, Open
<1>4. SeatFree(p)'
  <2>1. \A i \in Invites : SeatsBut(p, i, clock)' = SeatsBut(p, i, clock)
    BY <1>2 DEF SeatsBut, Occupies, Open
  <2> QED
    BY <1>1, <2>1 DEF SeatInv, SeatFree, Occupies, Open
<1>5. SeatInv(p)'
  BY <1>1, <1>3, <1>4 DEF SeatInv
<1>6. \A q \in Txns \ {p} : capLock = q => capLock' = q
  BY LocksAssumption
<1> QED
  BY <1>1, <1>5, <1>6, QuietOthers

LEMMA BeginSeats ==
  ASSUME IInv, SInv, NEW p \in Txns, NEW i \in Invites, Begin(p, i)
  PROVE  SInv'
<1>1. PICK now \in AppNow, kind \in IF p \in Creates THEN {"create"} ELSE UpdateKinds :
        LET x == [txn[p] EXCEPT !.pc = "locking", !.kind = kind, !.began = clock,
                                !.now = now, !.target = i]
        IN  txn' = [txn EXCEPT ![p] = IF p \in Creates THEN x ELSE Statement(x)]
  BY DEF Begin
<1> DEFINE x == [txn[p] EXCEPT !.pc = "locking", !.kind = kind, !.began = clock,
                               !.now = now, !.target = i]
<1>2. /\ txn[p] \in Txn /\ txn[p].pc = "idle" /\ ~ Running(p) /\ clock \in Nat
      /\ UNCHANGED <<clock, table, rowLock, capLock>>
  BY Readings DEF Begin, IInv, Types, Running
<1>3. \A j \in Invites : txn[p].wrote[j] = None
  BY <1>2 DEF IInv, TxnInv
<1>4. txn'[p] = IF p \in Creates THEN x ELSE Statement(x)
  BY <1>1 DEF IInv, Types
<1>5. /\ txn'[p].wrote = txn[p].wrote /\ txn'[p].kind = kind /\ txn'[p].began = clock
      /\ txn'[p].target = i
      /\ p \in Creates => txn'[p].pc = "locking"
      /\ p \notin Creates => /\ txn'[p].pc = "updating"
                             /\ kind = "redeem" => txn'[p].todo \subseteq {i}
  <2>1. /\ x.wrote = txn[p].wrote /\ x.kind = kind /\ x.began = clock /\ x.target = i
        /\ x.pc = "locking"
    BY <1>2 DEF Txn
  <2>2. /\ Statement(x).wrote = x.wrote /\ Statement(x).kind = x.kind
        /\ Statement(x).began = x.began /\ Statement(x).target = x.target
        /\ Statement(x).pc = "updating"
        /\ Statement(x).todo = {j \in Invites : Matches(x, j)}
    BY <1>2 DEF Statement, Txn
  <2>3. kind = "redeem" => {j \in Invites : Matches(x, j)} \subseteq {i}
    BY <2>1 DEF Matches
  <2> HIDE DEF x
  <2> QED
    BY <1>4, <2>1, <2>2, <2>3
<1> HIDE DEF x
<1>6. KindFits(p)' /\ WritesFit(p)' /\ SeatFree(p)'
  BY <1>3, <1>5 DEF KindFits, WritesFit, WrittenRowFits, SeatFree
<1>7. AimsAtTarget(p)' /\ HoldsStage(p)' /\ LapsedFound(p)' /\ RoomFound(p)'
  <2>1. kind = "redeem" => p \notin Creates
    BY <1>1
  <2> QED
    BY <1>5, <2>1 DEF AimsAtTarget, HoldsStage, LapsedFound, RoomFound
<1>8. SeatInv(p)'
  BY <1>2, <1>5, <1>6, <1>7 DEF SeatInv
<1>9. \A q \in Txns \ {p} : txn'[q] = txn[q]
  BY <1>1 DEF IInv, Types
<1>10. txn'[p].pc # "rejected"
  BY <1>5
<1> QED
  BY <1>2, <1>8, <1>9, <1>10, QuietOthers

LEMMA TakeCapacityLockSeats ==
  ASSUME IInv, SInv, NEW p \in Txns, TakeCapacityLock(p)
  PROVE  SInv'
<1> DEFINE x == Statement(txn[p])
<1>1. /\ txn[p] \in Txn /\ txn[p].pc = "locking" /\ Running(p) /\ SeatInv(p)
      /\ p \in Creates /\ UNCHANGED <<clock, table>> /\ capLock = None /\ capLock' = p
  BY DEF TakeCapacityLock, IInv, Types, TxnInv, Running, Ended, SInv
<1>2. /\ x \in Txn /\ x.pc = "updating" /\ x.todo = {j \in Invites : Matches(txn[p], j)}
      /\ x.wrote = txn[p].wrote /\ x.began = txn[p].began /\ x.now = txn[p].now
      /\ x.kind = txn[p].kind /\ x.target = txn[p].target
  BY <1>1 DEF Statement, Txn
<1>3. txn' = [txn EXCEPT ![p] = x] /\ txn'[p] = x
  BY DEF TakeCapacityLock, IInv, Types
<1>4. txn[p].kind = "create"
  BY <1>1 DEF SeatInv, KindFits
<1> HIDE DEF x
<1>5. AimsAtTarget(p)' /\ HoldsStage(p)' /\ RoomFound(p)'
  BY <1>1, <1>2, <1>3, <1>4 DEF AimsAtTarget, HoldsStage, RoomFound
<1>6. LapsedFound(p)'
  <2> SUFFICES ASSUME NEW j \in Invites \ {txn[p].target}, Open(View(p)'[j])
               PROVE  View(p)'[j].expiresAt > txn[p].now \/ j \in x.todo
    BY <1>2, <1>3 DEF LapsedFound, Unvisited
  <2>1. View(p)'[j] = View(p)[j]
    BY <1>1, <1>2, <1>3 DEF View
  <2>2. txn[p].wrote[j] = None
    BY <1>1, <1>4, <2>1, ViewRow DEF SeatInv, WritesFit, WrittenRowFits, Open
  <2>3. View(p)[j] = table[j] /\ table[j].expiresAt \in Nat /\ txn[p].now \in Nat
    BY <2>2, ViewRow, Readings
  <2> QED
    BY <1>2, <1>4, <2>1, <2>3 DEF Matches
<1> QED
  BY <1>1, <1>2, <1>3, <1>5, <1>6, SelfSeats

LEMMA VisitSeats ==
  ASSUME IInv, SInv, NEW p \in Txns, NEW i \in Invites, Visit(p, i)
  PROVE  SInv'
<1> DEFINE x == [txn[p] EXCEPT !.pc = "waiting", !.at = i, !.todo = @ \ {i}]
<1>1. /\ txn[p] \in Txn /\ txn[p].pc = "updating" /\ i \in txn[p].todo /\ Running(p)
      /\ SeatInv(p) /\ UNCHANGED <<clock, table, capLock>>
  BY DEF Visit, IInv, Types, Running, Ended, SInv
<1>2. /\ x \in Txn /\ x.pc = "waiting" /\ x.at = i /\ x.todo = txn[p].todo \ {i}
      /\ x.wrote = txn[p].wrote /\ x.began = txn[p].began /\ x.now = txn[p].now
      /\ x.kind = txn[p].kind /\ x.target = txn[p].target
  BY <1>1 DEF Txn
<1>3. txn' = [txn EXCEPT ![p] = x] /\ txn'[p] = x
  BY DEF Visit, IInv, Types
<1> HIDE DEF x
<1>4. AimsAtTarget(p)' /\ HoldsStage(p)' /\ RoomFound(p)'
  BY <1>1, <1>2, <1>3 DEF SeatInv, AimsAtTarget, HoldsStage, RoomFound
<1>5. LapsedFound(p)'
  <2>1. \A j \in Invites : View(p)'[j] = View(p)[j]
    BY <1>1, <1>2, <1>3 DEF View
  <2>2. Unvisited(p) \subseteq Unvisited(p)'
    BY <1>1, <1>2, <1>3 DEF Unvisited
  <2> QED
    BY <1>1, <1>2, <1>3, <2>1, <2>2 DEF SeatInv, LapsedFound, Open
<1> QED
  BY <1>1, <1>2, <1>3, <1>4, <1>5, SelfSeats

LEMMA LockRowSeats ==
  ASSUME IInv, SInv, NEW p \in Txns, LockRow(p)
  PROVE  SInv'
<1> DEFINE i == txn[p].at
           pc == IF Matches(txn[p], i) THEN "guarding" ELSE "updating"
           x == [txn[p] EXCEPT !.pc = pc]
<1>1. /\ txn[p] \in Txn /\ txn[p].pc = "waiting" /\ i \in Invites /\ Running(p)
      /\ SeatInv(p) /\ UNCHANGED <<clock, table, capLock>>
  BY DEF LockRow, IInv, Types, TxnInv, Running, Ended, SInv
<1>2. pc \in {"guarding", "updating"} /\ (pc = "updating" => ~ Matches(txn[p], i))
  OBVIOUS
<1> HIDE DEF pc
<1>3. /\ x \in Txn /\ x.pc = pc /\ x.at = txn[p].at /\ x.todo = txn[p].todo
      /\ x.wrote = txn[p].wrote /\ x.began = txn[p].began /\ x.now = txn[p].now
      /\ x.kind = txn[p].kind /\ x.target = txn[p].target
  BY <1>1, <1>2 DEF Txn
<1>4. txn' = [txn EXCEPT ![p] = x] /\ txn'[p] = x
  BY DEF LockRow, IInv, Types, pc
<1> HIDE DEF x
<1>5. AimsAtTarget(p)' /\ HoldsStage(p)' /\ RoomFound(p)'
  BY <1>1, <1>2, <1>3, <1>4 DEF SeatInv, AimsAtTarget, HoldsStage, RoomFound
<1>6. LapsedFound(p)'
  <2> SUFFICES ASSUME p \in Creates, NEW j \in Invites \ {txn[p].target}, Open(View(p)'[j])
               PROVE  View(p)'[j].expiresAt > txn[p].now \/ j \in Unvisited(p)'
    BY <1>3, <1>4 DEF LapsedFound
  <2>1. View(p)'[j] = View(p)[j]
    BY <1>1, <1>3, <1>4 DEF View
  <2>2. View(p)[j].expiresAt > txn[p].now \/ j \in txn[p].todo \cup {i}
    BY <1>1, <2>1 DEF SeatInv, LapsedFound, Unvisited
  <2>3. txn[p].todo \subseteq Unvisited(p)' /\ (pc = "guarding" => i \in Unvisited(p)')
    BY <1>2, <1>3, <1>4 DEF Unvisited
  <2>4. CASE pc = "updating" /\ j = i
    <3>1. txn[p].kind = "create" /\ txn[p].wrote[j] = None
      BY <1>1, <2>1, ViewRow DEF SeatInv, KindFits, WritesFit, WrittenRowFits, Open
    <3>2. View(p)[j] = table[j] /\ table[j].expiresAt \in Nat /\ txn[p].now \in Nat
      BY <3>1, ViewRow, Readings
    <3> QED
      BY <1>2, <2>1, <2>4, <3>1, <3>2 DEF Matches
  <2> QED
    BY <1>2, <2>1, <2>2, <2>3, <2>4
<1> QED
  BY <1>1, <1>2, <1>3, <1>4, <1>5, <1>6, SelfSeats

(* The end of the UPDATE, and the check of createStage1Invite.             *)
LEMMA EndUpdateSeats ==
  ASSUME IInv, SInv, NEW p \in Txns, EndUpdate(p)
  PROVE  SInv'
<1> DEFINE pc == IF p \in Creates THEN "checking" ELSE "committing"
           x == [txn[p] EXCEPT !.pc = pc]
<1>1. /\ txn[p] \in Txn /\ txn[p].pc = "updating" /\ txn[p].todo = {} /\ Running(p)
      /\ SeatInv(p) /\ UNCHANGED <<clock, table, capLock>>
  BY DEF EndUpdate, IInv, Types, Running, Ended, SInv
<1>2. /\ x \in Txn /\ x.pc = pc /\ x.todo = txn[p].todo
      /\ x.wrote = txn[p].wrote /\ x.began = txn[p].began /\ x.now = txn[p].now
      /\ x.kind = txn[p].kind /\ x.target = txn[p].target
  BY <1>1 DEF Txn
<1>3. txn' = [txn EXCEPT ![p] = x] /\ txn'[p] = x
  BY DEF EndUpdate, IInv, Types
<1>4. pc \in {"checking", "committing"}
  OBVIOUS
<1> HIDE DEF x, pc
<1>5. AimsAtTarget(p)' /\ HoldsStage(p)' /\ RoomFound(p)'
  BY <1>1, <1>2, <1>3, <1>4 DEF SeatInv, AimsAtTarget, HoldsStage, RoomFound
<1>6. LapsedFound(p)'
  <2>1. \A j \in Invites : View(p)'[j] = View(p)[j]
    BY <1>1, <1>2, <1>3 DEF View
  <2>2. Unvisited(p) = {}
    BY <1>1 DEF Unvisited
  <2> QED
    BY <1>1, <1>2, <1>3, <2>1, <2>2 DEF SeatInv, LapsedFound, Open
<1> QED
  BY <1>1, <1>2, <1>3, <1>4, <1>5, <1>6, SelfSeats

(* A transaction ends without committing.                                  *)
LEMMA RollBackSeats ==
  ASSUME IInv, SInv, NEW p \in Txns, NEW pc \in Ended, RollBack(p, pc),
         p \in Creates => pc # "rejected"
  PROVE  SInv'
<1>1. txn'[p] = Fresh(pc) /\ \A q \in Txns \ {p} : txn'[q] = txn[q]
  BY DEF RollBack, IInv, Types
<1>2. txn'[p].pc = pc /\ ~ Running(p)'
  BY <1>1 DEF Fresh, Running
<1>3. \A q \in Txns \ {p} : capLock = q => capLock' = q
  BY DEF RollBack, Released
<1>4. UNCHANGED <<clock, table>> /\ SeatInv(p)'
  BY <1>2 DEF RollBack, SeatInv
<1> QED
  BY <1>1, <1>2, <1>3, <1>4, QuietOthers

LEMMA CheckSeatsSeats ==
  ASSUME IInv, SInv, NEW p \in Txns, CheckSeats(p)
  PROVE  SInv'
<1>1. /\ txn[p] \in Txn /\ txn[p].pc = "checking" /\ p \in Creates /\ Running(p) /\ SeatInv(p)
  BY DEF CheckSeats, IInv, Types, TxnInv, Running, Ended, SInv
<1>2. CASE RollBack(p, "refused")
  BY <1>2, RollBackSeats DEF Ended
<1>3. CASE /\ SeatsBut(p, txn[p].target, txn[p].now) < Cap
           /\ txn' = [txn EXCEPT ![p].pc = "inserting"]
           /\ UNCHANGED <<clock, table, rowLock, capLock>>
  <2> DEFINE x == [txn[p] EXCEPT !.pc = "inserting"]
             alive == {j \in Invites \ {txn[p].target} : Alive(View(p)[j])}
             seated == {j \in Invites \ {txn[p].target} : Occupies(View(p)[j], txn[p].now)}
  <2>1. /\ x \in Txn /\ x.pc = "inserting" /\ x.todo = txn[p].todo
        /\ x.wrote = txn[p].wrote /\ x.began = txn[p].began /\ x.now = txn[p].now
        /\ x.kind = txn[p].kind /\ x.target = txn[p].target
    BY <1>1 DEF Txn
  <2>2. txn' = [txn EXCEPT ![p] = x] /\ txn'[p] = x
    BY <1>3 DEF IInv, Types
  <2> HIDE DEF x
  <2>3. AimsAtTarget(p)' /\ HoldsStage(p)' /\ LapsedFound(p)'
    BY <1>1, <1>3, <2>1, <2>2 DEF SeatInv, AimsAtTarget, HoldsStage, LapsedFound
  <2>4. Unvisited(p) = {}
    BY <1>1 DEF Unvisited
  <2>5. alive \in SUBSET seated /\ seated \in SUBSET Invites
    BY <1>1, <2>4 DEF SeatInv, LapsedFound, Alive, Occupies
  <2>6. \A j \in Invites : View(p)'[j] = View(p)[j]
    BY <1>3, <2>1, <2>2 DEF View
  <2>7. {j \in Invites \ {txn[p].target} : Alive(View(p)'[j])} = alive
    BY <2>6
  <2>8. Cardinality(seated) < Cap
    BY <1>3 DEF SeatsBut
  <2> HIDE DEF alive, seated
  <2>9. Cardinality(alive) < Cap
    BY <2>5, <2>8, FewerSeats
  <2>10. RoomFound(p)'
    BY <2>1, <2>2, <2>7, <2>9 DEF RoomFound, Alive, Open
  <2> QED
    BY <1>1, <1>3, <2>1, <2>2, <2>3, <2>10, SelfSeats
<1> QED
  BY <1>2, <1>3 DEF CheckSeats

(* A row is written: if it occupies a seat, the seat has just been counted.*)
LEMMA WriteSeats ==
  ASSUME IInv, SInv, NEW p \in Txns, NEW i \in Invites, NEW row \in Row,
         NEW pc \in {"updating", "committing"},
         txn[p].pc \in {"guarding", "inserting"},
         txn' = [txn EXCEPT ![p].pc = pc, ![p].wrote[i] = row],
         UNCHANGED <<clock, table>>,
         capLock' \in {capLock, p}, capLock \in {None, p, capLock'},
         Occupies(row, txn[p].began) => SeatsBut(p, i, txn[p].began) < Cap,
         txn[p].kind = "create" /\ i # txn[p].target => row.status = "closed",
         txn[p].kind = "redeem" => i = txn[p].target,
         WritesFit(p)', LapsedFound(p)'
  PROVE  SInv'
<1> DEFINE x == [txn[p] EXCEPT !.pc = pc, !.wrote[i] = row]
<1>1. txn[p] \in Txn /\ txn \in [Txns -> Txn] /\ SeatInv(p) /\ Running(p)
  BY DEF IInv, Types, SInv, Running, Ended
<1>2. /\ x.pc = pc /\ x.todo = txn[p].todo /\ x.wrote[i] = row
      /\ \A j \in Invites \ {i} : x.wrote[j] = txn[p].wrote[j]
      /\ x.began = txn[p].began /\ x.now = txn[p].now
      /\ x.kind = txn[p].kind /\ x.target = txn[p].target
  BY <1>1 DEF Txn
<1>3. txn'[p] = x /\ \A q \in Txns \ {p} : txn'[q] = txn[q]
  BY <1>1
<1> HIDE DEF x
<1>4. KindFits(p)' /\ AimsAtTarget(p)' /\ HoldsStage(p)' /\ RoomFound(p)'
  <2>1. txn[p].kind = "redeem" => p \notin Creates
    BY <1>1 DEF SeatInv, KindFits
  <2>2. p \in Creates => capLock' = p
    BY <1>1, LocksAssumption DEF SeatInv, HoldsStage
  <2> QED
    BY <1>1, <1>2, <1>3, <2>1, <2>2
       DEF SeatInv, KindFits, AimsAtTarget, HoldsStage, RoomFound
<1>5. \A j \in Invites : View(p)'[j] = IF j = i THEN row ELSE View(p)[j]
  <2>1. \A j \in Invites : View(p)'[j] = IF x.wrote[j] # None THEN x.wrote[j] ELSE table[j]
    <3>1. \A j \in Invites :
            View(p)'[j] = IF txn'[p].wrote[j] # None THEN txn'[p].wrote[j] ELSE table[j]
      BY DEF View
    <3> QED
      BY <1>3, <3>1
  <2>2. row # None
    BY NoneIsNoRow
  <2> QED
    BY <1>2, <2>1, <2>2, ViewRow
<1>6. ASSUME NEW k \in Invites, txn'[p].wrote[k] # None,
             txn[p].kind \in {"create", "redeem"}, Occupies(txn'[p].wrote[k], clock)
      PROVE  SeatsBut(p, k, clock)' < Cap
  <2> DEFINE then == {j \in Invites \ {k} : Occupies(View(p)'[j], clock)}
  <2>1. SeatsBut(p, k, clock)' = Cardinality(then)
    BY DEF SeatsBut, Occupies, Open
  <2>2. txn[p].began \in Nat /\ clock \in Nat /\ txn[p].began <= clock
    BY <1>1, Readings DEF SeatInv
  <2>3. CASE k = i
    <3> DEFINE counted == {j \in Invites \ {i} : Occupies(View(p)[j], txn[p].began)}
    <3>1. row.expiresAt \in Nat
      BY LocksAssumption DEF Row, Times
    <3>2. Occupies(row, txn[p].began)
      BY <1>2, <1>3, <1>6, <2>2, <2>3, <3>1, OccupiesSince
    <3>3. Cardinality(counted) < Cap
      BY <3>2 DEF SeatsBut
    <3>4. \A j \in Invites \ {i} : Occupies(View(p)'[j], clock) => Occupies(View(p)[j], txn[p].began)
      BY <1>5, <2>2, Readings, OccupiesSince
    <3>5. then \in SUBSET counted /\ counted \in SUBSET Invites
      BY <2>3, <3>4
    <3> HIDE DEF then, counted
    <3> QED
      BY <2>1, <3>3, <3>5, FewerSeats
  <2>4. CASE k # i
    <3> DEFINE now == {j \in Invites \ {k} : Occupies(View(p)[j], clock)}
    <3>1. txn[p].wrote[k] # None /\ Occupies(txn[p].wrote[k], clock)
      BY <1>2, <1>3, <1>6, <2>4
    <3>2. txn[p].kind # "redeem"
      BY <1>1, <2>4, <3>1 DEF SeatInv, WritesFit, WrittenRowFits
    <3>3. k = txn[p].target
      BY <1>1, <1>6, <3>1, <3>2 DEF SeatInv, WritesFit, WrittenRowFits, Occupies, Open
    <3>4. ~ Occupies(row, clock)
      BY <1>6, <2>4, <3>2, <3>3 DEF Occupies, Open
    <3>5. Cardinality(now) < Cap
      BY <1>1, <1>6, <3>1 DEF SeatInv, SeatFree, SeatsBut
    <3>6. then \in SUBSET now /\ now \in SUBSET Invites
      BY <1>5, <3>4
    <3> HIDE DEF then, now
    <3> QED
      BY <2>1, <3>5, <3>6, FewerSeats
  <2> QED
    BY <2>3, <2>4
<1>7. SeatFree(p)'
  <2>1. txn'[p].kind = txn[p].kind
    BY <1>2, <1>3
  <2> QED
    BY <1>6, <2>1 DEF SeatFree
<1>8. SeatInv(p)'
  BY <1>1, <1>2, <1>3, <1>4, <1>7 DEF SeatInv
<1>9. txn'[p].pc # "rejected" /\ \A q \in Txns \ {p} : capLock = q => capLock' = q
  BY <1>2, <1>3, LocksAssumption
<1> QED
  BY <1>3, <1>8, <1>9, QuietOthers

LEMMA UpdateRowSeats ==
  ASSUME IInv, SInv, NEW p \in Txns, UpdateRow(p)
  PROVE  SInv'
<1> DEFINE i == txn[p].at
           row == Updated(txn[p].kind, table[i])
<1>1. /\ txn[p] \in Txn /\ txn[p].pc = "guarding" /\ Running(p) /\ SeatInv(p)
      /\ i \in Invites /\ Open(table[i]) /\ table[i] \in Row
      /\ p \in Creates => i # txn[p].target
  BY DEF UpdateRow, IInv, Types, TxnInv, Grips, Owns, Open, Running, Ended, SInv
<1>2. /\ row \in Row /\ row.expiresAt = table[i].expiresAt
      /\ txn[p].kind \in {"create", "revoke"} => row.status = "closed"
      /\ txn[p].kind \in {"sweep", "claim"} => Open(row)
      /\ txn[p].kind = "redeem" => row.status = "consumed"
  <2>1. txn[p].kind \in {"create"} \cup UpdateKinds
    BY <1>1 DEF Txn
  <2> QED
    BY <1>1, <2>1 DEF Updated, Row, UpdateKinds, Open
<1>3. txn[p].kind = "create" <=> p \in Creates
  BY <1>1 DEF SeatInv, KindFits, UpdateKinds
<1>4. Write(p, i, row, "updating")
  BY DEF UpdateRow
<1> HIDE DEF row
<1>5. CASE RollBack(p, "rejected") /\ Occupies(row, txn[p].began)
  <2>1. p \notin Creates
    BY <1>2, <1>3, <1>5 DEF Occupies, Open
  <2> QED
    BY <1>5, <2>1, RollBackSeats DEF Ended
<1>6. CASE /\ txn' = [txn EXCEPT ![p].pc = "updating", ![p].wrote[i] = row]
           /\ UNCHANGED <<clock, table>>
           /\ \/ /\ capLock \in {None, p} /\ capLock' = p
                 /\ SeatsBut(p, i, txn[p].began) < Cap
              \/ ~ Occupies(row, txn[p].began) /\ UNCHANGED capLock
  <2>1. /\ txn'[p].pc = "updating" /\ txn'[p].todo = txn[p].todo /\ txn'[p].wrote[i] = row
        /\ \A j \in Invites \ {i} : txn'[p].wrote[j] = txn[p].wrote[j]
        /\ txn'[p].kind = txn[p].kind /\ txn'[p].target = txn[p].target
        /\ txn'[p].now = txn[p].now
    BY <1>1, <1>6 DEF IInv, Types, Txn
  <2>2. txn[p].kind = "redeem" => i = txn[p].target
    BY <1>1 DEF SeatInv, AimsAtTarget
  <2>3. WritesFit(p)'
    <3> HIDE DEF i
    <3>1. SUFFICES ASSUME NEW j \in Invites, txn'[p].wrote[j] # None
                   PROVE  WrittenRowFits(txn[p].kind, txn[p].target, j, txn'[p].wrote[j], table[j])
      BY <1>6, <2>1 DEF WritesFit, WrittenRowFits, Open
    <3>2. CASE j = i
      BY <1>1, <1>2, <1>3, <2>1, <2>2, <3>2 DEF WrittenRowFits, i
    <3>3. CASE j # i
      BY <1>1, <2>1, <3>1, <3>3 DEF SeatInv, WritesFit, WrittenRowFits
    <3> QED
      BY <3>2, <3>3
  <2>4. LapsedFound(p)'
    <3> SUFFICES ASSUME p \in Creates, NEW j \in Invites \ {txn[p].target},
                        Open(View(p)'[j])
                 PROVE  View(p)'[j].expiresAt > txn[p].now \/ j \in txn[p].todo
      BY <2>1 DEF LapsedFound, Unvisited
    <3>1. View(p)'[j] = IF txn'[p].wrote[j] # None THEN txn'[p].wrote[j] ELSE table[j]
      BY <1>6 DEF View
    <3>2. j # i
      BY <1>2, <1>3, <2>1, <3>1, NoneIsNoRow DEF Open
    <3>3. View(p)'[j] = View(p)[j] /\ Unvisited(p) = txn[p].todo \cup {i}
      BY <1>1, <2>1, <3>1, <3>2, ViewRow DEF Unvisited
    <3> QED
      BY <1>1, <3>2, <3>3 DEF SeatInv, LapsedFound
  <2>5. Occupies(row, txn[p].began) => SeatsBut(p, i, txn[p].began) < Cap
    BY <1>6
  <2>6. txn[p].kind = "create" /\ i # txn[p].target => row.status = "closed"
    BY <1>2
  <2>7. capLock' \in {capLock, p} /\ capLock \in {None, p, capLock'}
    BY <1>6
  <2> HIDE DEF i
  <2> QED
    BY <1>1, <1>2, <1>6, <2>2, <2>3, <2>4, <2>5, <2>6, <2>7, WriteSeats
<1> QED
  BY <1>4, <1>5, <1>6 DEF Write

LEMMA InsertInviteSeats ==
  ASSUME IInv, SInv, NEW p \in Txns, InsertInvite(p)
  PROVE  SInv'
<1> DEFINE i == txn[p].target
           row == [status |-> "pending", expiresAt |-> txn[p].now + Life]
<1>1. /\ txn[p] \in Txn /\ txn[p].pc = "inserting" /\ p \in Creates /\ Running(p)
      /\ SeatInv(p) /\ i \in Invites
  BY DEF InsertInvite, IInv, Types, TxnInv, Running, Ended, SInv
<1>2. row \in Row
  <2>1. txn[p].now \in 0 .. (MaxTime + Skew)
    BY <1>1 DEF Txn
  <2> QED
    BY <2>1, LocksAssumption DEF Row, Times
<1>3. txn[p].kind = "create"
  BY <1>1 DEF SeatInv, KindFits
<1>4. SeatsBut(p, i, txn[p].began) < Cap
  <2> DEFINE alive == {j \in Invites \ {i} : Alive(View(p)[j])}
             seated == {j \in Invites \ {i} : Occupies(View(p)[j], txn[p].began)}
  <2>1. Cardinality(alive) < Cap
    BY <1>1 DEF SeatInv, RoomFound
  <2>2. seated \in SUBSET alive /\ alive \in SUBSET Invites
    BY DEF Occupies, Alive
  <2>3. SeatsBut(p, i, txn[p].began) = Cardinality(seated)
    BY DEF SeatsBut
  <2> HIDE DEF alive, seated
  <2> QED
    BY <2>1, <2>2, <2>3, FewerSeats
<1>5. Write(p, i, row, "committing")
  BY DEF InsertInvite
<1>6. /\ txn' = [txn EXCEPT ![p].pc = "committing", ![p].wrote[i] = row]
      /\ UNCHANGED <<clock, table>>
      /\ \/ capLock \in {None, p} /\ capLock' = p
         \/ UNCHANGED capLock
  BY <1>4, <1>5 DEF Write
<1>7. row.status = "pending"
  OBVIOUS
<1> HIDE DEF row
<1>8. /\ txn'[p].pc = "committing" /\ txn'[p].wrote[i] = row
      /\ \A j \in Invites \ {i} : txn'[p].wrote[j] = txn[p].wrote[j]
      /\ txn'[p].kind = txn[p].kind /\ txn'[p].target = txn[p].target
  BY <1>1, <1>6 DEF IInv, Types, Txn
<1>9. WritesFit(p)' /\ LapsedFound(p)'
  BY <1>1, <1>3, <1>7, <1>8 DEF SeatInv, WritesFit, WrittenRowFits, LapsedFound
<1>10. capLock' \in {capLock, p} /\ capLock \in {None, p, capLock'}
  BY <1>6
<1> HIDE DEF i
<1> QED
  BY <1>1, <1>2, <1>3, <1>4, <1>6, <1>9, <1>10, WriteSeats DEF i

(* What a transaction commits: rows it has locked, and at most one new row,*)
(* under the capacity lock.                                                *)
LEMMA CommittedRow ==
  ASSUME IInv, SInv, NEW p \in Txns, Commit(p), NEW j \in Invites
  PROVE  \/ table'[j] = table[j] /\ txn[p].wrote[j] = None
         \/ /\ table'[j] = txn[p].wrote[j] /\ txn[p].wrote[j] # None
            /\ \/ Open(table[j])
               \/ p \in Creates /\ j = txn[p].target /\ table[j].status = "absent"
BY ViewRow DEF Commit, IInv, TxnInv, Grips, Owns

LEMMA CommitSeats ==
  ASSUME IInv, SInv, NEW p \in Txns, Commit(p)
  PROVE  SInv'
<1>1. /\ txn[p].pc = "committing" /\ Running(p) /\ SeatInv(p) /\ TxnInv(p)
      /\ UNCHANGED clock /\ clock \in Nat /\ txn[p].began \in Nat
  BY Readings DEF Commit, Running, Ended, SInv, IInv
<1>2. txn'[p] = Fresh("done") /\ \A q \in Txns \ {p} : txn'[q] = txn[q]
  BY DEF Commit, IInv, Types
<1>3. SeatInv(p)' /\ txn'[p].pc # "rejected"
  BY <1>2 DEF SeatInv, Running, Fresh, Ended
<1>4. ASSUME NEW q \in Txns, q # p
      PROVE  SeatInv(q)'
  <2>1. SeatInv(q) /\ txn'[q] = txn[q]
    BY <1>2, <1>4 DEF SInv
  <2>2. ASSUME capLock = q
        PROVE  capLock' = q /\ Dwindles
    <3>1. capLock' = q
      BY <1>4, <2>2 DEF Commit, Released
    <3>2. p \notin Creates /\ txn[p].kind \in UpdateKinds
      BY <1>1, <1>4, <2>2 DEF SeatInv, HoldsStage, KindFits
    <3>3. ASSUME NEW j \in Invites
          PROVE  /\ Alive(table'[j]) => Alive(table[j])
                 /\ Open(table'[j]) =>
                      Open(table[j]) /\ table'[j].expiresAt = table[j].expiresAt
                 /\ Occupies(table'[j], clock') => Occupies(table[j], clock)
      <4>1. CASE table'[j] = table[j]
        BY <1>1, <4>1
      <4>2. CASE table'[j] = txn[p].wrote[j] /\ txn[p].wrote[j] # None /\ Open(table[j])
        <5>1. ~ Occupies(txn[p].wrote[j], txn[p].began)
          BY <1>1, <1>4, <2>2, <4>2 DEF TxnInv
        <5>2. ~ Occupies(txn[p].wrote[j], clock)
          BY <1>1, <4>2, <5>1, Readings, OccupiesSince DEF SeatInv
        <5>3. Open(txn[p].wrote[j]) => txn[p].wrote[j].expiresAt = table[j].expiresAt
          BY <1>1, <3>2, <4>2 DEF SeatInv, WritesFit, WrittenRowFits, UpdateKinds, Open
        <5> QED
          BY <1>1, <4>2, <5>2, <5>3 DEF Alive
      <4> QED
        BY <3>2, <4>1, <4>2, CommittedRow
    <3> QED
      BY <3>1, <3>3 DEF Dwindles
  <2>3. ASSUME NEW j \in Invites, txn[q].wrote[j] # None
        PROVE  table'[j] = table[j]
    <3>1. (Grips(q, j) \/ Owns(q, j)) /\ (txn[p].wrote[j] # None => Grips(p, j) \/ Owns(p, j))
      BY <2>3 DEF IInv, TxnInv
    <3>2. ~ ((Grips(q, j) \/ Owns(q, j)) /\ (Grips(p, j) \/ Owns(p, j)))
      BY <1>4 DEF Grips, Owns, Open, IInv, DistinctTargets
    <3> QED
      BY <3>1, <3>2, CommittedRow
  <2> QED
    BY <1>1, <2>1, <2>2, <2>3, OthersSeats
<1>5. CreateNeverSurprised'
  BY <1>2, <1>3 DEF SInv, CreateNeverSurprised, Txns
<1> QED
  BY <1>3, <1>4, <1>5 DEF SInv

(* Time passes, and reservations grow old.                                 *)
LEMMA AgeSeats ==
  ASSUME IInv, SInv,
         \/ Tick \/ UNCHANGED vars
         \/ \E i \in Invites : Age(i)
  PROVE  SInv'
<1>1. /\ UNCHANGED <<txn, rowLock, capLock>>
      /\ clock \in Nat /\ clock' \in Nat /\ clock <= clock'
  BY LocksAssumption DEF Tick, vars, Age, IInv, Types
<1>2. ASSUME NEW j \in Invites
      PROVE  /\ table'[j].expiresAt = table[j].expiresAt
             /\ table[j].expiresAt \in Nat
             /\ Open(table'[j]) <=> Open(table[j])
             /\ table'[j].status = "consumed" <=> table[j].status = "consumed"
  <2>1. table[j] \in Row /\ table[j].expiresAt \in Nat
    BY LocksAssumption DEF IInv, Types, Row, Times
  <2>2. CASE UNCHANGED table
    BY <2>1, <2>2
  <2>3. ASSUME NEW i \in Invites, Age(i)
        PROVE  /\ table'[j].expiresAt = table[j].expiresAt
               /\ Open(table'[j]) <=> Open(table[j])
               /\ table'[j].status = "consumed" <=> table[j].status = "consumed"
    BY <2>1, <2>3 DEF Age, IInv, Types, Row, Open
  <2>4. Tick \/ UNCHANGED vars => UNCHANGED table
    BY DEF Tick, vars
  <2> QED
    BY <2>1, <2>2, <2>3, <2>4
<1>3. Dwindles
  BY <1>1, <1>2 DEF Dwindles, Alive, Occupies
<1>4. ASSUME NEW q \in Txns PROVE SeatInv(q)'
  BY <1>1, <1>2, <1>3, OthersSeats DEF SInv
<1>5. CreateNeverSurprised'
  BY <1>1 DEF SInv, CreateNeverSurprised
<1> QED
  BY <1>4, <1>5 DEF SInv

LEMMA StepSeats == IInv /\ SInv /\ [Next]_vars => SInv'
<1> SUFFICES ASSUME IInv, SInv, [Next]_vars PROVE SInv'
  OBVIOUS
<1>1. CASE Tick \/ UNCHANGED vars \/ \E i \in Invites : Age(i)
  BY <1>1, AgeSeats
<1>2. ASSUME NEW p \in Txns, NEW i \in Invites, Begin(p, i) PROVE SInv'
  BY <1>2, BeginSeats
<1>3. ASSUME NEW p \in Txns, TxnStep(p) PROVE SInv'
  <2>1. CASE DetectDeadlock(p)
    BY <2>1, RollBackSeats DEF DetectDeadlock, Ended
  <2> QED
    BY <1>3, <2>1, TakeCapacityLockSeats, VisitSeats, LockRowSeats, UpdateRowSeats,
       EndUpdateSeats, CheckSeatsSeats, InsertInviteSeats, CommitSeats DEF TxnStep
<1>4. ASSUME NEW p \in Txns, Fail(p) PROVE SInv'
  BY <1>4, RollBackSeats DEF Fail, Ended
<1> QED
  BY <1>1, <1>2, <1>3, <1>4 DEF Next

LEMMA SeatInvariance == Spec => [](IInv /\ SInv)
  BY Invariance, InitSeats, StepSeats, PTL DEF Spec

(* createStage1Invite counts with the application's clock, the trigger with*)
(* the start of the transaction: an issue that passes its own check is     *)
(* never turned away by enforce_alpha_stage1_capacity.                     *)
THEOREM CreatesNeverSurprised == Spec => []CreateNeverSurprised
<1>1. SInv => CreateNeverSurprised
  BY DEF SInv
<1> QED
  BY <1>1, SeatInvariance, PTL

(* --------------------- the transactions and the ledger ------------------ *)

LedgerProofs == INSTANCE SeatLedgerProofs WITH held <- Held, taken <- Taken

LEMMA SameCardinality ==
  /\ \A S : Ledger!Cardinality(S) = Cardinality(S)
  /\ \A S : LedgerProofs!Cardinality(S) = Cardinality(S)
  /\ \A S : LedgerProofs!IsFiniteSet(S) = IsFiniteSet(S)
<1>1. \A S : LedgerProofs!IsFiniteSet(S) = IsFiniteSet(S)
  BY DEF LedgerProofs!IsFiniteSet, IsFiniteSet
<1>2. \A S : LedgerProofs!Cardinality(S) = Cardinality(S)
  BY DEF LedgerProofs!Cardinality, Cardinality
<1>3. \A S : Ledger!Cardinality(S) = Cardinality(S)
  BY DEF Ledger!Cardinality, Cardinality
<1> QED
  BY <1>1, <1>2, <1>3

(* What a step does to the seats of one row.                               *)
SeatKept(j) == (j \in Held' <=> j \in Held) /\ (j \in Taken' <=> j \in Taken)
SeatGone(j) == j \notin Held' /\ j \notin Taken'

LEMMA HeldTaken ==
  /\ \A j : j \in Held <=> j \in Invites /\ Open(table[j]) /\ table[j].expiresAt > clock
  /\ \A j : j \in Taken <=> j \in Invites /\ table[j].status = "consumed"
  /\ \A j : j \in Held' <=> j \in Invites /\ Open(table'[j]) /\ table'[j].expiresAt > clock'
  /\ \A j : j \in Taken' <=> j \in Invites /\ table'[j].status = "consumed"
  /\ \A j \in Invites : Occupies(table[j], clock) <=> j \in Held \cup Taken
  /\ \A j : ~ (j \in Held /\ j \in Taken)
  BY DEF Held, Taken, Open, Occupies

(* Rows keep or lose their seats: the ledger vacates.                      *)
LEMMA Vacates ==
  ASSUME \A j \in Invites : SeatKept(j) \/ SeatGone(j)
  PROVE  Ledger!Next
<1> DEFINE gone == {j \in Held \cup Taken : SeatGone(j)}
<1>1. \A j : (j \in Held \/ j \in Taken \/ j \in Held' \/ j \in Taken') => j \in Invites
  BY HeldTaken
<1>2. Held' = Held \ gone /\ Taken' = Taken \ gone
  BY <1>1 DEF SeatKept, SeatGone
<1>3. gone \in SUBSET (Held \cup Taken)
  OBVIOUS
<1> HIDE DEF gone
<1>4. Ledger!Vacate(gone)
  BY <1>2, <1>3 DEF Ledger!Vacate, Ledger!Occupied
<1> QED
  BY <1>3, <1>4 DEF Ledger!Next, Ledger!Occupied

(* The seats that the trigger counts for row i, when p commits.            *)
LEMMA SeatsLeft ==
  ASSUME IInv, NEW p \in Txns, NEW i \in Invites
  PROVE  SeatsBut(p, i, clock) =
           Cardinality({j \in Invites \ {i} : Occupies(View(p)[j], clock)})
  BY DEF SeatsBut

(* createStage1Invite commits: it issues its row, if the row is not yet    *)
(* past its date, and gives back the seats of the rows it has closed.      *)
LEMMA CommitIssues ==
  ASSUME IInv, SInv, NEW p \in Txns, Commit(p), p \in Creates
  PROVE  Ledger!Next
<1> DEFINE i == txn[p].target
           lapsed == {j \in Held : txn[p].wrote[j] # None}
           others == {j \in Invites \ {i} : Occupies(View(p)[j], clock)}
<1>1. /\ i \in Invites /\ table[i].status = "absent" /\ SeatInv(p) /\ Running(p)
      /\ txn[p].kind = "create" /\ UNCHANGED clock /\ table' = View(p)
  BY DEF Commit, IInv, TxnInv, Owns, Running, Ended, SInv, SeatInv, KindFits
<1>2. ASSUME NEW j \in Invites \ {i}
      PROVE  /\ txn[p].wrote[j] = None => SeatKept(j) /\ table'[j] = table[j]
             /\ txn[p].wrote[j] # None => j \notin Taken /\ SeatGone(j)
  <2>1. CASE table'[j] = table[j] /\ txn[p].wrote[j] = None
    BY <1>1, <2>1, HeldTaken DEF SeatKept
  <2>2. CASE table'[j] = txn[p].wrote[j] /\ txn[p].wrote[j] # None /\ Open(table[j])
    <3>1. txn[p].wrote[j].status = "closed"
      BY <1>1, <2>2 DEF SeatInv, WritesFit, WrittenRowFits
    <3> QED
      BY <2>2, <3>1, HeldTaken DEF SeatGone, Open
  <2> QED
    BY <2>1, <2>2, CommittedRow
<1>3. i \notin Held /\ i \notin Taken
  BY <1>1, HeldTaken DEF Open
<1>4. CASE i \in Held'
  <2>1. txn[p].wrote[i] # None /\ table'[i] = txn[p].wrote[i]
    BY <1>1, <1>4, HeldTaken, CommittedRow DEF Open
  <2>2. txn[p].wrote[i].status = "pending" /\ Occupies(txn[p].wrote[i], clock)
    BY <1>1, <1>4, <2>1, HeldTaken DEF SeatInv, WritesFit, WrittenRowFits, Occupies
  <2>3. Cardinality(others) < Cap
    BY <1>1, <2>1, <2>2 DEF SeatInv, SeatFree, SeatsBut
  <2>4. i \notin Taken'
    BY <2>1, <2>2, HeldTaken
  <2>5. others = (Held \cup Taken) \ lapsed
    <3>1. ASSUME NEW j \in Invites \ {i}
          PROVE  Occupies(View(p)[j], clock) <=> j \in Held' \cup Taken'
      BY <1>1, HeldTaken DEF Occupies
    <3>2. \A j \in Held \cup Taken : j \in Invites \ {i}
      BY <1>3, HeldTaken
    <3>3. ASSUME NEW j \in Invites \ {i}
          PROVE  j \in Held' \cup Taken' <=> j \in (Held \cup Taken) \ lapsed
      BY <1>2 DEF SeatKept, SeatGone
    <3> QED
      BY <3>1, <3>2, <3>3
  <2>6. Held' = (Held \ lapsed) \cup {i} /\ Taken' = Taken
    <3>1. \A j : (j \in Held \/ j \in Taken \/ j \in Held' \/ j \in Taken') => j \in Invites
      BY HeldTaken
    <3> QED
      BY <1>2, <1>3, <1>4, <2>4, <3>1 DEF SeatKept, SeatGone
  <2>7. lapsed \in SUBSET Held
    OBVIOUS
  <2> HIDE DEF lapsed, others, i
  <2>8. Ledger!Issue(i, lapsed)
    BY <1>3, <2>3, <2>5, <2>6, <2>7, SameCardinality DEF Ledger!Issue, Ledger!Occupied
  <2> QED
    BY <1>1, <2>7, <2>8 DEF Ledger!Next
<1>5. CASE i \notin Held'
  <2>1. i \notin Taken'
    BY <1>1, HeldTaken, CommittedRow DEF SeatInv, WritesFit, WrittenRowFits
  <2>2. SeatGone(i)
    BY <1>5, <2>1 DEF SeatGone
  <2> HIDE DEF i
  <2> QED
    BY <1>2, <2>2, Vacates
<1> QED
  BY <1>4, <1>5

(* A redemption commits.                                                   *)
LEMMA CommitRedeems ==
  ASSUME IInv, SInv, NEW p \in Txns, Commit(p), p \notin Creates, txn[p].kind = "redeem"
  PROVE  Ledger!Next
<1> DEFINE i == txn[p].target
<1>1. SeatInv(p) /\ Running(p) /\ UNCHANGED clock /\ table' = View(p)
  BY DEF Commit, Running, Ended, SInv
<1>2. \A j \in Invites : txn[p].wrote[j] # None => j = i /\ txn[p].wrote[j].status = "consumed"
  BY <1>1 DEF SeatInv, WritesFit, WrittenRowFits
<1>3. \A j \in Invites : txn[p].wrote[j] = None => SeatKept(j) /\ table'[j] = table[j]
  BY <1>1, HeldTaken, CommittedRow DEF SeatKept
<1>4. CASE i \in Invites /\ txn[p].wrote[i] # None
  <2>1. table'[i].status = "consumed" /\ Open(table[i])
    BY <1>2, <1>4, CommittedRow
  <2>2. i \in Taken' /\ i \notin Held' /\ i \notin Taken
    BY <1>4, <2>1, HeldTaken DEF Open
  <2>3. Held' = Held \ {i} /\ Taken' = Taken \cup {i}
    <3>1. \A j : (j \in Held \/ j \in Taken \/ j \in Held' \/ j \in Taken') => j \in Invites
      BY HeldTaken
    <3> QED
      BY <1>2, <1>3, <2>2, <3>1 DEF SeatKept
  <2>4. i \in Held \/ Cardinality(Held \cup Taken) < Cap
    <3> SUFFICES ASSUME i \notin Held PROVE Cardinality(Held \cup Taken) < Cap
      OBVIOUS
    <3> DEFINE others == {j \in Invites \ {i} : Occupies(View(p)[j], clock)}
    <3>1. Cardinality(others) < Cap
      BY <1>1, <1>2, <1>4 DEF SeatInv, SeatFree, SeatsBut, Occupies
    <3>2. ASSUME NEW j \in Invites \ {i} PROVE View(p)[j] = table[j]
      BY <1>1, <1>2, <1>3
    <3>3. others = Held \cup Taken
      BY <2>2, <3>2, HeldTaken
    <3> QED
      BY <3>1, <3>3
  <2> HIDE DEF i
  <2>5. Ledger!Redeem(i)
    BY <2>2, <2>3, <2>4, SameCardinality DEF Ledger!Redeem, Ledger!Occupied
  <2> QED
    BY <1>4, <2>5 DEF Ledger!Next
<1>5. CASE ~ (i \in Invites /\ txn[p].wrote[i] # None)
  BY <1>2, <1>3, <1>5, Vacates
<1> QED
  BY <1>4, <1>5

(* A sweep, a claim or a revocation commits: no seat is filled.            *)
LEMMA CommitVacates ==
  ASSUME IInv, SInv, NEW p \in Txns, Commit(p), p \notin Creates,
         txn[p].kind \in {"sweep", "claim", "revoke"}
  PROVE  Ledger!Next
<1>1. SeatInv(p) /\ Running(p) /\ UNCHANGED clock
  BY DEF Commit, Running, Ended, SInv
<1>2. ASSUME NEW j \in Invites PROVE SeatKept(j) \/ SeatGone(j)
  <2>1. CASE table'[j] = table[j]
    BY <1>1, <2>1, HeldTaken DEF SeatKept
  <2>2. CASE table'[j] = txn[p].wrote[j] /\ txn[p].wrote[j] # None /\ Open(table[j])
    <3>1. WrittenRowFits(txn[p].kind, txn[p].target, j, txn[p].wrote[j], table[j])
      BY <1>1, <2>2 DEF SeatInv, WritesFit
    <3>2. CASE txn[p].kind = "revoke"
      BY <2>2, <3>1, <3>2, HeldTaken DEF SeatGone, WrittenRowFits, Open
    <3>3. CASE txn[p].kind \in {"sweep", "claim"}
      <4>1. Open(table'[j]) /\ table'[j].expiresAt = table[j].expiresAt
        BY <2>2, <3>1, <3>3 DEF WrittenRowFits
      <4> QED
        BY <1>1, <2>2, <4>1, HeldTaken DEF SeatKept, Open
    <3> QED
      BY <3>2, <3>3
  <2> QED
    BY <2>1, <2>2, CommittedRow
<1> QED
  BY <1>2, Vacates

LEMMA StepLedger == IInv /\ SInv /\ [Next]_vars => [Ledger!Next]_<<Held, Taken>>
<1> SUFFICES ASSUME IInv, SInv, [Next]_vars, ~ UNCHANGED <<Held, Taken>>
             PROVE  Ledger!Next
  OBVIOUS
<1>1. CASE UNCHANGED <<clock, table>>
  BY <1>1 DEF Held, Taken, Open
<1>2. CASE Tick
  <2>1. UNCHANGED table /\ clock \in Nat /\ clock' = clock + 1
    BY <1>2, LocksAssumption DEF Tick, IInv, Types
  <2>2. \A j \in Invites : table[j].expiresAt \in Nat
    BY LocksAssumption DEF IInv, Types, Row, Times
  <2>3. \A j \in Invites : SeatKept(j) \/ SeatGone(j)
    BY <2>1, <2>2, HeldTaken DEF SeatKept, SeatGone, Open
  <2> QED
    BY <2>3, Vacates
<1>3. ASSUME NEW i \in Invites, Age(i) PROVE Ledger!Next
  <2>1. ASSUME NEW j \in Invites
        PROVE  /\ table'[j].expiresAt = table[j].expiresAt
               /\ Open(table'[j]) <=> Open(table[j])
               /\ table'[j].status = "consumed" <=> table[j].status = "consumed"
    BY <1>3 DEF Age, IInv, Types, Row, Open
  <2>2. UNCHANGED clock
    BY <1>3 DEF Age
  <2>3. \A j \in Invites : SeatKept(j)
    BY <2>1, <2>2, HeldTaken DEF SeatKept
  <2> QED
    BY <2>3, Vacates
<1>4. ASSUME NEW p \in Txns, Commit(p) PROVE Ledger!Next
  <2>1. SeatInv(p)
    BY <1>4 DEF Commit, Running, Ended, SInv
  <2>2. p \notin Creates => txn[p].kind \in UpdateKinds
    BY <1>4, <2>1 DEF Commit, Running, Ended, SeatInv, KindFits
  <2> QED
    BY <1>4, <2>2, CommitIssues, CommitRedeems, CommitVacates DEF UpdateKinds
<1>5. UNCHANGED vars => UNCHANGED <<clock, table>>
  BY DEF vars
<1>6. ASSUME NEW p \in Txns, NEW i \in Invites, Begin(p, i) PROVE UNCHANGED <<clock, table>>
  BY <1>6 DEF Begin
<1>7. ASSUME NEW p \in Txns, TxnStep(p), ~ Commit(p) PROVE UNCHANGED <<clock, table>>
  BY <1>7 DEF TxnStep, TakeCapacityLock, Visit, LockRow, UpdateRow, Write, RollBack,
     EndUpdate, CheckSeats, InsertInvite, DetectDeadlock
<1>8. ASSUME NEW p \in Txns, Fail(p) PROVE UNCHANGED <<clock, table>>
  BY <1>8 DEF Fail, RollBack
<1> QED
  BY <1>1, <1>2, <1>3, <1>4, <1>5, <1>6, <1>7, <1>8 DEF Next

(* Whatever the transactions lock, write, commit and give up, the committed*)
(* rows go through the steps of the seat ledger: a createStage1Invite that *)
(* commits issues a seat that is free at that moment, a redemption takes   *)
(* one, everything else keeps or gives back.                               *)
THEOREM LocksImplementLedger == Spec => ImplementsSeatLedger
<1>1. IInv /\ SInv /\ [Next]_vars => [Ledger!Next]_<<Held, Taken>>
  BY StepLedger
<1> QED
  BY <1>1, SeatInvariance, PTL DEF Spec, ImplementsSeatLedger

LEMMA InitCapacity == Init => LedgerProofs!LedgerInv
<1> SUFFICES ASSUME Init PROVE LedgerProofs!LedgerInv
  OBVIOUS
<1> DEFINE seated == {i \in Invites : Occupies(table[i], 0)}
<1>1. Cardinality(seated) <= Cap /\ clock = 0
  BY DEF Init
<1>2. Held \cup Taken = seated
  BY <1>1, HeldTaken
<1> HIDE DEF seated
<1> QED
  BY <1>1, <1>2, HeldTaken, SameCardinality
     DEF LedgerProofs!LedgerInv, LedgerProofs!TypeOK, LedgerProofs!CapacityRespected,
         LedgerProofs!Occupied

(* The committed rows never occupy more than Cap seats, in any             *)
(* interleaving of the transactions, of their waits for locks and of the   *)
(* clocks they read (enforce_alpha_stage1_capacity).                       *)
THEOREM StageNeverOverfull == Spec => []CapacityRespected
<1>1. LedgerProofs!SeatAssumption
  BY LocksAssumption, SameCardinality DEF LedgerProofs!SeatAssumption
<1>2. [Ledger!Next]_<<Held, Taken>> => [LedgerProofs!Next]_(LedgerProofs!vars)
  BY SameCardinality
     DEF Ledger!Next, Ledger!Issue, Ledger!Redeem, Ledger!Vacate, Ledger!Occupied,
         LedgerProofs!Next, LedgerProofs!Issue, LedgerProofs!Redeem, LedgerProofs!Vacate,
         LedgerProofs!Occupied, LedgerProofs!vars
<1>3. IInv /\ SInv /\ LedgerProofs!LedgerInv /\ [Next]_vars => LedgerProofs!LedgerInv'
  BY <1>1, <1>2, StepLedger, LedgerProofs!NextLedger
<1>4. LedgerProofs!LedgerInv => CapacityRespected
  BY SameCardinality DEF LedgerProofs!LedgerInv, LedgerProofs!CapacityRespected, LedgerProofs!Occupied,
         CapacityRespected, Ledger!CapacityRespected, Ledger!Occupied
<1> QED
  BY <1>3, <1>4, InitCapacity, SeatInvariance, PTL DEF Spec
=============================================================================
