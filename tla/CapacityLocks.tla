----------------------------- MODULE CapacityLocks -----------------------------
(***************************************************************************)
(* The transactions on alpha_invites, one lock at a time.                  *)
(* InviteRegistration takes each of them as one step; here an UPDATE visits*)
(* its rows one by one, waits for their row locks, and its BEFORE trigger  *)
(* asks for the capacity advisory lock and counts the occupied seats.      *)
(* createStage1Invite asks for the advisory lock first.  What a transaction*)
(* wrote is seen by others when it commits (READ COMMITTED).               *)
(*                                                                         *)
(* Left out: addresses, nonces and tickets (InviteRegistration has them).  *)
(***************************************************************************)
EXTENDS Naturals, FiniteSets

CONSTANTS
  Invites,  \* invite row ids
  Creates,  \* createStage1Invite transactions
  Updates,  \* transactions that UPDATE invites, of any of the kinds below
  None,
  Cap,      \* ALPHA_STAGE_1_CAP
  Life,     \* lifetime of an invite
  Skew,     \* how far an application clock may be from the database's
  MaxTime   \* bound of the modelled clock

Txns == Creates \cup Updates

(* releaseStaleReservedInvites, the UPDATE of reserveInviteForEmail, the   *)
(* finalize transaction from consumeReservedInvite on, and revokeInvite.   *)
UpdateKinds == {"sweep", "claim", "redeem", "revoke"}

ASSUME LocksAssumption ==
  /\ IsFiniteSet(Invites) /\ IsFiniteSet(Txns) /\ Creates \cap Updates = {}
  /\ None \notin Invites \cup Txns
  /\ Cap \in Nat /\ Life \in Nat /\ Skew \in Nat /\ MaxTime \in Nat

VARIABLES
  clock,    \* the database's clock
  table,    \* committed rows
  txn,      \* transactions
  rowLock,  \* invite row -> the transaction that holds its lock
  capLock   \* the transaction that holds the capacity advisory lock

vars == <<clock, table, txn, rowLock, capLock>>

Times == 0 .. (MaxTime + Skew + Life)

(* "stale": reserved for longer than the reservation lives; "closed":      *)
(* expired, revoked or deleted.                                            *)
Row == [status: {"absent", "pending", "reserved", "stale", "consumed", "closed"},
        expiresAt: Times]

ASSUME NoneIsNoRow == None \notin Row

Ended == {"done", "refused", "rejected", "victim"}

Txn ==
  [pc: {"idle", "locking", "updating", "waiting", "guarding", "checking",
        "inserting", "committing"} \cup Ended,
   kind: {"create"} \cup UpdateKinds,
   began: Times,                    \* the transaction's now()
   now: 0 .. (MaxTime + Skew),      \* the application's new Date()
   target: Invites \cup {None},     \* the row a claim, redeem or insert names
   todo: SUBSET Invites,            \* rows the UPDATE has still to visit
   at: Invites \cup {None},         \* the row it is visiting
   wrote: [Invites -> Row \cup {None}]]  \* its uncommitted writes

-----------------------------------------------------------------------------
(* Helpers *)

AppNow == {t \in Times : t <= clock + Skew /\ clock <= t + Skew}

Open(row) == row.status \in {"pending", "reserved", "stale"}

Occupies(row, t) ==
  \/ row.status = "consumed"
  \/ Open(row) /\ row.expiresAt > t

(* What p reads: its own writes over the committed rows.                   *)
View(p) ==
  [i \in Invites |-> IF txn[p].wrote[i] # None THEN txn[p].wrote[i] ELSE table[i]]

SeatsBut(p, i, t) == Cardinality({j \in Invites \ {i} : Occupies(View(p)[j], t)})

(* The WHERE clause of the UPDATE of a transaction.                        *)
Matches(x, i) ==
  LET row == table[i]
  IN  \/ x.kind = "create" /\ Open(row) /\ row.expiresAt <= x.now
      \/ x.kind = "sweep" /\ row.status = "stale"
      \/ /\ x.kind = "claim" /\ i = x.target
         /\ row.status = "pending" /\ row.expiresAt > x.now
      \/ /\ x.kind = "redeem" /\ i = x.target
         /\ row.status \in {"reserved", "stale"} /\ row.expiresAt > x.now
      \/ x.kind = "revoke" /\ i = x.target /\ Open(row)

(* The rows the UPDATE will visit, as of its snapshot.                     *)
Statement(x) ==
  [x EXCEPT !.pc = "updating", !.todo = {i \in Invites : Matches(x, i)}]

(* Its SET clause.                                                         *)
Updated(kind, row) ==
  [row EXCEPT !.status =
     CASE kind \in {"create", "revoke"} -> "closed"
       [] kind = "sweep" -> "pending"
       [] kind = "claim" -> "reserved"
       [] kind = "redeem" -> "consumed"]

(* Mutant: the advisory lock outlives a rolled-back transaction.           *)
ReleasedAfterCommitOnly(p) ==
  /\ rowLock' = [i \in Invites |-> IF rowLock[i] = p THEN None ELSE rowLock[i]]
  /\ capLock' = IF capLock = p /\ txn[p].pc = "committing" THEN None ELSE capLock

(* The end of a transaction frees its locks.                               *)
Released(p) ==
  /\ rowLock' = [i \in Invites |-> IF rowLock[i] = p THEN None ELSE rowLock[i]]
  /\ capLock' = IF capLock = p THEN None ELSE capLock

Fresh(pc) ==
  [pc |-> pc, kind |-> "create", began |-> 0, now |-> 0, target |-> None,
   todo |-> {}, at |-> None, wrote |-> [i \in Invites |-> None]]

RollBack(p, pc) ==
  /\ txn' = [txn EXCEPT ![p] = Fresh(pc)]
  /\ Released(p)
  /\ UNCHANGED <<clock, table>>

-----------------------------------------------------------------------------
Init ==
  /\ clock = 0
  /\ table \in [Invites -> Row]
  /\ \A i \in Invites : table[i].expiresAt \in IF table[i].status \in {"absent", "closed"}
                                               THEN {0} ELSE 1 .. Life
  /\ Cardinality({i \in Invites : Occupies(table[i], 0)}) <= Cap
  /\ txn = [p \in Txns |-> Fresh("idle")]
  /\ rowLock = [i \in Invites |-> None]
  /\ capLock = None

Tick ==
  /\ clock < MaxTime
  /\ clock' = clock + 1
  /\ UNCHANGED <<table, txn, rowLock, capLock>>

(* A reservation grows older than its time to live.                        *)
Age(i) ==
  /\ table[i].status = "reserved"
  /\ table' = [table EXCEPT ![i].status = "stale"]
  /\ UNCHANGED <<clock, txn, rowLock, capLock>>

-----------------------------------------------------------------------------
Begin(p, i) ==
  /\ txn[p].pc = "idle"
  /\ p \in Creates =>
       /\ table[i].status = "absent"
       /\ \A q \in Creates : txn[q].target # i
  /\ \E now \in AppNow, kind \in IF p \in Creates THEN {"create"} ELSE UpdateKinds :
       LET x == [txn[p] EXCEPT !.pc = "locking", !.kind = kind, !.began = clock,
                               !.now = now, !.target = i]
       IN  txn' = [txn EXCEPT ![p] = IF p \in Creates THEN x ELSE Statement(x)]
  /\ UNCHANGED <<clock, table, rowLock, capLock>>

(* Mutant: createStage1Invite does not wait for the capacity lock.         *)
SkipCapacityLock(p) ==
  /\ txn[p].pc = "locking"
  /\ txn' = [txn EXCEPT ![p] = Statement(txn[p])]
  /\ UNCHANGED <<clock, table, rowLock, capLock>>

(* createStage1Invite: SELECT pg_advisory_xact_lock(...), then the UPDATE. *)
TakeCapacityLock(p) ==
  /\ txn[p].pc = "locking"
  /\ capLock = None
  /\ capLock' = p
  /\ txn' = [txn EXCEPT ![p] = Statement(txn[p])]
  /\ UNCHANGED <<clock, table, rowLock>>

Visit(p, i) ==
  /\ txn[p].pc = "updating"
  /\ i \in txn[p].todo
  /\ txn' = [txn EXCEPT ![p].pc = "waiting", ![p].at = i, ![p].todo = @ \ {i}]
  /\ UNCHANGED <<clock, table, rowLock, capLock>>

(* Mutant: the row is updated as it was when the statement began.          *)
LockRowBlindly(p) ==
  LET i == txn[p].at
  IN  /\ txn[p].pc = "waiting"
      /\ rowLock[i] \in {None, p}
      /\ rowLock' = [rowLock EXCEPT ![i] = p]
      /\ txn' = [txn EXCEPT ![p].pc = "guarding"]
      /\ UNCHANGED <<clock, table, capLock>>

(* The row lock is taken before the trigger runs; a row that changed while *)
(* the UPDATE waited must still match.                                     *)
LockRow(p) ==
  LET i == txn[p].at
  IN  /\ txn[p].pc = "waiting"
      /\ rowLock[i] \in {None, p}
      /\ rowLock' = [rowLock EXCEPT ![i] = p]
      /\ txn' = [txn EXCEPT ![p].pc =
                     IF Matches(txn[p], i) THEN "guarding" ELSE "updating"]
      /\ UNCHANGED <<clock, table, capLock>>

(* Mutant: the trigger gives the advisory lock back once it has counted.   *)
WriteThenUnlock(p, i, row, pc) ==
  LET began == txn[p].began
  IN  IF Occupies(row, began)
      THEN /\ capLock \in {None, p}
           /\ IF SeatsBut(p, i, began) < Cap
              THEN /\ capLock' = None
                   /\ txn' = [txn EXCEPT ![p].pc = pc, ![p].wrote[i] = row]
                   /\ UNCHANGED <<clock, table, rowLock>>
              ELSE RollBack(p, "rejected")
      ELSE /\ txn' = [txn EXCEPT ![p].pc = pc, ![p].wrote[i] = row]
           /\ UNCHANGED <<clock, table, rowLock, capLock>>

(* Writing a row under enforce_alpha_stage1_capacity: when the new row     *)
(* occupies a seat, take the advisory lock, count the others as of the     *)
(* transaction's now(), raise an exception when the stage is full.         *)
Write(p, i, row, pc) ==
  LET began == txn[p].began
  IN  IF Occupies(row, began)
      THEN /\ capLock \in {None, p}
           /\ IF SeatsBut(p, i, began) < Cap
              THEN /\ capLock' = p
                   /\ txn' = [txn EXCEPT ![p].pc = pc, ![p].wrote[i] = row]
                   /\ UNCHANGED <<clock, table, rowLock>>
              ELSE RollBack(p, "rejected")
      ELSE /\ txn' = [txn EXCEPT ![p].pc = pc, ![p].wrote[i] = row]
           /\ UNCHANGED <<clock, table, rowLock, capLock>>

UpdateRow(p) ==
  /\ txn[p].pc = "guarding"
  /\ LET i == txn[p].at IN Write(p, i, Updated(txn[p].kind, table[i]), "updating")

EndUpdate(p) ==
  /\ txn[p].pc = "updating"
  /\ txn[p].todo = {}
  /\ txn' = [txn EXCEPT ![p].pc = IF p \in Creates THEN "checking" ELSE "committing"]
  /\ UNCHANGED <<clock, table, rowLock, capLock>>

(* CAPACITY_REACHED; the other refusals are among the failures below.      *)
CheckSeats(p) ==
  /\ txn[p].pc = "checking"
  /\ IF SeatsBut(p, txn[p].target, txn[p].now) < Cap
     THEN /\ txn' = [txn EXCEPT ![p].pc = "inserting"]
          /\ UNCHANGED <<clock, table, rowLock, capLock>>
     ELSE RollBack(p, "refused")

InsertInvite(p) ==
  /\ txn[p].pc = "inserting"
  /\ Write(p, txn[p].target,
           [status |-> "pending", expiresAt |-> txn[p].now + Life], "committing")

Commit(p) ==
  /\ txn[p].pc = "committing"
  /\ table' = View(p)
  /\ txn' = [txn EXCEPT ![p] = Fresh("done")]
  /\ Released(p)
  /\ UNCHANGED clock

(* The transaction is refused for another reason (an active invite of the  *)
(* address, the balance gate, a later statement of the finalization), or   *)
(* its connection is lost.                                                 *)
Fail(p) ==
  /\ txn[p].pc \notin {"idle"} \cup Ended
  /\ RollBack(p, "refused")

(* ----------------------- PostgreSQL's deadlock detector ----------------- *)

Blocker(p) ==
  LET x == txn[p]
      holder ==
        CASE x.pc = "waiting" -> rowLock[x.at]
          [] x.pc = "locking" -> capLock
          [] x.pc = "guarding" /\ Occupies(Updated(x.kind, table[x.at]), x.began) -> capLock
          [] OTHER -> None
  IN  IF holder = p THEN None ELSE holder

(* p waits, through others, for itself.                                    *)
Deadlocked(p) == \E S \in SUBSET Txns : p \in S /\ {Blocker(q) : q \in S} = S

DetectDeadlock(p) == Deadlocked(p) /\ RollBack(p, "victim")

-----------------------------------------------------------------------------
TxnStep(p) ==
  \/ TakeCapacityLock(p)
  \/ \E i \in Invites : Visit(p, i)
  \/ LockRow(p)
  \/ UpdateRow(p)
  \/ EndUpdate(p)
  \/ CheckSeats(p)
  \/ InsertInvite(p)
  \/ Commit(p)
  \/ DetectDeadlock(p)

Next ==
  \/ Tick
  \/ \E i \in Invites : Age(i)
  \/ \E p \in Txns, i \in Invites : Begin(p, i)
  \/ \E p \in Txns : TxnStep(p) \/ Fail(p)

Spec == Init /\ [][Next]_vars

(* While a transaction can go on, one of those that can does.              *)
FairSpec == Spec /\ WF_vars(\E p \in Txns : TxnStep(p))

-----------------------------------------------------------------------------
(* Properties *)

Running(p) == txn[p].pc \notin {"idle"} \cup Ended

(* Types; locks belong to running transactions, an uncommitted row is      *)
(* locked or not yet visible to anyone, and only the holder of the         *)
(* capacity lock has uncommitted rows that occupy a seat.                  *)
TypeOK ==
  /\ clock \in 0 .. MaxTime
  /\ table \in [Invites -> Row]
  /\ txn \in [Txns -> Txn]
  /\ rowLock \in [Invites -> Txns \cup {None}]
  /\ capLock \in Txns \cup {None}
  /\ capLock # None => Running(capLock)
  /\ \A i \in Invites : rowLock[i] # None => Running(rowLock[i])
  /\ \A p \in Txns, i \in Invites :
       txn[p].wrote[i] # None =>
         /\ Running(p)
         /\ rowLock[i] = p \/ (p \in Creates /\ i = txn[p].target)
         /\ Occupies(txn[p].wrote[i], txn[p].began) => capLock = p

(* createStage1Invite's own seat check and the trigger agree, although they*)
(* count with different clocks: an operator who passes the check is never  *)
(* turned away by the trigger's exception.                                 *)
CreateNeverSurprised == \A p \in Creates : txn[p].pc # "rejected"

(* No transaction, however long it waited for a row, brings back an invite *)
(* that another one redeemed, revoked or expired meanwhile.                *)
FinalIsFinal ==
  [][\A i \in Invites :
       table[i].status \in {"consumed", "closed"} => table'[i] = table[i]]_vars

(* createStage1Invite holds the capacity lock from its beginning, so that  *)
(* the operator receives deterministic error codes: it is never the victim *)
(* of a deadlock.                                                          *)
CreateNeverVictim == \A p \in Creates : txn[p].pc # "victim"

(* Every transaction that has begun ends, whatever the others do: no       *)
(* deadlock stays and no lock outlives its transaction.                    *)
EveryTransactionEnds == <>[](\A p \in Txns : ~ Running(p))

Held == {i \in Invites : Open(table[i]) /\ table[i].expiresAt > clock}

Taken == {i \in Invites : table[i].status = "consumed"}

Ledger == INSTANCE SeatLedger WITH held <- Held, taken <- Taken

(* The committed rows never occupy more than Cap seats.                    *)
CapacityRespected == Ledger!CapacityRespected

(* Lock by lock, the transactions implement the abstract seat ledger, from *)
(* any table that respects the capacity.                                   *)
ImplementsSeatLedger == [][Ledger!Next]_<<Held, Taken>>
=============================================================================
