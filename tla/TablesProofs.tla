---------------------------- MODULE TablesProofs ----------------------------
(***************************************************************************)
(* The four components that MCTables puts side by side, for all values of  *)
(* its constants.                                                          *)
(*                                                                         *)
(* RateLimit keeps the promise of RateQuota for every set of subjects,     *)
(* every policy, and all clocks and delays that the retention time covers  *)
(* (RetentionAssumption); Reports, Waitlist and Smoke keep their           *)
(* invariants for any number of members, browsers, calls and runs          *)
(* (TablesAssumption).  Each has an inductive invariant of its own: Inv,   *)
(* ReportsInv, WaitlistInv and SmokeInv.                                   *)
(***************************************************************************)
EXTENDS MCTables, Sequences, TLAPS

(* A committed row tells when the window began, and has counted at least   *)
(* the requests that were admitted.                                        *)
RowsTellTheWindow ==
  \A k \in Keys :
    rows[k] # NoRow =>
      /\ rows[k].last = opened[k]
      /\ rows[k].count >= 1
      /\ admitted[k] <= rows[k].count

(* Where there is no row, the latest window is over for every statement    *)
(* that is still to come.                                                  *)
AbsentIsOver ==
  \A k \in Keys :
    rows[k] = NoRow =>
      \/ opened[k] + Policy[k].window <= 0
      \/ opened[k] + Policy[k].window <= now - MaxDelay

(* A stamp is a recent reading of its server's clock.                      *)
Recent(r) ==
  req[r].pc # "idle" =>
    /\ req[r].key \in Keys /\ req[r].server \in Servers
    /\ req[r].stamp \in Skew[req[r].server] .. Clock(req[r].server)
    /\ Clock(req[r].server) <= req[r].stamp + MaxDelay

(* What an open statement has computed is still so: its locks hold.        *)
Current(r) ==
  /\ \A k \in req[r].pruned : req[r].pc = "counted" /\ Stale(r, k)
  /\ req[r].pc = "counted" =>
       req[r].row = Counted(rows[req[r].key], Policy[req[r].key].window, req[r].stamp)

Inv ==
  /\ TypeOK
  /\ RowsTellTheWindow
  /\ AbsentIsOver
  /\ \A r \in Requests : Recent(r) /\ Current(r)

LEMMA InitInv == Init => Inv
<1> SUFFICES ASSUME Init
             PROVE  Inv
  OBVIOUS
<1> USE RateLimitAssumption
<1>1. NoRow \in Row /\ Idle \in Request /\ Idle.pc = "idle"
  BY DEF NoRow, Row, Idle, Request
<1>2. TypeOK
  BY <1>1 DEF Init, TypeOK
<1>3. RowsTellTheWindow /\ AbsentIsOver
  BY DEF Init, RowsTellTheWindow, AbsentIsOver
<1>4. \A r \in Requests : Recent(r) /\ Current(r)
  BY <1>1 DEF Init, Recent, Current, Idle
<1> QED
  BY <1>2, <1>3, <1>4 DEF Inv

(* A count of one starts a window at the stamp; otherwise the count goes on*)
(* in the window of the row.                                               *)
LEMMA CountedFacts ==
  ASSUME NEW row \in Row, row = NoRow \/ row.count >= 1,
         NEW window \in Nat \ {0}, NEW at \in Nat,
         NEW new, new = IF row = NoRow \/ at - row.last >= window
                        THEN [count |-> 1, last |-> at]
                        ELSE [row EXCEPT !.count = row.count + 1]
  PROVE  /\ new \in Row /\ new # NoRow /\ new.count >= 1
         /\ new.count = 1 =>
              new.last = at /\ (row = NoRow \/ at - row.last >= window)
         /\ new.count # 1 =>
              row # NoRow /\ new.last = row.last /\ new.count = row.count + 1
<1>1. NoRow.count = 0
  BY DEF NoRow
<1>2. CASE row = NoRow \/ at - row.last >= window
  BY <1>1, <1>2 DEF Counted, Row
<1>3. CASE ~(row = NoRow \/ at - row.last >= window)
  BY <1>1, <1>3 DEF Counted, Row
<1> QED
  BY <1>2, <1>3

LEMMA RetryAfterType ==
  ASSUME NEW last \in Int, NEW window \in Int, NEW at \in Nat
  PROVE  RetryAfterSeconds(last, window, at) \in Nat
<1>1. (last + window - at + Second - 1) \div Second \in Int
  BY RateLimitAssumption
<1> QED
  BY <1>1 DEF RetryAfterSeconds

LEMMA TickInv == Inv /\ Tick => Inv'
<1> SUFFICES ASSUME Inv, Tick
             PROVE  Inv'
  OBVIOUS
<1> USE RateLimitAssumption
<1>1. TypeOK'
  BY DEF Inv, TypeOK, Tick
<1>2. RowsTellTheWindow'
  BY DEF Inv, RowsTellTheWindow, Tick
<1>3. AbsentIsOver'
  BY DEF Inv, TypeOK, AbsentIsOver, Tick
<1>4. ASSUME NEW r \in Requests
      PROVE  Recent(r)' /\ Current(r)'
  <2>1. Recent(r)'
    BY DEF Inv, TypeOK, Request, Recent, Tick, Clock
  <2>2. Current(r)'
    BY DEF Inv, Current, Tick, Stale
  <2> QED
    BY <2>1, <2>2
<1> QED
  BY <1>1, <1>2, <1>3, <1>4 DEF Inv

LEMMA ConsumeInv ==
  ASSUME Inv, NEW r \in Requests, NEW k \in Keys, NEW s \in Servers, Consume(r, k, s)
  PROVE  Inv'
<1> USE RateLimitAssumption
<1> DEFINE new == [pc |-> "stamped", key |-> k, server |-> s, stamp |-> Clock(s),
                   row |-> NoRow, pruned |-> {}]
<1>1. new \in Request
  BY DEF Request, NoRow, Row, Clock, Inv, TypeOK
<1>2. /\ req' = [req EXCEPT ![r] = new]
      /\ UNCHANGED <<now, rows, lockedBy, opened, admitted, promise>>
      /\ req \in [Requests -> Request] /\ req[r].pc = "idle"
  BY DEF Consume, Inv, TypeOK
<1>3. TypeOK'
  BY <1>1, <1>2 DEF Inv, TypeOK
<1>4. RowsTellTheWindow' /\ AbsentIsOver'
  BY <1>2 DEF Inv, RowsTellTheWindow, AbsentIsOver
<1>5. ASSUME NEW q \in Requests
      PROVE  Recent(q)' /\ Current(q)'
  <2>1. CASE q = r
    BY <1>2, <2>1 DEF Inv, TypeOK, Recent, Current, Clock
  <2>2. CASE q # r
    BY <1>2, <2>2 DEF Inv, Recent, Current, Clock, Stale
  <2> QED
    BY <2>1, <2>2
<1> QED
  BY <1>3, <1>4, <1>5 DEF Inv

LEMMA UpsertInv ==
  ASSUME Inv, NEW r \in Requests, Upsert(r)
  PROVE  Inv'
<1> USE RateLimitAssumption
<1> DEFINE k == req[r].key
           new == Counted(rows[k], Policy[k].window, req[r].stamp)
<1>1. /\ req[r].pc = "stamped" /\ lockedBy[k] = None /\ k \in Keys
      /\ req \in [Requests -> Request] /\ req[r] \in Request
      /\ req' = [req EXCEPT ![r].pc = "counted", ![r].row = new]
      /\ lockedBy' = [lockedBy EXCEPT ![k] = r]
      /\ UNCHANGED <<now, rows, opened, admitted, promise>>
  BY DEF Upsert, Inv, TypeOK, Recent
<1>2. new \in Row
  <2>1. /\ rows[k] \in Row /\ (rows[k] = NoRow \/ rows[k].count >= 1)
        /\ Policy[k].window \in Nat \ {0} /\ req[r].stamp \in Nat
    BY <1>1 DEF Inv, TypeOK, RowsTellTheWindow, Request
  <2> QED
    BY <2>1, CountedFacts DEF Counted
<1>3. TypeOK'
  <2>1. req' \in [Requests -> Request]
    BY <1>1, <1>2 DEF Request
  <2>2. ASSUME NEW j \in Keys, NEW q \in Requests
        PROVE  (lockedBy[j] = q <=>
                 req[q].pc = "counted" /\ j \in {req[q].key} \cup req[q].pruned)'
    <3>1. req[r].pruned = {}
      BY <1>1 DEF Inv, Current, Request
    <3> QED
      BY <1>1, <3>1 DEF Inv, TypeOK
  <2> QED
    BY <1>1, <2>1, <2>2 DEF Inv, TypeOK
<1>4. RowsTellTheWindow' /\ AbsentIsOver'
  BY <1>1 DEF Inv, RowsTellTheWindow, AbsentIsOver
<1>5. ASSUME NEW q \in Requests
      PROVE  Recent(q)' /\ Current(q)'
  <2>1. CASE q = r
    BY <1>1, <2>1 DEF Inv, Recent, Current, Clock, Stale
  <2>2. CASE q # r
    BY <1>1, <2>2 DEF Inv, Recent, Current, Clock, Stale
  <2> QED
    BY <2>1, <2>2
<1> QED
  BY <1>3, <1>4, <1>5 DEF Inv

LEMMA PruneInv ==
  ASSUME Inv, NEW r \in Requests, NEW k \in Keys, Prune(r, k)
  PROVE  Inv'
<1> USE RateLimitAssumption
<1>1. /\ req[r].pc = "counted" /\ lockedBy[k] = None /\ Stale(r, k)
      /\ req \in [Requests -> Request] /\ req[r] \in Request
      /\ req' = [req EXCEPT ![r].pruned = req[r].pruned \cup {k}]
      /\ lockedBy' = [lockedBy EXCEPT ![k] = r]
      /\ UNCHANGED <<now, rows, opened, admitted, promise>>
  BY DEF Prune, Inv, TypeOK
<1>2. TypeOK'
  <2>1. req' \in [Requests -> Request]
    BY <1>1 DEF Request
  <2>2. ASSUME NEW j \in Keys, NEW q \in Requests
        PROVE  (lockedBy[j] = q <=>
                 req[q].pc = "counted" /\ j \in {req[q].key} \cup req[q].pruned)'
    BY <1>1 DEF Inv, TypeOK
  <2> QED
    BY <1>1, <2>1, <2>2 DEF Inv, TypeOK
<1>3. RowsTellTheWindow' /\ AbsentIsOver'
  BY <1>1 DEF Inv, RowsTellTheWindow, AbsentIsOver
<1>4. ASSUME NEW q \in Requests
      PROVE  Recent(q)' /\ Current(q)'
  <2>1. CASE q = r
    BY <1>1, <2>1 DEF Inv, Recent, Current, Clock, Stale
  <2>2. CASE q # r
    BY <1>1, <2>2 DEF Inv, Recent, Current, Clock, Stale
  <2> QED
    BY <2>1, <2>2
<1> QED
  BY <1>2, <1>3, <1>4 DEF Inv

(* A statement that ends, committed or not, holds nothing any more.        *)
LEMMA ReleaseType ==
  ASSUME TypeOK, NEW r \in Requests,
         req' = [req EXCEPT ![r] = Idle], lockedBy' = Released(r)
  PROVE  /\ req' \in [Requests -> Request]
         /\ lockedBy' \in [Keys -> Requests \cup {None}]
         /\ \A k \in Keys, q \in Requests :
              lockedBy'[k] = q <=>
                req'[q].pc = "counted" /\ k \in {req'[q].key} \cup req'[q].pruned
<1> USE RateLimitAssumption
<1>1. Idle \in Request /\ Idle.pc = "idle"
  BY DEF Idle, Request, NoRow, Row
<1>2. \A k \in Keys : lockedBy'[k] = IF lockedBy[k] = r THEN None ELSE lockedBy[k]
  BY DEF Released
<1> QED
  BY <1>1, <1>2 DEF TypeOK, Released

LEMMA FailInv ==
  ASSUME Inv, NEW r \in Requests, Fail(r)
  PROVE  Inv'
<1>1. /\ req \in [Requests -> Request]
      /\ req' = [req EXCEPT ![r] = Idle] /\ lockedBy' = Released(r)
      /\ UNCHANGED <<now, rows, opened, admitted, promise>>
  BY DEF Fail, Inv, TypeOK
<1>2. TypeOK'
  BY <1>1, ReleaseType DEF Inv, TypeOK
<1>3. RowsTellTheWindow' /\ AbsentIsOver'
  BY <1>1 DEF Inv, RowsTellTheWindow, AbsentIsOver
<1>4. ASSUME NEW q \in Requests
      PROVE  Recent(q)' /\ Current(q)'
  <2>1. CASE q = r
    BY <1>1, <2>1 DEF Idle, Recent, Current
  <2>2. CASE q # r
    BY <1>1, <2>2 DEF Inv, Recent, Current, Clock, Stale
  <2> QED
    BY <2>1, <2>2
<1> QED
  BY <1>2, <1>3, <1>4 DEF Inv

(* What a statement that commits has computed.                             *)
LEMMA CommitFacts ==
  ASSUME Inv, NEW r \in Requests, req[r].pc = "counted"
  PROVE  LET k == req[r].key
             row == req[r].row
         IN
         /\ k \in Keys /\ row \in Row /\ row # NoRow /\ row.count >= 1
         /\ req[r].stamp \in Times
         /\ row.count = 1 =>
              row.last = req[r].stamp /\ row.last >= opened[k] + Policy[k].window
         /\ row.count # 1 =>
              row.last = opened[k] /\ admitted[k] <= row.count - 1
<1> USE RateLimitAssumption
<1> DEFINE k == req[r].key
           row == req[r].row
<1>1. /\ k \in Keys /\ req[r].server \in Servers
      /\ rows[k] \in Row /\ (rows[k] = NoRow \/ rows[k].count >= 1)
      /\ Policy[k].window \in Nat \ {0} /\ req[r].stamp \in Nat
      /\ Skew[req[r].server] \in Nat /\ now \in 0 .. MaxTime
      /\ opened[k] \in Int /\ admitted[k] \in Nat
  BY DEF Inv, TypeOK, Recent, RowsTellTheWindow, Request
<1>2. row = Counted(rows[k], Policy[k].window, req[r].stamp)
  BY DEF Inv, Current
<1>3. /\ row \in Row /\ row # NoRow /\ row.count >= 1
      /\ row.count = 1 =>
           row.last = req[r].stamp
             /\ (rows[k] = NoRow \/ req[r].stamp - rows[k].last >= Policy[k].window)
      /\ row.count # 1 =>
           rows[k] # NoRow /\ row.last = rows[k].last /\ row.count = rows[k].count + 1
  BY <1>1, <1>2, CountedFacts DEF Counted
<1>4. /\ req[r].stamp \in Skew[req[r].server] .. Clock(req[r].server)
      /\ Clock(req[r].server) <= req[r].stamp + MaxDelay
  BY DEF Inv, Recent
<1>5. req[r].stamp \in Times
  BY <1>1, <1>4 DEF Times, Clock
<1>6. rows[k] = NoRow => req[r].stamp >= opened[k] + Policy[k].window
  BY <1>1, <1>4 DEF Clock, Inv, AbsentIsOver
<1>7. rows[k] # NoRow => rows[k].last = opened[k] /\ admitted[k] <= rows[k].count
  BY <1>1 DEF Inv, RowsTellTheWindow
<1>8. row.count = 1 => row.last >= opened[k] + Policy[k].window
  BY <1>1, <1>3, <1>6, <1>7 DEF Row
<1>9. row.count # 1 => row.last = opened[k] /\ admitted[k] <= row.count - 1
  BY <1>1, <1>3, <1>7 DEF Row
<1> QED
  BY <1>1, <1>3, <1>5, <1>8, <1>9

LEMMA CommitInv ==
  ASSUME Inv, NEW r \in Requests, NEW lost \in BOOLEAN, Commit(r, lost)
  PROVE  Inv'
<1> USE RateLimitAssumption
<1> DEFINE k == req[r].key
           row == req[r].row
           opens == row.count = 1
           reply == IF lost THEN "unavailable" ELSE Decision(row, Policy[k].limit)
           more == IF reply = "allowed" THEN 1 ELSE 0
<1>1. /\ req[r].pc = "counted" /\ lockedBy' = Released(r) /\ UNCHANGED now
      /\ req' = [req EXCEPT ![r] = Idle]
      /\ rows' = [j \in Keys |-> IF j = k THEN row
                                 ELSE IF j \in req[r].pruned THEN NoRow ELSE rows[j]]
      /\ opened' = IF opens THEN [opened EXCEPT ![k] = row.last] ELSE opened
      /\ admitted' = [admitted EXCEPT ![k] = (IF opens THEN 0 ELSE admitted[k]) + more]
  BY DEF Commit
<1>2. /\ k \in Keys /\ row \in Row /\ row # NoRow /\ row.count >= 1
      /\ req[r].stamp \in Nat
      /\ opens => row.last = req[r].stamp
      /\ ~opens => row.last = opened[k] /\ admitted[k] <= row.count - 1
  BY <1>1, CommitFacts DEF Inv, TypeOK, Request
<1>3. /\ req \in [Requests -> Request] /\ rows \in [Keys -> Row]
      /\ opened \in [Keys -> Int] /\ admitted \in [Keys -> Nat]
      /\ more \in {0, 1} /\ now \in Nat /\ TypeOK
  BY DEF Inv, TypeOK
<1>4. promise' \in [Keys -> [Servers -> Nat]]
  <2>1. row.last \in Int /\ Policy[k].window \in Int
    BY <1>2 DEF Row
  <2>2. RetryAfterSeconds(row.last, Policy[k].window, req[r].stamp) \in Nat
    BY <1>2, <2>1, RetryAfterType
  <2>3. req[r].stamp
          + Second * RetryAfterSeconds(row.last, Policy[k].window, req[r].stamp) \in Nat
    BY <1>2, <2>2
  <2>4. promise' = [promise EXCEPT ![k] =
                      CASE opens -> [s \in Servers |-> 0]
                        [] reply = "refused" ->
                             [@ EXCEPT ![req[r].server] =
                                req[r].stamp
                                  + Second * RetryAfterSeconds(row.last, Policy[k].window,
                                                               req[r].stamp)]
                        [] OTHER -> @]
    BY DEF Commit
  <2>5. promise \in [Keys -> [Servers -> Nat]] /\ promise[k] \in [Servers -> Nat]
    BY <1>2, <1>3 DEF TypeOK
  <2> QED
    BY <1>2, <2>3, <2>4, <2>5
<1>5. TypeOK'
  <2>1. rows' \in [Keys -> Row]
    BY <1>1, <1>2, <1>3 DEF NoRow, Row
  <2>2. opened' \in [Keys -> Int]
    BY <1>1, <1>2, <1>3 DEF Row
  <2>3. admitted' \in [Keys -> Nat]
    BY <1>1, <1>2, <1>3
  <2> QED
    BY <1>1, <1>3, <1>4, <2>1, <2>2, <2>3, ReleaseType DEF TypeOK
<1>6. ASSUME NEW j \in Keys, j # k
      PROVE  opened'[j] = opened[j] /\ admitted'[j] = admitted[j]
  BY <1>1, <1>3, <1>6
<1>7. RowsTellTheWindow'
  <2>1. rows'[k] = row /\ opened'[k] = row.last /\ admitted'[k] <= row.count
    BY <1>1, <1>2, <1>3 DEF Row
  <2> QED
    BY <1>1, <1>2, <1>6, <2>1 DEF Inv, RowsTellTheWindow
<1>8. AbsentIsOver'
  <2> SUFFICES ASSUME NEW j \in Keys, rows'[j] = NoRow
               PROVE  \/ opened'[j] + Policy[j].window <= 0
                      \/ opened'[j] + Policy[j].window <= now - MaxDelay
    BY <1>1 DEF AbsentIsOver
  <2>1. j # k
    BY <1>1, <1>2
  <2>2. CASE rows[j] = NoRow
    BY <1>6, <2>1, <2>2 DEF Inv, AbsentIsOver
  <2>3. CASE rows[j] # NoRow
    <3>1. j \in req[r].pruned
      BY <1>1, <2>1, <2>3
    <3>2. opened[j] < req[r].stamp - Retention
      BY <2>3, <3>1 DEF Inv, Current, Stale, RowsTellTheWindow
    <3>3. req[r].server \in Servers /\ req[r].stamp <= now + Skew[req[r].server]
      BY <1>1, <1>2, <1>3 DEF Inv, Recent, Clock
    <3>4. Policy[j].window + Skew[req[r].server] + MaxDelay <= Retention
      BY <3>3, RetentionAssumption
    <3> QED
      BY <1>2, <1>3, <1>6, <2>1, <3>2, <3>3, <3>4
  <2> QED
    BY <2>2, <2>3
<1>9. ASSUME NEW q \in Requests
      PROVE  Recent(q)' /\ Current(q)'
  <2>1. CASE q = r
    BY <1>1, <1>3, <2>1 DEF Idle, Recent, Current
  <2>2. CASE q # r
    <3>1. req'[q] = req[q]
      BY <1>1, <2>2
    <3>2. Recent(q)'
      BY <1>1, <3>1 DEF Inv, Recent, Clock
    <3>3. ASSUME NEW j \in Keys, req[q].pc = "counted", j \in {req[q].key} \cup req[q].pruned
          PROVE  rows'[j] = rows[j]
      <4>1. lockedBy[j] = q
        BY <3>3 DEF Inv, TypeOK
      <4>2. j # k /\ j \notin req[r].pruned
        BY <1>1, <1>2, <2>2, <4>1 DEF Inv, TypeOK
      <4> QED
        BY <1>1, <4>2
    <3>4. req[q].pruned \subseteq Keys
      BY <1>3 DEF Request
    <3>5. Current(q)'
      BY <1>1, <3>1, <3>3, <3>4 DEF Inv, Current, Recent, Stale
    <3> QED
      BY <3>2, <3>5
  <2> QED
    BY <2>1, <2>2
<1> QED
  BY <1>5, <1>7, <1>8, <1>9 DEF Inv

LEMMA NextInv == Inv /\ [Next]_vars => Inv'
<1> SUFFICES ASSUME Inv, [Next]_vars
             PROVE  Inv'
  OBVIOUS
<1>1. CASE Next
  BY <1>1, TickInv, ConsumeInv, UpsertInv, PruneInv, CommitInv, FailInv DEF Next
<1>2. CASE UNCHANGED vars
  BY <1>2 DEF vars, Inv, TypeOK, RowsTellTheWindow, AbsentIsOver, Recent, Current,
     Clock, Stale
<1> QED
  BY <1>1, <1>2

LEMMA CommitRefines ==
  ASSUME Inv, NEW r \in Requests, NEW lost \in BOOLEAN, Commit(r, lost)
  PROVE  [Quota!Next]_Quota!vars
<1> USE RateLimitAssumption
<1> DEFINE k == req[r].key
           row == req[r].row
           opens == row.count = 1
           reply == IF lost THEN "unavailable" ELSE Decision(row, Policy[k].limit)
           more == IF reply = "allowed" THEN 1 ELSE 0
<1>1. /\ req[r].pc = "counted"
      /\ opened' = IF opens THEN [opened EXCEPT ![k] = row.last] ELSE opened
      /\ admitted' = [admitted EXCEPT ![k] = (IF opens THEN 0 ELSE admitted[k]) + more]
  BY DEF Commit
<1>2. /\ k \in Keys /\ row \in Row /\ req[r].stamp \in Times
      /\ opens => row.last = req[r].stamp /\ row.last >= opened[k] + Policy[k].window
      /\ ~opens => admitted[k] <= row.count - 1
  BY <1>1, CommitFacts
<1>3. /\ opened \in [Keys -> Int] /\ admitted \in [Keys -> Nat]
      /\ Policy[k].limit \in Nat
  BY <1>2 DEF Inv, TypeOK
<1>4. CASE opens
  <2>1. row.last >= opened[k] + Policy[k].window /\ opened' = [opened EXCEPT ![k] = row.last]
    BY <1>1, <1>2, <1>4
  <2>2. admitted' = [admitted EXCEPT ![k] = more] /\ more \in {0, 1}
    BY <1>1, <1>4
  <2>3. Quota!Open(k, row.last)
    BY <2>1, <2>2 DEF Quota!Open
  <2> QED
    BY <1>2, <1>4, <2>3 DEF Quota!Next
<1>5. CASE ~opens /\ reply = "allowed"
  <2>1. row.count <= Policy[k].limit
    BY <1>5 DEF Decision
  <2>2. admitted[k] < Policy[k].limit
    BY <1>2, <1>3, <1>5, <2>1 DEF Row
  <2>3. Quota!Admit(k)
    BY <1>1, <1>5, <2>2 DEF Quota!Admit
  <2> QED
    BY <1>2, <2>3 DEF Quota!Next
<1>6. CASE ~opens /\ reply # "allowed"
  <2>1. opened' = opened /\ admitted' = admitted
    BY <1>1, <1>2, <1>3, <1>6
  <2> QED
    BY <2>1 DEF Quota!vars
<1> QED
  BY <1>4, <1>5, <1>6

LEMMA NextRefines == Inv /\ [Next]_vars => [Quota!Next]_Quota!vars
<1> SUFFICES ASSUME Inv, [Next]_vars
             PROVE  [Quota!Next]_Quota!vars
  OBVIOUS
<1>1. CASE \E r \in Requests, lost \in BOOLEAN : Commit(r, lost)
  BY <1>1, CommitRefines
<1>2. CASE UNCHANGED <<opened, admitted>>
  BY <1>2 DEF Quota!vars
<1> QED
  BY <1>1, <1>2 DEF Next, vars, Tick, Consume, Upsert, Prune, Fail

(* The type invariant, for every instance.                                 *)
THEOREM TypeCorrect == Spec => []TypeOK
<1>1. Inv => TypeOK
  BY DEF Inv
<1> QED
  BY <1>1, InitInv, NextInv, PTL DEF Spec

(* Windows of a subject do not overlap and none admits more than the limit,*)
(* whatever the clocks, the delays and the pruning do within the retention *)
(* time (consumeRateLimit).                                                *)
THEOREM QuotaKept == Spec => ImplementsRateQuota
<1>1. Init => Quota!Init
  BY DEF Init, Quota!Init
<1> QED
  BY <1>1, InitInv, NextInv, NextRefines, PTL DEF Spec, Quota!Spec, ImplementsRateQuota

-----------------------------------------------------------------------------
(* Waiting for the Retry-After is enough: a promise lasts until the window *)
(* it was given in is over.                                                *)

(* A Retry-After covers the rest of the window it was given in.            *)
PromiseKept ==
  \A k \in Keys, s \in Servers :
    promise[k][s] > 0 => promise[k][s] >= opened[k] + Policy[k].window

(* Rounded up to whole seconds, the wait is not cut short.                 *)
LEMMA RoundedUp ==
  ASSUME NEW left \in Int
  PROVE  Second * ((left + Second - 1) \div Second) >= left
  BY RateLimitAssumption

LEMMA RetryAfterCovers ==
  ASSUME NEW last \in Int, NEW window \in Int, NEW at \in Nat
  PROVE  at + Second * RetryAfterSeconds(last, window, at) >= last + window
<1> USE RateLimitAssumption
<1> DEFINE left == last + window - at
           rounded == (left + Second - 1) \div Second
<1>1. left \in Int /\ rounded \in Int /\ Second * rounded >= left
  BY RoundedUp
<1>2. RetryAfterSeconds(last, window, at) = IF rounded < 1 THEN 1 ELSE rounded
  BY DEF RetryAfterSeconds
<1>3. CASE rounded < 1
  <2>1. Second * rounded <= 0
    BY <1>1, <1>3
  <2> QED
    BY <1>1, <1>2, <1>3, <2>1
<1>4. CASE ~(rounded < 1)
  BY <1>1, <1>2, <1>4
<1> QED
  BY <1>3, <1>4

LEMMA CommitKeepsPromise ==
  ASSUME Inv, PromiseKept, NEW r \in Requests, NEW lost \in BOOLEAN, Commit(r, lost)
  PROVE  PromiseKept'
<1> USE RateLimitAssumption
<1> DEFINE k == req[r].key
           row == req[r].row
           opens == row.count = 1
           reply == IF lost THEN "unavailable" ELSE Decision(row, Policy[k].limit)
           until == req[r].stamp
                      + Second * RetryAfterSeconds(row.last, Policy[k].window, req[r].stamp)
<1>1. /\ req[r].pc = "counted"
      /\ opened' = IF opens THEN [opened EXCEPT ![k] = row.last] ELSE opened
      /\ promise' = [promise EXCEPT ![k] =
                       CASE opens -> [s \in Servers |-> 0]
                         [] reply = "refused" -> [@ EXCEPT ![req[r].server] = until]
                         [] OTHER -> @]
  BY DEF Commit
<1>2. /\ k \in Keys /\ row \in Row /\ req[r].stamp \in Nat
      /\ ~opens => row.last = opened[k]
  BY <1>1, CommitFacts DEF Inv, TypeOK, Request
<1>3. /\ opened \in [Keys -> Int]
      /\ promise \in [Keys -> [Servers -> Nat]] /\ promise[k] \in [Servers -> Nat]
  BY <1>2 DEF Inv, TypeOK
<1>4. until >= row.last + Policy[k].window
  <2>1. row.last \in Int /\ Policy[k].window \in Int
    BY <1>2 DEF Row
  <2> HIDE DEF row
  <2> QED
    BY <1>2, <2>1, RetryAfterCovers
<1> HIDE DEF until
<1> SUFFICES ASSUME NEW j \in Keys, NEW s \in Servers, promise'[j][s] > 0
             PROVE  promise'[j][s] >= opened'[j] + Policy[j].window
  BY DEF PromiseKept
<1>5. CASE j # k
  BY <1>1, <1>3, <1>5 DEF PromiseKept
<1>6. CASE j = k /\ opens
  <2>1. reply # "refused"
    BY <1>2, <1>6 DEF Decision
  <2>2. promise' = [promise EXCEPT ![k] = [q \in Servers |-> 0]]
    BY <1>1, <1>6, <2>1
  <2> QED
    BY <1>2, <1>3, <1>6, <2>2
<1>7. CASE j = k /\ ~opens
  <2>1. opened' = opened
    BY <1>1, <1>7
  <2>2. \/ promise'[k] = [promise[k] EXCEPT ![req[r].server] = until]
        \/ promise'[k] = promise[k]
    BY <1>1, <1>2, <1>3, <1>7
  <2>3. promise'[k][s] = until \/ promise'[k][s] = promise[k][s]
    BY <1>3, <2>2
  <2>4. CASE promise'[k][s] = until
    BY <1>2, <1>4, <1>7, <2>1, <2>4
  <2>5. CASE promise'[k][s] = promise[k][s]
    BY <1>7, <2>1, <2>5 DEF PromiseKept
  <2> QED
    BY <2>3, <2>4, <2>5
<1> QED
  BY <1>5, <1>6, <1>7

LEMMA NextKeepsPromise == Inv /\ PromiseKept /\ [Next]_vars => PromiseKept'
<1> SUFFICES ASSUME Inv, PromiseKept, [Next]_vars
             PROVE  PromiseKept'
  OBVIOUS
<1>1. CASE \E r \in Requests, lost \in BOOLEAN : Commit(r, lost)
  BY <1>1, CommitKeepsPromise
<1>2. CASE UNCHANGED <<opened, promise>>
  BY <1>2 DEF PromiseKept
<1> QED
  BY <1>1, <1>2 DEF Next, vars, Tick, Consume, Upsert, Prune, Fail

(* Past the end of its window, a row counts a request as the first.        *)
LEMMA PromiseSuffices == Inv /\ PromiseKept => RetryAfterIsEnough
<1> USE RateLimitAssumption
<1> SUFFICES ASSUME Inv, PromiseKept, NEW r \in Requests, req[r].pc = "counted",
                    promise[req[r].key][req[r].server] > 0,
                    req[r].stamp >= promise[req[r].key][req[r].server]
             PROVE  req[r].row.count <= Policy[req[r].key].limit
  BY DEF RetryAfterIsEnough
<1> DEFINE k == req[r].key
           window == Policy[k].window
<1>1. /\ k \in Keys /\ req[r].server \in Servers
      /\ req[r].stamp \in Nat /\ rows[k] \in Row /\ opened[k] \in Int
      /\ promise[k][req[r].server] \in Nat
      /\ window \in Nat \ {0} /\ Policy[k].limit \in Nat \ {0}
  BY DEF Inv, TypeOK, Recent, Request
<1>2. req[r].stamp >= opened[k] + window
  BY <1>1 DEF PromiseKept
<1>3. rows[k] = NoRow \/ rows[k].last = opened[k]
  BY <1>1 DEF Inv, RowsTellTheWindow
<1>4. rows[k] = NoRow \/ req[r].stamp - rows[k].last >= window
  BY <1>1, <1>2, <1>3
<1>5. req[r].row = Counted(rows[k], window, req[r].stamp)
  BY DEF Inv, Current
<1>6. req[r].row.count = 1
  BY <1>4, <1>5 DEF Counted
<1> QED
  BY <1>1, <1>6

(* A caller that has waited for its Retry-After is not refused again by    *)
(* the same server, however often it asked meanwhile, whatever the clocks  *)
(* of the other servers and the pruning do (retryAfterSeconds).            *)
THEOREM RetryAfterEnough == Spec => []RetryAfterIsEnough
<1>1. Init => PromiseKept
  BY DEF Init, PromiseKept
<1>2. Inv /\ PromiseKept => RetryAfterIsEnough
  BY PromiseSuffices
<1> QED
  BY <1>1, <1>2, InitInv, NextInv, NextKeepsPromise, PTL DEF Spec

-----------------------------------------------------------------------------
(* Reports: the rows of MCTables under the names that Reports gives them.  *)
account == v1
profile == v2
doomed == v3
reports == v4
submit == v5
late == v6
disturbed == v7

(* What is known of one submission.  A report that was answered is on file *)
(* for as long as nobody it names is gone; an undisturbed submission deals *)
(* with accounts that nobody deletes, so that what it found is still there.*)
SubmissionOK(s) ==
  /\ submit[s].pc # "idle" => submit[s].reporter \in Users /\ submit[s].target \in Users
  /\ s \in reports => submit[s].pc \in {"created", "failed"}
  /\ submit[s].report # None =>
       /\ submit[s].pc # "idle"
       /\ submit[submit[s].report].pc \in {"created", "failed"}
       /\ Rep!SameReport(s, submit[s].report)
       /\ account[submit[s].reporter] # "gone" /\ account[submit[s].target] # "gone" =>
            submit[s].report \in reports
  /\ s \notin disturbed =>
       /\ submit[s].pc \notin {"refused", "failed"}
       /\ submit[s].pc \in Rep!Working =>
            account[submit[s].reporter] = "live" /\ account[submit[s].target] = "live"
       /\ submit[s].pc = "rechecking" => submit[s].reporter \in profile
       /\ submit[s].pc = "conflicted" => Rep!OnFile(s) # {}

(* The partial unique index.                                               *)
OneOpenReport == \A s, t \in reports : Rep!SameReport(s, t) => s = t

(* An open deletion has found every report about the account that was on   *)
(* file when it began.                                                     *)
TriggerSawAll ==
  \A u \in Users, s \in reports :
    account[u] = "deleting" /\ submit[s].target = u => s \in doomed[u] \cup late

ReportsInv ==
  /\ Rep!TypeOK
  /\ \A s \in Submits : SubmissionOK(s)
  /\ OneOpenReport /\ TriggerSawAll /\ Rep!DeletionSweepsReports

USE DEF account, profile, doomed, reports, submit, late, disturbed

LEMMA InitReports == Rep!Init => ReportsInv
  BY DEF Rep!Init, ReportsInv, Rep!TypeOK, Rep!Submission, Rep!Working, Rep!Ended,
         SubmissionOK, OneOpenReport, TriggerSawAll, Rep!DeletionSweepsReports

(* A submission that works moves on, and the files stay as they are.       *)
LEMMA SubmissionMoves ==
  ASSUME ReportsInv, NEW s \in Submits, submit[s].pc \in Rep!Working,
         NEW record \in Rep!Submission, submit' = [submit EXCEPT ![s] = record],
         record.reporter = submit[s].reporter, record.target = submit[s].target,
         UNCHANGED <<account, doomed, reports, late>>,
         profile \subseteq profile', profile' \subseteq {u \in Users : account[u] # "gone"},
         disturbed \subseteq disturbed', disturbed' \subseteq Submits,
         SubmissionOK(s)'
  PROVE  ReportsInv'
<1>1. /\ submit' \in [Submits -> Rep!Submission] /\ submit'[s] = record
      /\ \A q \in Submits : q # s => submit'[q] = submit[q]
  BY DEF ReportsInv, Rep!TypeOK
<1>2. \A q \in Submits : /\ submit'[q].reporter = submit[q].reporter
                         /\ submit'[q].target = submit[q].target
  BY <1>1
<1>3. reports \subseteq Submits /\ s \notin reports
  BY DEF ReportsInv, Rep!TypeOK, SubmissionOK, Rep!Working
<1>4. Rep!TypeOK'
  BY <1>1, <1>2 DEF ReportsInv, Rep!TypeOK
<1>5. OneOpenReport' /\ TriggerSawAll' /\ Rep!DeletionSweepsReports'
  BY <1>2, <1>3 DEF ReportsInv, OneOpenReport, TriggerSawAll, Rep!DeletionSweepsReports,
                    Rep!SameReport
<1>6. ASSUME NEW q \in Submits, q # s
      PROVE  SubmissionOK(q)'
  <2>1. submit'[q] = submit[q] /\ SubmissionOK(q)
    BY <1>1, <1>6 DEF ReportsInv
  <2>2. submit[q].report # None => submit[q].report \in Submits /\ submit[q].report # s
    BY <2>1 DEF ReportsInv, Rep!TypeOK, Rep!Submission, SubmissionOK, Rep!Working
  <2>3. submit[q].report # None => submit'[submit[q].report] = submit[submit[q].report]
    BY <1>1, <2>2
  <2>4. Rep!OnFile(q)' = Rep!OnFile(q)
    BY <1>2, <1>3 DEF Rep!OnFile, Rep!SameReport
  <2> QED
    BY <2>1, <2>2, <2>3, <2>4 DEF SubmissionOK, Rep!SameReport
<1> QED
  BY <1>4, <1>5, <1>6 DEF ReportsInv

(* A submission puts its report on file: nothing of its reporter and target*)
(* is there, and no deletion has committed.                                *)
LEMMA ReportIsFiled ==
  ASSUME ReportsInv, NEW s \in Submits, submit[s].pc = "absent",
         account[submit[s].reporter] = "live", Rep!OnFile(s) = {},
         NEW record \in Rep!Submission, submit' = [submit EXCEPT ![s] = record],
         record.reporter = submit[s].reporter, record.target = submit[s].target,
         \/ record.pc = "created" /\ record.report = s /\ UNCHANGED disturbed
         \/ record.pc = "failed" /\ record.report = submit[s].report
              /\ disturbed' = disturbed \cup {s},
         reports' = reports \cup {s},
         late' = IF account[submit[s].target] = "live" THEN late ELSE late \cup {s},
         UNCHANGED <<account, profile, doomed>>
  PROVE  ReportsInv'
<1>1. /\ submit' \in [Submits -> Rep!Submission] /\ submit'[s] = record
      /\ \A q \in Submits : q # s => submit'[q] = submit[q]
  BY DEF ReportsInv, Rep!TypeOK
<1>2. \A q \in Submits : /\ submit'[q].reporter = submit[q].reporter
                         /\ submit'[q].target = submit[q].target
  BY <1>1
<1>3. /\ reports \subseteq Submits /\ s \notin reports
      /\ submit[s].reporter \in Users /\ submit[s].target \in Users
      /\ account[submit[s].target] \in {"live", "deleting", "gone"}
  BY DEF ReportsInv, Rep!TypeOK, SubmissionOK
<1>4. Rep!TypeOK'
  BY <1>1, <1>2, <1>3 DEF ReportsInv, Rep!TypeOK
<1>5. OneOpenReport'
  <2>1. \A t \in reports : ~ Rep!SameReport(s, t) /\ ~ Rep!SameReport(t, s)
    BY DEF Rep!OnFile, Rep!SameReport
  <2>2. \A q, t \in Submits : Rep!SameReport(q, t)' <=> Rep!SameReport(q, t)
    BY <1>2 DEF Rep!SameReport
  <2> QED
    BY <1>3, <2>1, <2>2 DEF ReportsInv, OneOpenReport
<1>6. TriggerSawAll'
  BY <1>2, <1>3 DEF ReportsInv, TriggerSawAll
<1>7. Rep!DeletionSweepsReports'
  BY <1>2, <1>3 DEF ReportsInv, Rep!DeletionSweepsReports
<1>8. ASSUME NEW q \in Submits
      PROVE  SubmissionOK(q)'
  <2>1. CASE q = s
    <3>1. SubmissionOK(s)
      BY DEF ReportsInv
    <3>2. submit[s].report # None => submit[s].report # s /\ submit[s].report \in Submits
      BY <3>1 DEF SubmissionOK, ReportsInv, Rep!TypeOK, Rep!Submission
    <3> QED
      BY <1>1, <1>2, <1>3, <2>1, <3>1, <3>2
         DEF SubmissionOK, Rep!SameReport, Rep!Working
  <2>2. CASE q # s
    <3>1. submit'[q] = submit[q] /\ SubmissionOK(q)
      BY <1>1, <2>2 DEF ReportsInv
    <3>2. submit[q].report # None => submit[q].report \in Submits /\ submit[q].report # s
      BY <3>1 DEF ReportsInv, Rep!TypeOK, Rep!Submission, SubmissionOK
    <3>3. submit[q].report # None => submit'[submit[q].report] = submit[submit[q].report]
      BY <1>1, <3>2
    <3>4. Rep!OnFile(q) \subseteq Rep!OnFile(q)'
      BY <1>2, <1>3 DEF Rep!OnFile, Rep!SameReport
    <3>5. q \notin disturbed' => q \notin disturbed
      OBVIOUS
    <3> QED
      BY <2>2, <3>1, <3>2, <3>3, <3>4, <3>5 DEF SubmissionOK, Rep!SameReport
  <2> QED
    BY <2>1, <2>2
<1> QED
  BY <1>4, <1>5, <1>6, <1>7, <1>8 DEF ReportsInv

(* Where a submission may go without the answer of a report.               *)
LEMMA GoHolds ==
  ASSUME ReportsInv, NEW s \in Submits, submit[s].pc \in Rep!Working,
         NEW pc \in Rep!Working \cup Rep!Ended, Rep!Go(s, pc),
         s \in disturbed \/ pc \notin {"refused", "failed"},
         pc = "rechecking" => submit[s].reporter \in profile,
         pc = "conflicted" => Rep!OnFile(s) # {}
  PROVE  ReportsInv'
<1> DEFINE record == [submit[s] EXCEPT !.pc = pc]
<1>1. /\ submit \in [Submits -> Rep!Submission] /\ submit[s] \in Rep!Submission
      /\ SubmissionOK(s) /\ s \notin reports /\ reports \subseteq Submits
      /\ profile \subseteq {u \in Users : account[u] # "gone"} /\ disturbed \subseteq Submits
  BY DEF ReportsInv, Rep!TypeOK, SubmissionOK, Rep!Working
<1>2. /\ record \in Rep!Submission /\ record.pc = pc
      /\ record.reporter = submit[s].reporter /\ record.target = submit[s].target
      /\ record.report = submit[s].report
  BY <1>1 DEF Rep!Submission
<1>3. /\ submit' = [submit EXCEPT ![s] = record]
      /\ UNCHANGED <<account, profile, doomed, reports, late, disturbed>>
  BY DEF Rep!Go
<1> HIDE DEF record
<1>4. submit'[s] = record /\ \A q \in Submits : q # s => submit'[q] = submit[q]
  BY <1>1, <1>3
<1>5. Rep!OnFile(s)' = Rep!OnFile(s)
  BY <1>1, <1>2, <1>3, <1>4 DEF Rep!OnFile, Rep!SameReport
<1>6. submit[s].report # None => submit[s].report # s /\ submit[s].report \in Submits
  BY <1>1 DEF SubmissionOK, Rep!Working, Rep!Submission
<1>7. SubmissionOK(s)'
  BY <1>1, <1>2, <1>3, <1>4, <1>5, <1>6
     DEF SubmissionOK, Rep!SameReport, Rep!Working, Rep!Ended
<1> QED
  BY <1>1, <1>2, <1>3, <1>7, SubmissionMoves

(* An answer that names the report on file.                                *)
LEMMA AnswerHolds ==
  ASSUME ReportsInv, NEW s \in Submits, submit[s].pc \in Rep!Working,
         NEW t \in Rep!OnFile(s), Rep!Answer(s, "duplicate", t)
  PROVE  ReportsInv'
<1> DEFINE record == [submit[s] EXCEPT !.pc = "duplicate", !.report = t]
<1>1. /\ submit \in [Submits -> Rep!Submission] /\ submit[s] \in Rep!Submission
      /\ SubmissionOK(s) /\ s \notin reports /\ reports \subseteq Submits
      /\ profile \subseteq {u \in Users : account[u] # "gone"} /\ disturbed \subseteq Submits
  BY DEF ReportsInv, Rep!TypeOK, SubmissionOK, Rep!Working
<1>2. t \in reports /\ t \in Submits /\ t # s /\ Rep!SameReport(s, t) /\ SubmissionOK(t)
  BY <1>1 DEF Rep!OnFile, ReportsInv
<1>3. /\ record \in Rep!Submission /\ record.pc = "duplicate" /\ record.report = t
      /\ record.reporter = submit[s].reporter /\ record.target = submit[s].target
  BY <1>1, <1>2 DEF Rep!Submission, Rep!Ended
<1>4. /\ submit' = [submit EXCEPT ![s] = record]
      /\ UNCHANGED <<account, profile, doomed, reports, late, disturbed>>
  BY DEF Rep!Answer
<1> HIDE DEF record
<1>5. submit'[s] = record /\ \A q \in Submits : q # s => submit'[q] = submit[q]
  BY <1>1, <1>4
<1>6. SubmissionOK(s)'
  BY <1>1, <1>2, <1>3, <1>4, <1>5 DEF SubmissionOK, Rep!SameReport, Rep!Working
<1> QED
  BY <1>1, <1>3, <1>4, <1>6, SubmissionMoves

(* What every step of a submission knows.                                  *)
LEMMA SubmissionFacts ==
  ASSUME ReportsInv, NEW s \in Submits, submit[s].pc \in Rep!Working
  PROVE  /\ submit \in [Submits -> Rep!Submission] /\ submit[s] \in Rep!Submission
         /\ SubmissionOK(s)
         /\ submit[s].reporter \in Users /\ submit[s].target \in Users
         /\ s \notin disturbed =>
              account[submit[s].reporter] = "live" /\ account[submit[s].target] = "live"
  BY DEF ReportsInv, Rep!TypeOK, SubmissionOK, Rep!Working

LEMMA SendHolds ==
  ASSUME ReportsInv, NEW s \in Submits, NEW u \in Users, NEW v \in Users, Rep!Send(s, u, v)
  PROVE  ReportsInv'
<1> DEFINE record == [submit[s] EXCEPT !.pc = "sent", !.reporter = u, !.target = v]
<1>1. /\ submit \in [Submits -> Rep!Submission] /\ submit[s] \in Rep!Submission
      /\ submit[s].pc = "idle" /\ SubmissionOK(s) /\ s \notin reports /\ reports \subseteq Submits
      /\ submit[s].report = None
  BY DEF ReportsInv, Rep!TypeOK, SubmissionOK, Rep!Send
<1>2. /\ record \in Rep!Submission /\ record.pc = "sent" /\ record.report = None
      /\ record.reporter = u /\ record.target = v
  BY <1>1 DEF Rep!Submission, Rep!Working
<1>3. /\ submit' = [submit EXCEPT ![s] = record]
      /\ UNCHANGED <<account, profile, doomed, reports, late>>
      /\ disturbed' = IF account[u] = "live" /\ account[v] = "live" THEN disturbed
                      ELSE disturbed \cup {s}
  BY DEF Rep!Send
<1> HIDE DEF record
<1>4. /\ submit' \in [Submits -> Rep!Submission] /\ submit'[s] = record
      /\ \A q \in Submits : q # s => submit'[q] = submit[q]
  BY <1>1, <1>2, <1>3
<1>5. \A q \in reports : q # s /\ submit'[q] = submit[q]
  BY <1>1, <1>4
<1>6. Rep!TypeOK'
  BY <1>3, <1>4, <1>5 DEF ReportsInv, Rep!TypeOK
<1>7. OneOpenReport' /\ TriggerSawAll' /\ Rep!DeletionSweepsReports'
  BY <1>3, <1>5 DEF ReportsInv, OneOpenReport, TriggerSawAll, Rep!DeletionSweepsReports,
                    Rep!SameReport
<1>8. ASSUME NEW q \in Submits
      PROVE  SubmissionOK(q)'
  <2>1. CASE q = s
    BY <1>1, <1>2, <1>3, <1>4, <2>1 DEF SubmissionOK
  <2>2. CASE q # s
    <3>1. submit'[q] = submit[q] /\ SubmissionOK(q)
      BY <1>4, <2>2 DEF ReportsInv
    <3>2. submit[q].report # None => submit[q].report \in Submits /\ submit[q].report # s
      BY <1>1, <3>1 DEF ReportsInv, Rep!TypeOK, Rep!Submission, SubmissionOK
    <3>3. submit[q].report # None => submit'[submit[q].report] = submit[submit[q].report]
      BY <1>4, <3>2
    <3>4. Rep!OnFile(q)' = Rep!OnFile(q)
      BY <1>3, <1>5, <3>1 DEF Rep!OnFile, Rep!SameReport
    <3> QED
      BY <1>3, <2>2, <3>1, <3>2, <3>3, <3>4 DEF SubmissionOK, Rep!SameReport
  <2> QED
    BY <2>1, <2>2
<1> QED
  BY <1>6, <1>7, <1>8 DEF ReportsInv

(* ensureProfileForUser.                                                   *)
LEMMA ProfileHolds ==
  ASSUME ReportsInv, NEW s \in Submits,
         Rep!FindProfile(s) \/ Rep!InsertProfile(s) \/ Rep!RecheckProfile(s)
  PROVE  ReportsInv'
<1> USE DEF Rep!Working, Rep!Ended
<1>1. submit[s].pc \in Rep!Working
  BY DEF Rep!FindProfile, Rep!InsertProfile, Rep!RecheckProfile
<1>2. CASE Rep!Identified(s)
  <2>1. PICK pc \in {"invalid", "identified"} : Rep!Go(s, pc)
    BY <1>2 DEF Rep!Identified
  <2> QED
    BY <1>1, <2>1, GoHolds
<1>3. CASE Rep!FindProfile(s) /\ ~ Rep!Identified(s)
  BY <1>1, <1>3, GoHolds DEF Rep!FindProfile
<1>4. CASE Rep!RecheckProfile(s) /\ ~ Rep!Identified(s)
  <2>1. Rep!Go(s, "refused") /\ submit[s].pc = "rechecking" /\ submit[s].reporter \notin profile
    BY <1>4 DEF Rep!RecheckProfile
  <2>2. s \in disturbed
    BY <1>1, <2>1, SubmissionFacts DEF SubmissionOK
  <2> QED
    BY <1>1, <2>1, <2>2, GoHolds
<1>5. CASE Rep!InsertProfile(s)
  <2> DEFINE u == submit[s].reporter
  <2>1. CASE account[u] = "gone" /\ Rep!Go(s, "refused")
    <3>1. s \in disturbed
      BY <1>1, <2>1, SubmissionFacts
    <3> QED
      BY <1>1, <2>1, <3>1, GoHolds
  <2>2. CASE u \in profile /\ Rep!Go(s, "rechecking")
    BY <1>1, <2>2, GoHolds
  <2>3. CASE /\ account[u] = "live" /\ profile' = profile \cup {u}
             /\ submit' = [submit EXCEPT ![s].pc = IF submit[s].target = u THEN "invalid"
                                                   ELSE "identified"]
             /\ UNCHANGED <<account, doomed, reports, late, disturbed>>
    <3> DEFINE pc == IF submit[s].target = u THEN "invalid" ELSE "identified"
               record == [submit[s] EXCEPT !.pc = pc]
    <3>1. /\ submit \in [Submits -> Rep!Submission] /\ submit[s] \in Rep!Submission
          /\ SubmissionOK(s) /\ u \in Users /\ reports \subseteq Submits /\ s \notin reports
          /\ profile \subseteq {x \in Users : account[x] # "gone"} /\ disturbed \subseteq Submits
      BY <1>1, SubmissionFacts DEF ReportsInv, Rep!TypeOK, SubmissionOK
    <3>2. /\ record \in Rep!Submission /\ record.pc = pc
          /\ record.reporter = submit[s].reporter /\ record.target = submit[s].target
          /\ record.report = submit[s].report
      BY <3>1 DEF Rep!Submission
    <3>3. submit' = [submit EXCEPT ![s] = record] /\ pc \in {"invalid", "identified"}
      BY <2>3
    <3> HIDE DEF record, pc
    <3>4. submit'[s] = record /\ \A q \in Submits : q # s => submit'[q] = submit[q]
      BY <3>1, <3>3
    <3>5. submit[s].report # None => submit[s].report # s /\ submit[s].report \in Submits
      BY <1>1, <3>1 DEF SubmissionOK, Rep!Submission
    <3>6. SubmissionOK(s)'
      BY <1>1, <2>3, <3>1, <3>2, <3>3, <3>4, <3>5, SubmissionFacts
         DEF SubmissionOK, Rep!SameReport
    <3> QED
      BY <1>1, <2>3, <3>1, <3>2, <3>3, <3>6, SubmissionMoves
  <2> QED
    BY <1>5, <2>1, <2>2, <2>3 DEF Rep!InsertProfile
<1> QED
  BY <1>2, <1>3, <1>4, <1>5

(* findOpenDuplicateReport and insertReport.                               *)
LEMMA RowHolds ==
  ASSUME ReportsInv, NEW s \in Submits, Rep!Find(s) \/ Rep!Insert(s) \/ Rep!Reconcile(s)
  PROVE  ReportsInv'
<1> USE DEF Rep!Working, Rep!Ended
<1>1. submit[s].pc \in Rep!Working
  BY DEF Rep!Find, Rep!Insert, Rep!Reconcile
<1>2. CASE Rep!Find(s)
  BY <1>1, <1>2, GoHolds, AnswerHolds DEF Rep!Find
<1>3. CASE Rep!Reconcile(s)
  <2>1. CASE Rep!OnFile(s) = {} /\ Rep!Go(s, "failed")
    <3>1. s \in disturbed
      BY <1>1, <1>3, <2>1, SubmissionFacts DEF Rep!Reconcile, SubmissionOK
    <3> QED
      BY <1>1, <2>1, <3>1, GoHolds
  <2> QED
    BY <1>1, <1>3, <2>1, AnswerHolds DEF Rep!Reconcile
<1>4. CASE Rep!Insert(s)
  <2>1. CASE account[submit[s].reporter] = "gone" /\ Rep!Go(s, "refused")
    <3>1. s \in disturbed
      BY <1>1, <2>1, SubmissionFacts
    <3> QED
      BY <1>1, <2>1, <3>1, GoHolds
  <2>2. CASE Rep!OnFile(s) \ Rep!InDeletion # {} /\ Rep!Go(s, "conflicted")
    BY <1>1, <2>2, GoHolds
  <2>3. CASE /\ account[submit[s].reporter] = "live" /\ Rep!OnFile(s) = {}
             /\ reports' = reports \cup {s}
             /\ late' = IF account[submit[s].target] = "live" THEN late ELSE late \cup {s}
             /\ submit' = [submit EXCEPT ![s].pc = "created", ![s].report = s]
             /\ UNCHANGED <<account, profile, doomed, disturbed>>
    <3> DEFINE record == [submit[s] EXCEPT !.pc = "created", !.report = s]
    <3>1. submit[s] \in Rep!Submission /\ submit[s].pc = "absent"
      BY <1>1, <1>4, SubmissionFacts DEF Rep!Insert
    <3>2. /\ record \in Rep!Submission /\ record.pc = "created" /\ record.report = s
          /\ record.reporter = submit[s].reporter /\ record.target = submit[s].target
      BY <3>1 DEF Rep!Submission
    <3>3. submit' = [submit EXCEPT ![s] = record]
      BY <2>3
    <3> HIDE DEF record
    <3> QED
      BY <2>3, <3>1, <3>2, <3>3, ReportIsFiled
  <2> QED
    BY <1>4, <2>1, <2>2, <2>3 DEF Rep!Insert
<1> QED
  BY <1>2, <1>3, <1>4

LEMMA FailHolds ==
  ASSUME ReportsInv, NEW s \in Submits, NEW stored \in BOOLEAN, Rep!Fail(s, stored)
  PROVE  ReportsInv'
<1> USE DEF Rep!Working, Rep!Ended
<1> DEFINE pc == IF submit[s].pc \in {"sent", "unprofiled", "rechecking"} THEN "refused"
                 ELSE "failed"
           record == [submit[s] EXCEPT !.pc = pc]
<1>1. submit[s].pc \in Rep!Working
  BY DEF Rep!Fail
<1>2. /\ submit \in [Submits -> Rep!Submission] /\ submit[s] \in Rep!Submission
      /\ SubmissionOK(s) /\ reports \subseteq Submits /\ s \notin reports
      /\ profile \subseteq {x \in Users : account[x] # "gone"} /\ disturbed \subseteq Submits
  BY <1>1, SubmissionFacts DEF ReportsInv, Rep!TypeOK, SubmissionOK
<1>3. /\ record \in Rep!Submission /\ record.pc = pc
      /\ record.reporter = submit[s].reporter /\ record.target = submit[s].target
      /\ record.report = submit[s].report
  BY <1>2 DEF Rep!Submission
<1>4. submit' = [submit EXCEPT ![s] = record] /\ disturbed' = disturbed \cup {s}
  BY DEF Rep!Fail
<1>5. submit[s].pc = "absent" => pc = "failed"
  OBVIOUS
<1>6. pc \in {"refused", "failed"}
  OBVIOUS
<1> HIDE DEF record, pc
<1>7. CASE stored
  BY <1>3, <1>4, <1>5, <1>7, ReportIsFiled DEF Rep!Fail
<1>8. CASE ~ stored
  <2>1. UNCHANGED <<account, profile, doomed, reports, late>>
    BY <1>8 DEF Rep!Fail
  <2>2. submit'[s] = record /\ \A q \in Submits : q # s => submit'[q] = submit[q]
    BY <1>2, <1>4
  <2>3. submit[s].report # None => submit[s].report # s /\ submit[s].report \in Submits
    BY <1>1, <1>2 DEF SubmissionOK, Rep!Submission
  <2>4. SubmissionOK(s)'
    BY <1>1, <1>2, <1>3, <1>4, <1>6, <2>1, <2>2, <2>3 DEF SubmissionOK, Rep!SameReport
  <2> QED
    BY <1>1, <1>2, <1>3, <1>4, <2>1, <2>4, SubmissionMoves
<1> QED
  BY <1>7, <1>8

(* The deletion of an account: its beginning and its end.                  *)
LEMMA DeletionHolds ==
  ASSUME ReportsInv, NEW u \in Users,
         Rep!BeginDelete(u) \/ Rep!CommitDelete(u) \/ Rep!AbortDelete(u)
  PROVE  ReportsInv'
<1> USE DEF Rep!Working, Rep!Ended
<1>0. Rep!TypeOK /\ reports \subseteq Submits
  BY DEF ReportsInv, Rep!TypeOK
<1>1. CASE Rep!BeginDelete(u)
  <2>1. Rep!TypeOK'
    BY <1>0, <1>1 DEF Rep!BeginDelete, Rep!About, Rep!TypeOK
  <2>2. OneOpenReport'
    BY <1>0, <1>1 DEF Rep!BeginDelete, ReportsInv, OneOpenReport, Rep!SameReport
  <2>3. TriggerSawAll'
    BY <1>0, <1>1 DEF Rep!BeginDelete, Rep!About, Rep!TypeOK, ReportsInv, TriggerSawAll
  <2>4. Rep!DeletionSweepsReports'
    BY <1>0, <1>1 DEF Rep!BeginDelete, Rep!TypeOK, ReportsInv, Rep!DeletionSweepsReports
  <2>5. ASSUME NEW s \in Submits PROVE SubmissionOK(s)'
    <3>1. SubmissionOK(s)
      BY DEF ReportsInv
    <3>2. \A x \in Users : account'[x] = "gone" <=> account[x] = "gone"
      BY <1>0, <1>1 DEF Rep!BeginDelete, Rep!TypeOK
    <3>3. UNCHANGED <<submit, reports, profile>> /\ Rep!OnFile(s)' = Rep!OnFile(s)
      BY <1>1 DEF Rep!BeginDelete, Rep!OnFile, Rep!SameReport
    <3>4. s \notin disturbed' =>
            s \notin disturbed /\ u # submit[s].reporter /\ u # submit[s].target
      BY <1>1 DEF Rep!BeginDelete, Rep!Touches
    <3>5. \A x \in Users : x # u => account'[x] = account[x]
      BY <1>0, <1>1 DEF Rep!BeginDelete, Rep!TypeOK
    <3> QED
      BY <3>1, <3>2, <3>3, <3>4, <3>5 DEF SubmissionOK, Rep!SameReport
  <2> QED
    BY <2>1, <2>2, <2>3, <2>4, <2>5 DEF ReportsInv
<1>2. CASE Rep!AbortDelete(u)
  <2>1. Rep!TypeOK'
    BY <1>0, <1>2 DEF Rep!AbortDelete, Rep!TypeOK
  <2>2. OneOpenReport'
    BY <1>0, <1>2 DEF Rep!AbortDelete, ReportsInv, OneOpenReport, Rep!SameReport
  <2>3. TriggerSawAll'
    BY <1>0, <1>2 DEF Rep!AbortDelete, Rep!TypeOK, ReportsInv, TriggerSawAll
  <2>4. Rep!DeletionSweepsReports'
    BY <1>0, <1>2 DEF Rep!AbortDelete, Rep!TypeOK, ReportsInv, Rep!DeletionSweepsReports
  <2>5. ASSUME NEW s \in Submits PROVE SubmissionOK(s)'
    <3>1. SubmissionOK(s)
      BY DEF ReportsInv
    <3>2. \A x \in Users : /\ account'[x] = "gone" <=> account[x] = "gone"
                           /\ account[x] = "live" => account'[x] = "live"
      BY <1>0, <1>2 DEF Rep!AbortDelete, Rep!TypeOK
    <3>3. UNCHANGED <<submit, reports, profile, disturbed>> /\ Rep!OnFile(s)' = Rep!OnFile(s)
      BY <1>2 DEF Rep!AbortDelete, Rep!OnFile, Rep!SameReport
    <3> QED
      BY <3>1, <3>2, <3>3 DEF SubmissionOK, Rep!SameReport
  <2> QED
    BY <2>1, <2>2, <2>3, <2>4, <2>5 DEF ReportsInv
<1>3. CASE Rep!CommitDelete(u)
  <2>1. /\ account[u] = "deleting" /\ account'[u] = "gone"
        /\ \A x \in Users : x # u => account'[x] = account[x] /\ doomed'[x] = doomed[x]
        /\ account' \in [Users -> {"live", "deleting", "gone"}]
        /\ doomed' \in [Users -> SUBSET Submits] /\ doomed'[u] = {}
        /\ profile' = profile \ {u}
        /\ reports' = reports \ (doomed[u] \cup Rep!FiledBy(u))
        /\ UNCHANGED <<submit, late, disturbed>>
    BY <1>0, <1>3 DEF Rep!CommitDelete, Rep!TypeOK
  <2>2. \A s \in reports' : submit[s].reporter # u /\ s \notin doomed[u]
    BY <2>1 DEF Rep!FiledBy
  <2>3. \A x \in Users : x # u => doomed[x] \subseteq reports'
    <3>1. SUFFICES ASSUME NEW x \in Users, x # u, NEW s \in doomed[x]
                   PROVE  s \in reports'
      OBVIOUS
    <3>2. s \in reports /\ submit[s].target = x
      BY <1>0 DEF Rep!TypeOK
    <3>3. s \notin doomed[u]
      BY <1>0, <3>1, <3>2 DEF Rep!TypeOK
    <3>4. s \notin Rep!FiledBy(u)
      BY <1>3, <3>1 DEF Rep!CommitDelete
    <3> QED
      BY <2>1, <3>2, <3>3, <3>4
  <2>4. Rep!TypeOK'
    <3>1. \A x \in Users : \A s \in doomed'[x] :
            account'[x] = "deleting" /\ s \in reports' /\ submit'[s].target = x
      BY <1>0, <2>1, <2>3 DEF Rep!TypeOK
    <3>2. profile' \subseteq {x \in Users : account'[x] # "gone"}
      BY <1>0, <2>1 DEF Rep!TypeOK
    <3> QED
      BY <1>0, <2>1, <3>1, <3>2 DEF Rep!TypeOK
  <2>5. OneOpenReport'
    BY <2>1 DEF ReportsInv, OneOpenReport, Rep!SameReport
  <2>6. TriggerSawAll'
    BY <2>1 DEF ReportsInv, TriggerSawAll
  <2>7. Rep!DeletionSweepsReports'
    <3> SUFFICES ASSUME NEW s \in reports'
                 PROVE  /\ account'[submit[s].reporter] # "gone"
                        /\ account'[submit[s].target] = "gone" => s \in late
      BY <2>1 DEF Rep!DeletionSweepsReports
    <3>1. s \in reports /\ s \in Submits /\ SubmissionOK(s)
      BY <1>0, <2>1 DEF ReportsInv
    <3>2. submit[s].reporter \in Users /\ submit[s].target \in Users
      BY <3>1 DEF SubmissionOK
    <3>3. account[submit[s].reporter] # "gone" /\ (account[submit[s].target] = "gone" => s \in late)
      BY <3>1 DEF ReportsInv, Rep!DeletionSweepsReports
    <3>4. submit[s].target = u => s \in late
      BY <2>1, <2>2, <3>1 DEF ReportsInv, TriggerSawAll
    <3> QED
      BY <2>1, <2>2, <3>2, <3>3, <3>4
  <2>8. ASSUME NEW s \in Submits PROVE SubmissionOK(s)'
    <3>1. SubmissionOK(s)
      BY DEF ReportsInv
    <3>2. ASSUME NEW t \in reports, submit[t].reporter # u, submit[t].target # u
          PROVE  t \in reports'
      BY <1>0, <2>1, <3>2 DEF Rep!FiledBy, Rep!TypeOK
    <3>3. /\ submit[s].pc # "idle" /\ account'[submit[s].reporter] # "gone"
                /\ account'[submit[s].target] # "gone" =>
            /\ submit[s].reporter # u /\ submit[s].target # u
            /\ account[submit[s].reporter] # "gone" /\ account[submit[s].target] # "gone"
      BY <2>1, <3>1 DEF SubmissionOK
    <3>4. submit[s].report # None /\ account'[submit[s].reporter] # "gone"
                /\ account'[submit[s].target] # "gone" => submit[s].report \in reports'
      BY <3>1, <3>2, <3>3 DEF SubmissionOK, Rep!SameReport
    <3>5. ASSUME s \notin disturbed, submit[s].pc \in Rep!Working
          PROVE  /\ submit[s].reporter # u /\ submit[s].target # u
                 /\ account'[submit[s].reporter] = "live" /\ account'[submit[s].target] = "live"
      BY <2>1, <3>1, <3>5 DEF SubmissionOK
    <3>6. s \notin disturbed /\ submit[s].pc = "conflicted" => Rep!OnFile(s)' # {}
      <4> SUFFICES ASSUME s \notin disturbed, submit[s].pc = "conflicted"
                   PROVE  Rep!OnFile(s)' # {}
        OBVIOUS
      <4>1. PICK t \in reports : Rep!SameReport(s, t)
        BY <3>1 DEF SubmissionOK, Rep!OnFile
      <4>2. t \in reports'
        BY <3>2, <3>5, <4>1 DEF Rep!SameReport
      <4> QED
        BY <2>1, <4>1, <4>2 DEF Rep!OnFile, Rep!SameReport
    <3>7. s \in reports' => submit[s].pc \in {"created", "failed"}
      BY <2>1, <3>1 DEF SubmissionOK
    <3>8. s \notin disturbed /\ submit[s].pc = "rechecking" => submit[s].reporter \in profile'
      BY <2>1, <3>1, <3>5 DEF SubmissionOK
    <3> QED
      BY <2>1, <3>1, <3>4, <3>5, <3>6, <3>7, <3>8 DEF SubmissionOK, Rep!SameReport
  <2> QED
    BY <2>4, <2>5, <2>6, <2>7, <2>8 DEF ReportsInv
<1> QED
  BY <1>1, <1>2, <1>3

LEMMA NextReports == ReportsInv /\ [Rep!Next]_(Rep!vars) => ReportsInv'
<1> SUFFICES ASSUME ReportsInv, [Rep!Next]_(Rep!vars)
             PROVE  ReportsInv'
  OBVIOUS
<1>1. CASE Rep!Next
  BY <1>1, SendHolds, ProfileHolds, RowHolds, FailHolds, DeletionHolds DEF Rep!Next
<1>2. CASE UNCHANGED Rep!vars
  BY <1>2 DEF Rep!vars, ReportsInv, Rep!TypeOK, SubmissionOK, OneOpenReport, TriggerSawAll,
     Rep!DeletionSweepsReports, Rep!OnFile, Rep!SameReport
<1> QED
  BY <1>1, <1>2

(* In a behavior that runs Reports, ReportsInv always holds.               *)
LEMMA ReportsAlways == TablesSpec => [](focus = "reports" => ReportsInv)
<1> DEFINE Good == focus = "reports" => ReportsInv
<1>1. TablesInit => Good
  BY InitReports DEF TablesInit
<1>2. Good /\ [TablesNext]_<<focus, vars, slots>> => Good'
  <2> SUFFICES ASSUME Good, [TablesNext]_<<focus, vars, slots>>, focus' = "reports"
               PROVE  ReportsInv'
    OBVIOUS
  <2>1. focus = "reports"
    BY DEF TablesNext
  <2>2. Rep!Next \/ UNCHANGED slots
    BY <2>1 DEF TablesNext
  <2>3. UNCHANGED slots => UNCHANGED Rep!vars
    BY DEF slots, Rep!vars
  <2> QED
    BY <2>1, <2>2, <2>3, NextReports
<1> HIDE DEF Good
<1>3. TablesSpec => []Good
  BY <1>1, <1>2, PTL DEF TablesSpec
<1> QED
  BY <1>3 DEF Good

(* A deleted account leaves no report it filed, and none about it that was *)
(* on file when the deletion began, for any number of members, reports and *)
(* concurrent deletions (delete_user_linked_residuals).                    *)
THEOREM ReportsAreSwept == TablesSpec => []DeletionSweepsReports
<1>1. (focus = "reports" => ReportsInv) => DeletionSweepsReports
  BY DEF ReportsInv, DeletionSweepsReports
<1> QED
  BY <1>1, ReportsAlways, PTL

LEMMA FiledOnce == ReportsInv => Rep!OneReportOnFile
<1> SUFFICES ASSUME ReportsInv, NEW s \in Submits, submit[s].report # None,
                    account[submit[s].reporter] # "gone", account[submit[s].target] # "gone"
             PROVE  Rep!OnFile(s) = {submit[s].report}
  BY DEF Rep!OneReportOnFile
<1>1. submit[s].report \in reports /\ Rep!SameReport(s, submit[s].report)
  BY DEF ReportsInv, SubmissionOK
<1>2. \A t \in reports : Rep!SameReport(s, t) => t = submit[s].report
  BY <1>1 DEF ReportsInv, OneOpenReport, Rep!SameReport
<1> QED
  BY <1>1, <1>2 DEF Rep!OnFile

(* Every answered submission names the one report of its reporter and its  *)
(* target that is on file (findOpenDuplicateReport,                        *)
(* reports_open_dedup_unique).                                             *)
THEOREM ReportsAreUnique == TablesSpec => []OneReportOnFile
<1>1. (focus = "reports" => ReportsInv) => OneReportOnFile
  BY FiledOnce DEF OneReportOnFile
<1> QED
  BY <1>1, ReportsAlways, PTL

(* A submission that meets no failing statement and no deletion is never   *)
(* refused and never fails: a lost race for the profile or for the report  *)
(* is reconciled (ensureProfileForUser, createOrGetOpenReport).            *)
THEOREM ReportsSucceed == TablesSpec => []UndisturbedReportSucceeds
<1>1. (focus = "reports" => ReportsInv) => UndisturbedReportSucceeds
  BY DEF ReportsInv, SubmissionOK, UndisturbedReportSucceeds, Rep!UndisturbedReportSucceeds
<1> QED
  BY <1>1, ReportsAlways, PTL

-----------------------------------------------------------------------------
(* Waitlist: the rows of MCTables under the names that Waitlist gives them.*)
day == v1
entries == v2
visits == v3
cookie == v4
call == v5
joined == v6
seen == v7

(* The token t was given to browser b, on a date no later than d.          *)
GivenTo(t, b, d) ==
  t \in Tokens /\ joined[t].browser = b /\ joined[t].date <= d

(* What is known of one call: what it carries came from its own browser.   *)
CallOK(c) ==
  call[c].pc # "idle" =>
    /\ call[c].kind \in Wait!Kinds /\ call[c].browser \in Browsers
    /\ call[c].today \in Wait!Days /\ call[c].today <= day
    /\ <<call[c].browser, call[c].today>> \in seen
    /\ call[c].kind = "join" => call[c].email \in Emails
    /\ call[c].kind \in {"visit", "withdraw"} =>
         GivenTo(call[c].token, call[c].browser, call[c].today)
    /\ call[c].pc = "created" => GivenTo(call[c].token, call[c].browser, call[c].today)
    /\ call[c].pc = "found" => call[c].kind = "visit"

(* A browser holds a token that it was given itself.                       *)
CookiesAreOwn == \A b \in Browsers : cookie[b] # None => GivenTo(cookie[b], b, day)

(* A token is on the list only after it was given out, on some date so far.*)
EntriesWereJoined ==
  \A t \in Tokens :
    /\ joined[t].browser = None => entries[t] = None
    /\ joined[t].date <= day

WaitlistInv ==
  /\ Wait!TypeOK
  /\ \A c \in Calls : CallOK(c)
  /\ CookiesAreOwn /\ EntriesWereJoined /\ Wait!VisitDaysSound

USE DEF day, entries, visits, cookie, call, joined, seen

LEMMA InitWaitlist == Wait!Init => WaitlistInv
<1> USE TablesAssumption DEF Wait!WaitlistAssumption
<1>1. Wait!Idle \in Wait!Call
  BY DEF Wait!Idle, Wait!Call
<1>2. Wait!Init => Wait!TypeOK
  BY <1>1 DEF Wait!Init, Wait!TypeOK, Wait!Days
<1> QED
  BY <1>2 DEF Wait!Init, WaitlistInv, Wait!Idle, CallOK, CookiesAreOwn, EntriesWereJoined,
              Wait!VisitDaysSound

(* What every step of a call knows.                                        *)
LEMMA WaitlistFacts ==
  ASSUME WaitlistInv
  PROVE  /\ MaxDay \in Nat \ {0} /\ day \in 1 .. MaxDay
         /\ None \notin Browsers /\ None \notin Emails /\ None \notin Tokens
         /\ entries \in [Tokens -> Emails \cup {None}]
         /\ call \in [Calls -> Wait!Call]
         /\ joined \in [Tokens -> [browser : Browsers \cup {None}, date : Wait!Days \cup {0}]]
         /\ \A t \in Tokens : joined[t].date \in Nat
         /\ \A c \in Calls : call[c] \in Wait!Call /\ CallOK(c)
  BY TablesAssumption DEF Wait!WaitlistAssumption, WaitlistInv, Wait!TypeOK, Wait!Days

(* A call that moves on, while the list stays as it is.                    *)
LEMMA CallMoves ==
  ASSUME WaitlistInv, NEW c \in Calls, NEW record \in Wait!Call,
         call' = [call EXCEPT ![c] = record],
         UNCHANGED <<day, entries, visits, joined>>,
         seen \subseteq seen', seen' \subseteq Browsers \X Wait!Days,
         cookie' \in [Browsers -> Tokens \cup {None}], CookiesAreOwn',
         CallOK(c)'
  PROVE  WaitlistInv'
<1>1. /\ call' \in [Calls -> Wait!Call]
      /\ \A q \in Calls : q # c => call'[q] = call[q]
  BY WaitlistFacts
<1>2. ASSUME NEW q \in Calls, q # c
      PROVE  CallOK(q)'
  BY <1>1, <1>2 DEF WaitlistInv, CallOK, GivenTo
<1>3. Wait!TypeOK'
  BY <1>1 DEF WaitlistInv, Wait!TypeOK
<1>4. EntriesWereJoined' /\ Wait!VisitDaysSound'
  BY DEF WaitlistInv, EntriesWereJoined, Wait!VisitDaysSound
<1> QED
  BY <1>2, <1>3, <1>4 DEF WaitlistInv

(* The steps of a call after its submission that the list does not feel.   *)
LEMMA GoWaits ==
  ASSUME WaitlistInv, NEW c \in Calls, call[c].pc # "idle", NEW pc, Wait!Go(c, pc),
         \/ pc = "found" /\ call[c].kind = "visit"
         \/ pc \in {"accepted", "cleared", "unavailable"}
  PROVE  WaitlistInv'
<1> DEFINE record == [call[c] EXCEPT !.pc = pc]
<1>1. call[c] \in Wait!Call /\ CallOK(c) /\ call \in [Calls -> Wait!Call]
  BY WaitlistFacts
<1>2. /\ record \in Wait!Call /\ record.pc = pc /\ record.kind = call[c].kind
      /\ record.browser = call[c].browser /\ record.email = call[c].email
      /\ record.token = call[c].token /\ record.today = call[c].today
  BY <1>1 DEF Wait!Call
<1>3. /\ call' = [call EXCEPT ![c] = record]
      /\ UNCHANGED <<day, entries, visits, cookie, joined, seen>>
  BY DEF Wait!Go
<1> HIDE DEF record
<1>4. CallOK(c)'
  BY <1>1, <1>2, <1>3 DEF CallOK, GivenTo
<1>5. /\ cookie' \in [Browsers -> Tokens \cup {None}] /\ CookiesAreOwn'
      /\ seen \subseteq Browsers \X Wait!Days
  BY <1>3 DEF WaitlistInv, Wait!TypeOK, CookiesAreOwn, GivenTo
<1> QED
  BY <1>2, <1>3, <1>4, <1>5, CallMoves

LEMMA CallIsSent ==
  ASSUME WaitlistInv, NEW c \in Calls, NEW b \in Browsers, NEW kind \in Wait!Kinds,
         NEW e \in Emails \cup {None}, Wait!Send(c, b, kind, e)
  PROVE  WaitlistInv'
<1> USE DEF Wait!Kinds
<1> DEFINE record == [pc |-> "sent", kind |-> kind, browser |-> b, email |-> e,
                      token |-> IF kind = "join" THEN None ELSE cookie[b], today |-> day]
<1>1. /\ day \in Wait!Days /\ cookie \in [Browsers -> Tokens \cup {None}]
      /\ seen \subseteq Browsers \X Wait!Days
  BY DEF WaitlistInv, Wait!TypeOK
<1>2. /\ call' = [call EXCEPT ![c] = record]
      /\ seen' = seen \cup {<<b, day>>}
      /\ UNCHANGED <<day, entries, visits, cookie, joined>>
      /\ kind # "join" => cookie[b] # None
      /\ kind = "join" => e # None
  BY DEF Wait!Send
<1>3. /\ record \in Wait!Call /\ record.pc = "sent" /\ record.kind = kind
      /\ record.browser = b /\ record.email = e /\ record.today = day
      /\ kind # "join" => record.token = cookie[b]
  BY <1>1 DEF Wait!Call
<1> HIDE DEF record
<1>4. kind # "join" => GivenTo(cookie[b], b, day)
  BY <1>2 DEF WaitlistInv, CookiesAreOwn
<1>5. call'[c] = record /\ day <= day
  BY <1>2, WaitlistFacts
<1>6. CallOK(c)'
  BY <1>1, <1>2, <1>3, <1>4, <1>5 DEF CallOK, GivenTo
<1>7. CookiesAreOwn' /\ seen' \subseteq Browsers \X Wait!Days
  BY <1>1, <1>2 DEF WaitlistInv, CookiesAreOwn, GivenTo
<1> QED
  BY <1>1, <1>2, <1>3, <1>6, <1>7, CallMoves

(* joinWaitlist: a token that was never given out.                         *)
LEMMA EntryIsMade ==
  ASSUME WaitlistInv, NEW c \in Calls, NEW t \in Tokens, Wait!Join(c, t)
  PROVE  WaitlistInv'
<1> DEFINE k == call[c]
           record == [k EXCEPT !.pc = "created", !.token = t]
           given == [browser |-> k.browser, date |-> k.today]
<1>1. /\ k \in Wait!Call /\ call \in [Calls -> Wait!Call] /\ CallOK(c)
      /\ k.pc = "sent" /\ k.kind = "join" /\ joined[t].browser = None
      /\ k.browser \in Browsers /\ k.today \in Wait!Days /\ k.today <= day
      /\ k.email \in Emails /\ <<k.browser, k.today>> \in seen /\ k.today \in Nat
  BY WaitlistFacts DEF Wait!Join, Wait!Fresh, CallOK, Wait!Days
<1>2. CASE Wait!Go(c, "accepted")
  BY <1>1, <1>2, GoWaits
<1>3. CASE /\ \A u \in Tokens : entries[u] # k.email
           /\ entries' = [entries EXCEPT ![t] = k.email]
           /\ visits' = visits \cup {<<t, k.today>>}
           /\ joined' = [joined EXCEPT ![t] = given]
           /\ call' = [call EXCEPT ![c].pc = "created", ![c].token = t]
           /\ UNCHANGED <<day, cookie, seen>>
  <2>1. /\ record \in Wait!Call /\ record.pc = "created" /\ record.token = t
        /\ record.kind = "join" /\ record.browser = k.browser /\ record.email = k.email
        /\ record.today = k.today /\ call' = [call EXCEPT ![c] = record]
    BY <1>1, <1>3 DEF Wait!Call
  <2> HIDE DEF record
  <2>2. /\ call' \in [Calls -> Wait!Call] /\ call'[c] = record
        /\ \A q \in Calls : q # c => call'[q] = call[q]
    BY <1>1, <2>1
  <2>3. /\ joined'[t] = given /\ given.browser = k.browser /\ given.date = k.today
        /\ \A u \in Tokens : u # t => joined'[u] = joined[u]
        /\ joined' \in [Tokens -> [browser : Browsers \cup {None},
                                   date : Wait!Days \cup {0}]]
    BY <1>1, <1>3, WaitlistFacts
  <2> HIDE DEF given
  <2>4. /\ entries'[t] = k.email
        /\ \A u \in Tokens : u # t => entries'[u] = entries[u]
        /\ entries' \in [Tokens -> Emails \cup {None}]
    BY <1>1, <1>3, WaitlistFacts
  <2>5. entries[t] = None
    BY <1>1 DEF WaitlistInv, EntriesWereJoined
  <2>6. \A u \in Tokens : joined[u].browser \in Browsers => joined'[u] = joined[u]
    BY <1>1, <2>3, WaitlistFacts
  <2>7. joined'[t].browser = k.browser /\ joined'[t].date <= k.today
    BY <1>1, <2>3
  <2>8. ASSUME NEW q \in Calls PROVE CallOK(q)'
    <3>1. CASE q = c
      BY <1>1, <1>3, <2>1, <2>2, <2>7, <3>1 DEF CallOK, GivenTo
    <3>2. CASE q # c
      <4>1. CallOK(q) /\ call'[q] = call[q]
        BY <2>2, <3>2 DEF WaitlistInv
      <4>2. \A u \in Tokens : joined[u].browser = call[q].browser /\ call[q].pc # "idle"
                                 => joined'[u] = joined[u]
        BY <2>6, <4>1 DEF CallOK
      <4>3. call[q].pc # "idle" /\ GivenTo(call[q].token, call[q].browser, call[q].today)
              => GivenTo(call[q].token, call[q].browser, call[q].today)'
        BY <4>1, <4>2 DEF GivenTo
      <4>4. UNCHANGED <<day, seen>>
        BY <1>3
      <4> QED
        BY <4>1, <4>3, <4>4 DEF CallOK, GivenTo
    <3> QED
      BY <3>1, <3>2
  <2>9. CookiesAreOwn'
    BY <1>3, <2>6 DEF WaitlistInv, CookiesAreOwn, GivenTo
  <2>10. EntriesWereJoined'
    BY <1>1, <1>3, <2>3, <2>4, WaitlistFacts DEF WaitlistInv, EntriesWereJoined
  <2>11. Wait!VisitDaysSound'
    <3>1. \A u \in Tokens : entries'[u] # None => <<u, joined'[u].date>> \in visits'
      BY <1>3, <2>3, <2>4 DEF WaitlistInv, Wait!VisitDaysSound
    <3>2. ASSUME NEW v \in visits'
          PROVE  /\ entries'[v[1]] # None
                 /\ v[2] >= joined'[v[1]].date
                 /\ <<joined'[v[1]].browser, v[2]>> \in seen'
      <4>1. CASE v = <<t, k.today>>
        BY <1>1, <1>3, <2>3, <2>4, <4>1, WaitlistFacts
      <4>2. CASE v \in visits
        <5>1. v[1] \in Tokens /\ entries[v[1]] # None
          BY <4>2 DEF WaitlistInv, Wait!TypeOK, Wait!VisitDaysSound
        <5>2. v[1] # t
          BY <2>5, <5>1
        <5> QED
          BY <1>3, <2>3, <2>4, <4>2, <5>1, <5>2 DEF WaitlistInv, Wait!VisitDaysSound
      <4> QED
        BY <1>3, <4>1, <4>2
    <3> QED
      BY <3>1, <3>2 DEF Wait!VisitDaysSound
  <2>12. Wait!TypeOK'
    <3>1. \A u, w \in Tokens : entries'[u] # None /\ entries'[u] = entries'[w] => u = w
      BY <1>3, <2>4 DEF WaitlistInv, Wait!TypeOK
    <3> QED
      BY <1>1, <1>3, <2>2, <2>3, <2>4, <3>1 DEF WaitlistInv, Wait!TypeOK
  <2> QED
    BY <2>8, <2>9, <2>10, <2>11, <2>12 DEF WaitlistInv
<1> QED
  BY <1>2, <1>3 DEF Wait!Join

(* recordWaitlistVisit: the row of the entry is still there, and it is the *)
(* browser's own.                                                          *)
LEMMA VisitIsRecorded ==
  ASSUME WaitlistInv, NEW c \in Calls, Wait!RecordVisit(c)
  PROVE  WaitlistInv'
<1> DEFINE k == call[c]
           t == k.token
           record == [k EXCEPT !.pc = "visited"]
<1>1. /\ k \in Wait!Call /\ call \in [Calls -> Wait!Call] /\ CallOK(c)
      /\ k.pc = "found" /\ k.kind = "visit"
      /\ k.today \in Wait!Days /\ <<k.browser, k.today>> \in seen /\ k.today \in Nat
      /\ t \in Tokens /\ joined[t].browser = k.browser /\ joined[t].date <= k.today
      /\ joined[t].date \in Nat
  BY WaitlistFacts DEF Wait!RecordVisit, CallOK, GivenTo, Wait!Days
<1>2. CASE Wait!Go(c, "unavailable")
  BY <1>1, <1>2, GoWaits
<1>3. CASE /\ entries[t] # None
           /\ visits' = visits \cup {<<t, k.today>>}
           /\ call' = [call EXCEPT ![c].pc = "visited"]
           /\ UNCHANGED <<day, entries, cookie, joined, seen>>
  <2>1. /\ record \in Wait!Call /\ record.pc = "visited" /\ record.token = t
        /\ record.kind = "visit" /\ record.browser = k.browser /\ record.email = k.email
        /\ record.today = k.today /\ call' = [call EXCEPT ![c] = record]
    BY <1>1, <1>3 DEF Wait!Call
  <2> HIDE DEF record
  <2>2. /\ call' \in [Calls -> Wait!Call] /\ call'[c] = record
        /\ \A q \in Calls : q # c => call'[q] = call[q]
    BY <1>1, <2>1
  <2>3. ASSUME NEW q \in Calls PROVE CallOK(q)'
    <3>1. CASE q = c
      BY <1>1, <1>3, <2>1, <2>2, <3>1 DEF CallOK, GivenTo
    <3>2. CASE q # c
      BY <1>3, <2>2, <3>2 DEF WaitlistInv, CallOK, GivenTo
    <3> QED
      BY <3>1, <3>2
  <2>4. CookiesAreOwn' /\ EntriesWereJoined'
    BY <1>3 DEF WaitlistInv, CookiesAreOwn, EntriesWereJoined, GivenTo
  <2>5. Wait!VisitDaysSound'
    BY <1>1, <1>3 DEF WaitlistInv, Wait!VisitDaysSound
  <2>6. Wait!TypeOK'
    BY <1>1, <1>3, <2>2 DEF WaitlistInv, Wait!TypeOK
  <2> QED
    BY <2>3, <2>4, <2>5, <2>6 DEF WaitlistInv
<1> QED
  BY <1>2, <1>3 DEF Wait!RecordVisit

(* deleteWaitlistEntry: the entry goes with all its visits.                *)
LEMMA EntryIsWithdrawn ==
  ASSUME WaitlistInv, NEW c \in Calls, Wait!Withdraw(c)
  PROVE  WaitlistInv'
<1> DEFINE k == call[c]
           t == k.token
           record == [k EXCEPT !.pc = "cleared"]
<1>1. /\ k \in Wait!Call /\ call \in [Calls -> Wait!Call] /\ CallOK(c)
      /\ k.pc = "sent" /\ k.kind = "withdraw" /\ t \in Tokens
  BY WaitlistFacts DEF Wait!Withdraw, CallOK, GivenTo
<1>2. /\ entries' = [entries EXCEPT ![t] = None]
      /\ visits' = {v \in visits : v[1] # t}
      /\ call' = [call EXCEPT ![c].pc = "cleared"]
      /\ UNCHANGED <<day, cookie, joined, seen>>
  BY DEF Wait!Withdraw
<1>3. /\ record \in Wait!Call /\ record.pc = "cleared" /\ record.token = t
      /\ record.kind = "withdraw" /\ record.browser = k.browser /\ record.email = k.email
      /\ record.today = k.today /\ call' = [call EXCEPT ![c] = record]
  BY <1>1, <1>2 DEF Wait!Call
<1> HIDE DEF record
<1>4. /\ call' \in [Calls -> Wait!Call] /\ call'[c] = record
      /\ \A q \in Calls : q # c => call'[q] = call[q]
  BY <1>1, <1>3
<1>5. /\ entries'[t] = None
      /\ \A u \in Tokens : u # t => entries'[u] = entries[u]
      /\ entries' \in [Tokens -> Emails \cup {None}]
  BY <1>1, <1>2, WaitlistFacts
<1>6. ASSUME NEW q \in Calls PROVE CallOK(q)'
  <2>1. CASE q = c
    BY <1>1, <1>2, <1>3, <1>4, <2>1 DEF CallOK, GivenTo
  <2>2. CASE q # c
    BY <1>2, <1>4, <2>2 DEF WaitlistInv, CallOK, GivenTo
  <2> QED
    BY <2>1, <2>2
<1>7. CookiesAreOwn' /\ EntriesWereJoined'
  BY <1>2, <1>5 DEF WaitlistInv, CookiesAreOwn, EntriesWereJoined, GivenTo
<1>8. Wait!VisitDaysSound'
  <2>1. \A u \in Tokens : entries'[u] # None => <<u, joined'[u].date>> \in visits'
    BY <1>2, <1>5 DEF WaitlistInv, Wait!VisitDaysSound
  <2>2. \A v \in visits' : v[1] \in Tokens /\ v[1] # t /\ v \in visits
    BY <1>2 DEF WaitlistInv, Wait!TypeOK
  <2>3. \A v \in visits' : /\ entries'[v[1]] # None
                           /\ v[2] >= joined'[v[1]].date
                           /\ <<joined'[v[1]].browser, v[2]>> \in seen'
    BY <1>2, <1>5, <2>2 DEF WaitlistInv, Wait!VisitDaysSound
  <2> QED
    BY <2>1, <2>3 DEF Wait!VisitDaysSound
<1>9. Wait!TypeOK'
  <2>1. \A u, w \in Tokens : entries'[u] # None /\ entries'[u] = entries'[w] => u = w
    BY <1>5 DEF WaitlistInv, Wait!TypeOK
  <2> QED
    BY <1>2, <1>4, <1>5, <2>1 DEF WaitlistInv, Wait!TypeOK
<1> QED
  BY <1>6, <1>7, <1>8, <1>9 DEF WaitlistInv

(* Answers set the cookie of the browser that called, or none.             *)
LEMMA AnswerArrives ==
  ASSUME WaitlistInv, NEW c \in Calls, Wait!Deliver(c) \/ Wait!Lose(c)
  PROVE  WaitlistInv'
<1> DEFINE k == call[c]
<1>1. /\ k \in Wait!Call /\ call \in [Calls -> Wait!Call] /\ CallOK(c) /\ k.pc # "idle"
      /\ cookie \in [Browsers -> Tokens \cup {None}] /\ seen \subseteq Browsers \X Wait!Days
  BY WaitlistFacts DEF Wait!Deliver, Wait!Lose, WaitlistInv, Wait!TypeOK
<1>2. Wait!Idle \in Wait!Call /\ Wait!Idle.pc = "idle"
  BY DEF Wait!Idle, Wait!Call
<1>3. /\ call' = [call EXCEPT ![c] = Wait!Idle]
      /\ UNCHANGED <<day, entries, visits, joined, seen>>
  BY DEF Wait!Deliver, Wait!Lose
<1>4. \/ k.pc = "created" /\ cookie' = [cookie EXCEPT ![k.browser] = k.token]
      \/ cookie' = [cookie EXCEPT ![k.browser] = None]
      \/ UNCHANGED cookie
  BY DEF Wait!Deliver, Wait!Lose
<1>5. /\ k.browser \in Browsers /\ k.today <= day /\ k.today \in Nat /\ day \in Nat
      /\ k.pc = "created" => GivenTo(k.token, k.browser, k.today)
  BY <1>1, WaitlistFacts DEF CallOK, Wait!Days
<1>6. k.pc = "created" => GivenTo(k.token, k.browser, day)
  BY <1>5, WaitlistFacts DEF GivenTo
<1>7. cookie' \in [Browsers -> Tokens \cup {None}]
  BY <1>1, <1>4, <1>5 DEF GivenTo
<1>8. CookiesAreOwn'
  BY <1>1, <1>3, <1>4, <1>5, <1>6 DEF WaitlistInv, CookiesAreOwn, GivenTo
<1>9. CallOK(c)'
  BY <1>1, <1>2, <1>3 DEF CallOK
<1> QED
  BY <1>1, <1>2, <1>3, <1>7, <1>8, <1>9, CallMoves

LEMMA NextWaitlist == WaitlistInv /\ [Wait!Next]_(Wait!vars) => WaitlistInv'
<1> SUFFICES ASSUME WaitlistInv, [Wait!Next]_(Wait!vars)
             PROVE  WaitlistInv'
  OBVIOUS
<1>1. CASE Wait!Midnight
  <2>1. /\ day \in Nat /\ day' = day + 1 /\ day' \in Wait!Days
        /\ UNCHANGED <<entries, visits, cookie, call, joined, seen>>
    BY <1>1, WaitlistFacts DEF Wait!Midnight, Wait!Days
  <2>2. \A t, b : GivenTo(t, b, day) => GivenTo(t, b, day)'
    BY <2>1, WaitlistFacts DEF GivenTo
  <2>3. ASSUME NEW c \in Calls PROVE CallOK(c)'
    BY <2>1, WaitlistFacts DEF CallOK, GivenTo, Wait!Days
  <2>4. EntriesWereJoined' /\ CookiesAreOwn'
    BY <2>1, <2>2, WaitlistFacts DEF WaitlistInv, EntriesWereJoined, CookiesAreOwn
  <2> QED
    BY <2>1, <2>3, <2>4 DEF WaitlistInv, Wait!TypeOK, Wait!VisitDaysSound
<1>2. ASSUME NEW c \in Calls, Wait!LookUp(c) \/ Wait!Fail(c)
      PROVE  WaitlistInv'
  BY <1>2, GoWaits DEF Wait!LookUp, Wait!Fail
<1>3. ASSUME NEW b \in Browsers, Wait!Expire(b)
      PROVE  WaitlistInv'
  BY <1>3 DEF Wait!Expire, WaitlistInv, Wait!TypeOK, CallOK, GivenTo, CookiesAreOwn,
     EntriesWereJoined, Wait!VisitDaysSound
<1>4. CASE UNCHANGED Wait!vars
  BY <1>4 DEF Wait!vars, WaitlistInv, Wait!TypeOK, CallOK, GivenTo, CookiesAreOwn,
     EntriesWereJoined, Wait!VisitDaysSound
<1> QED
  BY <1>1, <1>2, <1>3, <1>4, CallIsSent, EntryIsMade, VisitIsRecorded, EntryIsWithdrawn,
     AnswerArrives DEF Wait!Next


(* In a behavior that runs Waitlist, WaitlistInv always holds.             *)
LEMMA WaitlistAlways == TablesSpec => [](focus = "waitlist" => WaitlistInv)
<1> DEFINE Good == focus = "waitlist" => WaitlistInv
<1>1. TablesInit => Good
  BY InitWaitlist DEF TablesInit
<1>2. Good /\ [TablesNext]_<<focus, vars, slots>> => Good'
  <2> SUFFICES ASSUME Good, [TablesNext]_<<focus, vars, slots>>, focus' = "waitlist"
               PROVE  WaitlistInv'
    OBVIOUS
  <2>1. focus = "waitlist"
    BY DEF TablesNext
  <2>2. Wait!Next \/ UNCHANGED slots
    BY <2>1 DEF TablesNext
  <2>3. UNCHANGED slots => UNCHANGED Wait!vars
    BY DEF slots, Wait!vars
  <2> QED
    BY <2>1, <2>2, <2>3, NextWaitlist
<1> HIDE DEF Good
<1>3. TablesSpec => []Good
  BY <1>1, <1>2, PTL DEF TablesSpec
<1> QED
  BY <1>3 DEF Good

(* Every entry has the visit of the day it was made and no earlier one,    *)
(* each visit is of a day on which its registrant called, and a visit that *)
(* races a withdrawal leaves nothing behind, for any number of browsers,   *)
(* overlapping calls and days (joinWaitlist, recordWaitlistVisit,          *)
(* deleteWaitlistEntry).                                                   *)
THEOREM VisitsAreSound == TablesSpec => []VisitDaysSound
<1>1. (focus = "waitlist" => WaitlistInv) => VisitDaysSound
  BY DEF WaitlistInv, VisitDaysSound
<1> QED
  BY <1>1, WaitlistAlways, PTL

(* A step that changes an entry on file is the withdrawal its registrant   *)
(* asked for.                                                              *)
LEMMA OnlyWithdrawn ==
  ASSUME WaitlistInv, [Wait!Next]_(Wait!vars) PROVE Wait!RegistrantWithdraws
<1> SUFFICES ASSUME NEW t \in Tokens, entries[t] # None, entries'[t] # entries[t]
             PROVE  \E c \in Calls :
                      /\ call[c].kind = "withdraw" /\ call[c].pc = "sent"
                      /\ call'[c].pc = "cleared" /\ call[c].browser = joined[t].browser
  BY DEF Wait!RegistrantWithdraws
<1>1. entries \in [Tokens -> Emails \cup {None}]
  BY WaitlistFacts
<1>2. ASSUME NEW c \in Calls, NEW u \in Tokens, Wait!Join(c, u)
      PROVE  FALSE
  <2>1. entries[u] = None
    BY <1>2 DEF Wait!Join, Wait!Fresh, WaitlistInv, EntriesWereJoined
  <2>2. UNCHANGED entries \/ entries' = [entries EXCEPT ![u] = call[c].email]
    BY <1>2 DEF Wait!Join, Wait!Go
  <2> QED
    BY <1>1, <2>1, <2>2
<1>3. ASSUME NEW c \in Calls, Wait!Withdraw(c)
      PROVE  /\ call[c].kind = "withdraw" /\ call[c].pc = "sent"
             /\ call'[c].pc = "cleared" /\ call[c].browser = joined[t].browser
  <2>1. /\ call[c].kind = "withdraw" /\ call[c].pc = "sent"
        /\ entries' = [entries EXCEPT ![call[c].token] = None]
        /\ call' = [call EXCEPT ![c].pc = "cleared"]
    BY <1>3 DEF Wait!Withdraw
  <2>2. t = call[c].token
    BY <1>1, <2>1
  <2>3. CallOK(c) /\ call \in [Calls -> Wait!Call]
    BY WaitlistFacts
  <2>4. joined[t].browser = call[c].browser
    BY <2>1, <2>2, <2>3 DEF CallOK, GivenTo
  <2>5. call'[c].pc = "cleared"
    BY <2>1, <2>3 DEF Wait!Call
  <2> QED
    BY <2>1, <2>4, <2>5
<1>4. ~ UNCHANGED entries
  OBVIOUS
<1> QED
  BY <1>2, <1>3, <1>4 DEF Wait!Next, Wait!vars, Wait!Midnight, Wait!Send, Wait!LookUp,
     Wait!RecordVisit, Wait!Fail, Wait!Deliver, Wait!Lose, Wait!Expire, Wait!Go

(* No request of anybody else takes an entry off the list: a browser only  *)
(* ever presents tokens that it was given itself (the POST and DELETE      *)
(* routes, joinWaitlist).                                                  *)
THEOREM RegistrantsWithdraw == TablesSpec => OnlyTheRegistrantWithdraws
<1> DEFINE Good == focus = "waitlist" => WaitlistInv
<1>1. Good /\ [TablesNext]_<<focus, vars, slots>> =>
        [focus = "waitlist" => Wait!RegistrantWithdraws]_<<focus, slots>>
  <2> SUFFICES ASSUME Good, [TablesNext]_<<focus, vars, slots>>, focus = "waitlist"
               PROVE  Wait!RegistrantWithdraws
    OBVIOUS
  <2>1. Wait!Next \/ UNCHANGED slots
    BY DEF TablesNext
  <2>2. UNCHANGED slots => UNCHANGED Wait!vars
    BY DEF slots, Wait!vars
  <2> QED
    BY <2>1, <2>2, OnlyWithdrawn
<1>2. TablesSpec => []Good
  BY WaitlistAlways
<1> HIDE DEF Good
<1> QED
  BY <1>1, <1>2, PTL DEF TablesSpec, OnlyTheRegistrantWithdraws
-----------------------------------------------------------------------------
(* Smoke: the accounts and the runs of MCTables.                           *)
epoch == v1
report == v2
unlocks == v3
messages == v4
spent == v5
run == v6

(* The run passes, or may still: its first report was answered with 201.   *)
Filed(r) ==
  \/ run[r].result = "pass"
  \/ run[r].result = "running" /\ run[r].ok /\ run[r].at > 7

(* What the accounts hold when a run that nobody disturbs is at a request. *)
InStep(r) ==
  LET n == run[r].at IN
  /\ run[r].ok
  /\ spent = IF n <= 5 THEN 0 ELSE IF n <= 8 THEN n - 5 ELSE 4
  /\ n <= 7 => report = None
  /\ n > 7 => report # None /\ report = run[r].filed
  /\ Smo!AtoB \in unlocks <=> n > 12
  /\ Smo!BtoA \in unlocks <=> n > 21
  /\ n > 15 => r \in messages
  /\ n \in 3 .. 26 => "A" \in run[r].live

RunOK(r) ==
  /\ run[r].result = "idle" => run[r].at = 1 /\ run[r].ok
  /\ Filed(r) => /\ run[r].filed # None /\ run[r].filed <= epoch
                 /\ run[r].filed = epoch => report # None
  /\ run[r].alone => \/ run[r].result = "pass"
                     \/ run[r].result = "running" /\ InStep(r)

SmokeInv ==
  /\ Smo!TypeOK
  /\ report \in {None, epoch}
  /\ \A r \in Runs : RunOK(r)
  /\ \A r, q \in Runs : r # q /\ Filed(r) /\ Filed(q) => run[r].filed # run[q].filed

USE DEF epoch, report, unlocks, messages, spent, run

LEMMA ScriptLength == Len(Smo!Script) = 28
  BY DEF Smo!Script

(* Where in the script each request is.                                    *)
LEMMA ScriptIs ==
  ASSUME NEW i \in 1 .. 28
  PROVE  /\ Smo!Script[i] = "public" => i = 1
         /\ Smo!Script[i] = "loginA" => i = 2
         /\ Smo!Script[i] = "loginB" => i = 3
         /\ Smo!Script[i] = "mapping" => i = 4
         /\ Smo!Script[i] = "forgedReport" => i = 5
         /\ Smo!Script[i] = "selfReport" => i = 6
         /\ Smo!Script[i] = "firstReport" => i = 7
         /\ Smo!Script[i] = "duplicateReport" => i = 8
         /\ Smo!Script[i] = "initialA" => i = 9
         /\ Smo!Script[i] = "initialB" => i = 10
         /\ Smo!Script[i] = "beforePrivate" => i = 11
         /\ Smo!Script[i] = "unlockPass" => i = 12
         /\ Smo!Script[i] = "unlockStatus" => i = 13
         /\ Smo!Script[i] = "afterPrivate" => i = 14
         /\ Smo!Script[i] = "sentMessage" => i = 15
         /\ Smo!Script[i] = "recipientConversation" => i = 16
         /\ Smo!Script[i] = "unlockAgain" => i = 17
         /\ Smo!Script[i] = "statusAfterDuplicate" => i = 18
         /\ Smo!Script[i] = "bBeforeOwnUnlock" => i = 19
         /\ Smo!Script[i] = "forgedCookie" => i = 20
         /\ Smo!Script[i] = "bUnlockPass" => i = 21
         /\ Smo!Script[i] = "bUnlockStatus" => i = 22
         /\ Smo!Script[i] = "bAfterPrivate" => i = 23
         /\ Smo!Script[i] = "finalA" => i = 24
         /\ Smo!Script[i] = "finalB" => i = 25
         /\ Smo!Script[i] = "logout" => i = 26
         /\ Smo!Script[i] = "cleared" => i = 27
         /\ Smo!Script[i] = "revoked" => i = 28
         /\ i = 7 => Smo!Script[i] = "firstReport"
  BY DEF Smo!Script

LEMMA InitSmoke == Smo!Init => SmokeInv
<1> USE TablesAssumption DEF Smo!SmokeAssumption
<1> SUFFICES ASSUME Smo!Init PROVE SmokeInv
  OBVIOUS
<1>1. [result |-> "idle", at |-> 1, ok |-> TRUE, filed |-> None, live |-> {},
       alone |-> FALSE] \in Smo!Run
  BY ScriptLength DEF Smo!Run, Smo!Results
<1>2. run \in [Runs -> Smo!Run]
  BY <1>1 DEF Smo!Init
<1>3. /\ epoch \in 0 .. MaxEpoch /\ spent \in 0 .. 5
      /\ report = None /\ unlocks = {} /\ messages = {}
  BY DEF Smo!Init
<1>4. Smo!TypeOK
  BY <1>2, <1>3 DEF Smo!TypeOK, Smo!ReportLimit
<1>5. \A r \in Runs : ~ Filed(r) /\ ~ run[r].alone /\ run[r].at = 1 /\ run[r].ok
  BY DEF Smo!Init, Filed
<1> QED
  BY <1>3, <1>4, <1>5 DEF SmokeInv, RunOK

LEMMA SmokeFacts ==
  ASSUME SmokeInv, NEW r \in Runs
  PROVE  /\ run \in [Runs -> Smo!Run] /\ run[r] \in Smo!Run
         /\ run[r].at \in 1 .. 29 /\ run[r].ok \in BOOLEAN /\ run[r].alone \in BOOLEAN
         /\ run[r].filed \in 0 .. MaxEpoch \cup {None}
         /\ epoch \in 0 .. MaxEpoch /\ MaxEpoch \in Nat /\ None \notin 0 .. MaxEpoch
         /\ spent \in 0 .. 5 /\ RunOK(r)
  BY TablesAssumption, ScriptLength
     DEF SmokeInv, Smo!TypeOK, Smo!Run, Smo!SmokeAssumption, Smo!ReportLimit

(* A run that moves on, and the rows as the server holds them then: what is*)
(* left to show is what is known of that run alone.                        *)
LEMMA RunMoves ==
  ASSUME SmokeInv, NEW r \in Runs, NEW record \in Smo!Run, Smo!Becomes(r, record),
         UNCHANGED epoch, report' \in {None, epoch}, report # None => report' # None,
         unlocks' \subseteq {Smo!AtoB, Smo!BtoA}, messages' \subseteq Runs,
         spent' \in 0 .. 5, RunOK(r)',
         Filed(r)' => \/ Filed(r) /\ record.filed = run[r].filed
                      \/ report = None /\ record.filed = epoch
  PROVE  SmokeInv'
<1>1. /\ run' \in [Runs -> Smo!Run] /\ run'[r] = record
      /\ \A q \in Runs : q # r => run'[q] = [run[q] EXCEPT !.alone = FALSE]
  <2>1. ASSUME NEW q \in Runs PROVE [run[q] EXCEPT !.alone = FALSE] \in Smo!Run
    BY SmokeFacts DEF Smo!Run
  <2> QED
    BY <2>1 DEF Smo!Becomes
<1>2. ASSUME NEW q \in Runs, q # r
      PROVE  /\ ~ run'[q].alone /\ run'[q].filed = run[q].filed
             /\ run'[q].result = run[q].result /\ run'[q].at = run[q].at
             /\ (run'[q].ok <=> run[q].ok)
             /\ Filed(q)' <=> Filed(q)
  <2>1. run[q] \in Smo!Run /\ run'[q] = [run[q] EXCEPT !.alone = FALSE]
    BY <1>1, <1>2, SmokeFacts
  <2>2. /\ run'[q].result = run[q].result /\ run'[q].at = run[q].at
        /\ (run'[q].ok <=> run[q].ok) /\ run'[q].filed = run[q].filed
        /\ ~ run'[q].alone
    BY <2>1 DEF Smo!Run
  <2> QED
    BY <2>2 DEF Filed
<1>3. ASSUME NEW q \in Runs PROVE RunOK(q)'
  <2>1. CASE q # r
    BY <1>2, <2>1, SmokeFacts DEF RunOK
  <2> QED
    BY <2>1
<1>4. ASSUME NEW q \in Runs, q # r, Filed(r)', Filed(q)'
      PROVE  run'[r].filed # run'[q].filed
  <2>1. Filed(q) /\ run'[q].filed = run[q].filed /\ run'[r].filed = record.filed
    BY <1>1, <1>2, <1>4
  <2>2. CASE Filed(r) /\ record.filed = run[r].filed
    BY <1>4, <2>1, <2>2 DEF SmokeInv
  <2>3. CASE report = None /\ record.filed = epoch
    BY <2>1, <2>3, SmokeFacts DEF RunOK
  <2> QED
    BY <1>4, <2>2, <2>3
<1>5. \A q, p \in Runs : q # p /\ Filed(q)' /\ Filed(p)' => run'[q].filed # run'[p].filed
  <2> SUFFICES ASSUME NEW q \in Runs, NEW p \in Runs, q # p, Filed(q)', Filed(p)'
               PROVE  run'[q].filed # run'[p].filed
    OBVIOUS
  <2>1. CASE q = r
    BY <1>4, <2>1
  <2>2. CASE p = r
    BY <1>4, <2>2
  <2>3. CASE q # r /\ p # r
    BY <1>2, <2>3 DEF SmokeInv
  <2> QED
    BY <2>1, <2>2, <2>3
<1>6. Smo!TypeOK' /\ report' \in {None, epoch'}
  BY <1>1, SmokeFacts DEF SmokeInv, Smo!TypeOK, Smo!ReportLimit
<1> QED
  BY <1>3, <1>5, <1>6 DEF SmokeInv

(* The case of any request but the first report is decided.                *)
LEMMA CaseDecided ==
  ASSUME SmokeInv, NEW r \in Runs, NEW record \in Smo!Run, Smo!Becomes(r, record),
         run[r].result = "running", record.result = "running",
         run[r].at # 7, record.at = run[r].at + 1, record.ok => run[r].ok,
         record.filed = run[r].filed, record.alone => run[r].alone,
         UNCHANGED epoch, report' \in {None, epoch}, report # None => report' # None,
         unlocks' \subseteq {Smo!AtoB, Smo!BtoA}, messages' \subseteq Runs,
         spent' \in 0 .. 5,
         record.alone /\ InStep(r) => InStep(r)'
  PROVE  SmokeInv'
<1>1. run'[r] = record
  BY DEF Smo!Becomes
<1>2. Filed(r)' => Filed(r) /\ record.filed = run[r].filed
  BY <1>1, SmokeFacts DEF Filed
<1>3. RunOK(r)'
  BY <1>1, <1>2, SmokeFacts DEF RunOK
<1> QED
  BY <1>2, <1>3, RunMoves

LEMMA RequestAt ==
  ASSUME SmokeInv, NEW r \in Runs, NEW request, Smo!At(r, request)
  PROVE  /\ run[r].result = "running" /\ run[r].at \in 1 .. 28
         /\ Smo!Script[run[r].at] = request
  BY SmokeFacts, ScriptLength DEF Smo!At

(* pushCase.                                                               *)
LEMMA CaseFacts ==
  ASSUME SmokeInv, NEW r \in Runs, NEW pass \in BOOLEAN, run[r].at \in 1 .. 28
  PROVE  LET record == Smo!Advanced(run[r], pass)
         IN /\ record \in Smo!Run /\ record.result = run[r].result
            /\ record.at = run[r].at + 1 /\ record.at \in 2 .. 29
            /\ record.ok => run[r].ok /\ pass
            /\ run[r].ok /\ pass => record.ok
            /\ record.filed = run[r].filed
            /\ record.live = run[r].live /\ record.alone = run[r].alone
<1> DEFINE record == Smo!Advanced(run[r], pass)
           n == run[r].at + 1
           both == run[r].ok /\ pass
<1>1. n \in 2 .. 29 /\ n \in 1 .. Len(Smo!Script) + 1
  BY ScriptLength
<1>2. both \in BOOLEAN
  OBVIOUS
<1>3. record = [run[r] EXCEPT !.at = n, !.ok = both]
  BY DEF Smo!Advanced
<1>4. run[r] \in Smo!Run
  BY SmokeFacts
<1> HIDE DEF n
<1>5. record.ok = both
  <2> HIDE DEF both
  <2> QED
    BY <1>2, <1>3, <1>4 DEF Smo!Run
<1>6. /\ record \in Smo!Run /\ record.result = run[r].result
      /\ record.at = n /\ record.filed = run[r].filed
      /\ record.live = run[r].live /\ record.alone = run[r].alone
  <2> HIDE DEF both
  <2> QED
    BY <1>1, <1>2, <1>3, <1>4 DEF Smo!Run
<1> HIDE DEF record
<1>7. (record.ok => run[r].ok /\ pass) /\ (run[r].ok /\ pass => record.ok)
  BY <1>5
<1> QED
  BY <1>1, <1>6, <1>7 DEF record, n

(* A request that decides one case and of which nobody else can tell.      *)
LEMMA CaseAlone ==
  ASSUME SmokeInv, NEW r \in Runs, NEW pass \in BOOLEAN, Smo!Case(r, pass),
         run[r].result = "running", run[r].at \in 1 .. 28, run[r].at # 7,
         UNCHANGED epoch, report' \in {None, epoch}, report # None => report' # None,
         unlocks' \subseteq {Smo!AtoB, Smo!BtoA}, messages' \subseteq Runs,
         spent' \in 0 .. 5,
         InStep(r) =>
           LET n == run[r].at + 1 IN
           /\ pass
           /\ spent' = IF n <= 5 THEN 0 ELSE IF n <= 8 THEN n - 5 ELSE 4
           /\ UNCHANGED report
           /\ Smo!AtoB \in unlocks' <=> n > 12
           /\ Smo!BtoA \in unlocks' <=> n > 21
           /\ n > 15 => r \in messages'
           /\ n # 3 /\ n # 8
  PROVE  SmokeInv'
<1> DEFINE record == Smo!Advanced(run[r], pass)
<1>1. /\ record \in Smo!Run /\ record.result = run[r].result
      /\ record.at = run[r].at + 1 /\ record.at \in 2 .. 29
      /\ record.ok => run[r].ok /\ pass
      /\ run[r].ok /\ pass => record.ok
      /\ record.filed = run[r].filed
      /\ record.live = run[r].live /\ record.alone = run[r].alone
  BY CaseFacts
<1>2. Smo!Becomes(r, record)
  BY DEF Smo!Case
<1> HIDE DEF record
<1>3. run'[r] = record
  BY <1>2 DEF Smo!Becomes
<1>4. ASSUME InStep(r) PROVE InStep(r)'
  BY <1>1, <1>3, <1>4 DEF InStep
<1> QED
  BY <1>1, <1>2, <1>4, CaseDecided

LEMMA ServerIs ==
  ASSUME SmokeInv
  PROVE  /\ report \in {None, epoch} /\ unlocks \subseteq {Smo!AtoB, Smo!BtoA}
         /\ messages \subseteq Runs /\ spent \in 0 .. 5 /\ Smo!AtoB # Smo!BtoA
  BY DEF SmokeInv, Smo!TypeOK, Smo!ReportLimit, Smo!AtoB, Smo!BtoA

(* Requests that leave the rows of the accounts as they are.               *)
LEMMA ReadCase ==
  ASSUME SmokeInv, NEW r \in Runs, NEW pass \in BOOLEAN, Smo!Case(r, pass),
         run[r].result = "running", run[r].at \in 1 .. 28,
         run[r].at \notin {2, 5, 6, 7, 8, 12, 15, 21},
         UNCHANGED <<epoch, Smo!server>>, InStep(r) => pass
  PROVE  SmokeInv'
<1>1. /\ UNCHANGED <<epoch, report, unlocks, messages, spent>>
      /\ report \in {None, epoch} /\ unlocks \subseteq {Smo!AtoB, Smo!BtoA}
      /\ messages \subseteq Runs /\ spent \in 0 .. 5
  BY ServerIs DEF Smo!server
<1> QED
  BY <1>1, CaseAlone DEF InStep

LEMMA ReadsOnly ==
  ASSUME SmokeInv, NEW r \in Runs,
         \/ Smo!Public(r) \/ Smo!Mapping(r) \/ Smo!Look(r) \/ Smo!ReadMessage(r)
         \/ Smo!ProveRevoked(r)
  PROVE  SmokeInv'
<1> DEFINE n == run[r].at
           unlocked == Smo!AtoB \in unlocks
           locked == Smo!AtoB \notin unlocks
           unlockedBack == Smo!BtoA \in unlocks
           lockedBack == Smo!BtoA \notin unlocks
           received == Smo!Converses("B") /\ r \in messages
<1>1. /\ UNCHANGED <<epoch, Smo!server>>
      /\ \/ n \in {1, 4, 28} /\ Smo!Case(r, TRUE)
         \/ n \in {9, 11} /\ Smo!Case(r, locked)
         \/ n \in {10, 19, 20} /\ Smo!Case(r, lockedBack)
         \/ n \in {13, 14, 18, 24} /\ Smo!Case(r, unlocked)
         \/ n \in {22, 23, 25} /\ Smo!Case(r, unlockedBack)
         \/ n = 16 /\ Smo!Case(r, received)
  <2>1. \A request : Smo!At(r, request) => n \in 1 .. 28 /\ Smo!Script[n] = request
    BY RequestAt
  <2>2. /\ Smo!At(r, "public") => n = 1
        /\ Smo!At(r, "mapping") => n = 4
        /\ Smo!At(r, "initialA") => n = 9
        /\ Smo!At(r, "initialB") => n = 10
        /\ Smo!At(r, "beforePrivate") => n = 11
        /\ Smo!At(r, "unlockStatus") => n = 13
        /\ Smo!At(r, "afterPrivate") => n = 14
        /\ Smo!At(r, "recipientConversation") => n = 16
        /\ Smo!At(r, "statusAfterDuplicate") => n = 18
        /\ Smo!At(r, "bBeforeOwnUnlock") => n = 19
        /\ Smo!At(r, "forgedCookie") => n = 20
        /\ Smo!At(r, "bUnlockStatus") => n = 22
        /\ Smo!At(r, "bAfterPrivate") => n = 23
        /\ Smo!At(r, "finalA") => n = 24
        /\ Smo!At(r, "finalB") => n = 25
        /\ Smo!At(r, "revoked") => n = 28
    BY <2>1, ScriptIs
  <2> HIDE DEF n
  <2>3. CASE Smo!Public(r) \/ Smo!Mapping(r) \/ Smo!ProveRevoked(r)
    BY <2>2, <2>3 DEF Smo!Public, Smo!Mapping, Smo!ProveRevoked
  <2>4. CASE Smo!Look(r) \/ Smo!ReadMessage(r)
    BY <2>2, <2>4, Zenon DEF Smo!Look, Smo!ReadMessage
  <2> QED
    BY <2>3, <2>4
<1>2. n \in 1 .. 28 /\ run[r].result = "running"
  BY RequestAt DEF Smo!Public, Smo!Mapping, Smo!Look, Smo!ReadMessage, Smo!ProveRevoked
<1>3. /\ locked \in BOOLEAN /\ lockedBack \in BOOLEAN /\ unlocked \in BOOLEAN
      /\ unlockedBack \in BOOLEAN /\ received \in BOOLEAN
  OBVIOUS
<1>4. InStep(r) => /\ n \in {9, 11} => locked
                   /\ n \in {10, 19, 20} => lockedBack
                   /\ n \in {13, 14, 18, 24} => unlocked
                   /\ n \in {22, 23, 25} => unlockedBack
                   /\ n = 16 => received
  BY DEF InStep, Smo!Converses
<1> HIDE DEF locked, lockedBack, unlocked, unlockedBack, received
<1>5. CASE n \in {1, 4, 28} /\ Smo!Case(r, TRUE)
  <2>1. n \notin {2, 5, 6, 7, 8, 12, 15, 21}
    BY <1>5
  <2> HIDE DEF n
  <2>2. run[r].at \notin {2, 5, 6, 7, 8, 12, 15, 21} /\ run[r].at \in 1 .. 28
    BY <1>2, <2>1 DEF n
  <2> QED
    BY <1>1, <1>2, <1>5, <2>2, ReadCase, Zenon
<1>6. CASE n \in {9, 11} /\ Smo!Case(r, locked)
  BY <1>1, <1>2, <1>3, <1>4, <1>6, ReadCase
<1>7. CASE n \in {10, 19, 20} /\ Smo!Case(r, lockedBack)
  BY <1>1, <1>2, <1>3, <1>4, <1>7, ReadCase
<1>8. CASE n \in {13, 14, 18, 24} /\ Smo!Case(r, unlocked)
  BY <1>1, <1>2, <1>3, <1>4, <1>8, ReadCase
<1>9. CASE n \in {22, 23, 25} /\ Smo!Case(r, unlockedBack)
  BY <1>1, <1>2, <1>3, <1>4, <1>9, ReadCase
<1>10. CASE n = 16 /\ Smo!Case(r, received)
  BY <1>1, <1>2, <1>3, <1>4, <1>10, ReadCase
<1> QED
  BY <1>1, <1>5, <1>6, <1>7, <1>8, <1>9, <1>10

(* POST /api/reports, but for the first report that is meant to be filed.  *)
LEMMA ReportsAgain ==
  ASSUME SmokeInv, NEW r \in Runs, Smo!InvalidReport(r) \/ Smo!DuplicateReport(r)
  PROVE  SmokeInv'
<1> DEFINE n == run[r].at
           counted == spent < Smo!ReportLimit
           same == report # None /\ report = run[r].filed
           no == FALSE
<1>1. /\ run[r].result = "running" /\ n \in 1 .. 28 /\ n \in {5, 6, 8}
      /\ Smo!InvalidReport(r) => n \in {5, 6}
      /\ Smo!DuplicateReport(r) => n = 8
  <2>1. /\ Smo!At(r, "forgedReport") => n = 5
        /\ Smo!At(r, "selfReport") => n = 6
        /\ Smo!At(r, "duplicateReport") => n = 8
        /\ \A request : Smo!At(r, request) => run[r].result = "running" /\ n \in 1 .. 28
    BY RequestAt, ScriptIs
  <2> QED
    BY <2>1 DEF Smo!InvalidReport, Smo!DuplicateReport
<1>2. /\ counted \in BOOLEAN /\ same \in BOOLEAN /\ no \in BOOLEAN
      /\ report \in {None, epoch} /\ unlocks \subseteq {Smo!AtoB, Smo!BtoA}
      /\ messages \subseteq Runs /\ spent \in 0 .. 5
  BY ServerIs
<1>3. /\ UNCHANGED <<epoch, unlocks, messages>>
      /\ spent' = IF spent < 5 THEN spent + 1 ELSE spent
      /\ report' \in {None, epoch}
      /\ report # None => report' # None
      /\ report # None => UNCHANGED report
  BY <1>2 DEF Smo!InvalidReport, Smo!DuplicateReport, Smo!Counted, Smo!ReportLimit
<1>4. spent' \in 0 .. 5
  BY <1>2, <1>3
<1>5. InStep(r) => counted /\ (n = 8 => same)
  BY <1>1 DEF InStep, Smo!ReportLimit
<1>6. CASE Smo!InvalidReport(r)
  <2>1. Smo!Case(r, counted) /\ UNCHANGED report /\ n \in {5, 6}
    BY <1>1, <1>6 DEF Smo!InvalidReport
  <2>2. InStep(r) =>
          LET m == run[r].at + 1 IN
          /\ counted
          /\ spent' = IF m <= 5 THEN 0 ELSE IF m <= 8 THEN m - 5 ELSE 4
          /\ UNCHANGED report
          /\ Smo!AtoB \in unlocks' <=> m > 12
          /\ Smo!BtoA \in unlocks' <=> m > 21
          /\ m > 15 => r \in messages'
          /\ m # 3 /\ m # 8
    BY <1>1, <1>3, <1>5, <2>1 DEF InStep
  <2> HIDE DEF counted
  <2> QED
    BY <1>1, <1>2, <1>3, <1>4, <2>1, <2>2, CaseAlone
<1>7. CASE Smo!DuplicateReport(r)
  <2>1. CASE spent = Smo!ReportLimit
    <3>1. Smo!Case(r, no)
      BY <1>7, <2>1, Zenon DEF Smo!DuplicateReport
    <3>2. ~ InStep(r)
      BY <1>5, <2>1 DEF Smo!ReportLimit
    <3> HIDE DEF no
    <3> QED
      BY <1>1, <1>2, <1>3, <1>4, <3>1, <3>2, CaseAlone
  <2>2. CASE spent # Smo!ReportLimit
    <3>1. Smo!Case(r, same) /\ n = 8
      BY <1>1, <1>7, <2>2, Zenon DEF Smo!DuplicateReport
    <3>2. InStep(r) => same /\ report # None
      BY <1>5, <3>1
    <3> HIDE DEF same
    <3> QED
      BY <1>1, <1>2, <1>3, <1>4, <3>1, <3>2, CaseAlone DEF InStep
  <2> QED
    BY <2>1, <2>2
<1> QED
  BY <1>6, <1>7

(* POST /api/answers/unlock and POST /api/messages.                        *)
LEMMA RowsAreMade ==
  ASSUME SmokeInv, NEW r \in Runs, Smo!Unlock(r) \/ Smo!SendMessage(r)
  PROVE  SmokeInv'
<1> DEFINE n == run[r].at
           unlocked == Smo!AtoB \in unlocks
           open == Smo!Converses("A")
           yes == TRUE
<1>1. /\ run[r].result = "running" /\ n \in 1 .. 28
      /\ \/ n = 12 /\ Smo!Case(r, yes) /\ unlocks' = unlocks \cup {Smo!AtoB}
            /\ UNCHANGED messages
         \/ n = 17 /\ Smo!Case(r, unlocked) /\ unlocks' = unlocks \cup {Smo!AtoB}
            /\ UNCHANGED messages
         \/ n = 21 /\ Smo!Case(r, yes) /\ unlocks' = unlocks \cup {Smo!BtoA}
            /\ UNCHANGED messages
         \/ n = 15 /\ Smo!Case(r, open) /\ UNCHANGED unlocks
            /\ messages' = IF open THEN messages \cup {r} ELSE messages
  <2>1. /\ Smo!At(r, "unlockPass") => n = 12
        /\ Smo!At(r, "unlockAgain") => n = 17
        /\ Smo!At(r, "bUnlockPass") => n = 21
        /\ Smo!At(r, "sentMessage") => n = 15
        /\ \A request : Smo!At(r, request) => run[r].result = "running" /\ n \in 1 .. 28
    BY RequestAt, ScriptIs
  <2> HIDE DEF n
  <2>2. CASE Smo!Unlock(r)
    BY <2>1, <2>2, Zenon DEF Smo!Unlock
  <2>3. CASE Smo!SendMessage(r)
    BY <2>1, <2>3, Zenon DEF Smo!SendMessage
  <2> QED
    BY <2>2, <2>3
<1>2. /\ report \in {None, epoch} /\ unlocks' \subseteq {Smo!AtoB, Smo!BtoA}
      /\ messages' \subseteq Runs /\ spent \in 0 .. 5 /\ Smo!AtoB # Smo!BtoA
  BY <1>1, ServerIs
<1>3. UNCHANGED <<epoch, report, spent>>
  BY DEF Smo!Unlock, Smo!SendMessage
<1>4. /\ unlocked \in BOOLEAN /\ open \in BOOLEAN /\ yes \in BOOLEAN /\ yes
      /\ InStep(r) => (n \in {15, 17} => unlocked /\ open)
  BY DEF InStep, Smo!Converses
<1> HIDE DEF yes, open
<1>5. CASE n = 12 /\ Smo!Case(r, yes) /\ unlocks' = unlocks \cup {Smo!AtoB}
           /\ UNCHANGED messages
  <2>1. InStep(r) =>
          LET m == run[r].at + 1 IN
          /\ spent' = IF m <= 5 THEN 0 ELSE IF m <= 8 THEN m - 5 ELSE 4
          /\ Smo!AtoB \in unlocks' <=> m > 12
          /\ Smo!BtoA \in unlocks' <=> m > 21
          /\ m > 15 => r \in messages'
    BY <1>1, <1>2, <1>3, <1>5 DEF InStep
  <2>2. run[r].result = "running" /\ n \in 1 .. 28 /\ n # 7 /\ n + 1 # 3 /\ n + 1 # 8
    BY <1>1, <1>5
  <2> QED
    BY <1>2, <1>3, <1>4, <1>5, <2>1, <2>2, CaseAlone
<1>6. CASE n = 21 /\ Smo!Case(r, yes) /\ unlocks' = unlocks \cup {Smo!BtoA}
           /\ UNCHANGED messages
  <2>1. InStep(r) =>
          LET m == run[r].at + 1 IN
          /\ spent' = IF m <= 5 THEN 0 ELSE IF m <= 8 THEN m - 5 ELSE 4
          /\ Smo!AtoB \in unlocks' <=> m > 12
          /\ Smo!BtoA \in unlocks' <=> m > 21
          /\ m > 15 => r \in messages'
    BY <1>1, <1>2, <1>3, <1>6 DEF InStep
  <2>2. run[r].result = "running" /\ n \in 1 .. 28 /\ n # 7 /\ n + 1 # 3 /\ n + 1 # 8
    BY <1>1, <1>6
  <2> QED
    BY <1>2, <1>3, <1>4, <1>6, <2>1, <2>2, CaseAlone
<1>7. CASE n = 17 /\ Smo!Case(r, unlocked) /\ unlocks' = unlocks \cup {Smo!AtoB}
           /\ UNCHANGED messages
  <2>1. InStep(r) => Smo!AtoB \in unlocks
    BY <1>4, <1>7
  <2> HIDE DEF unlocked
  <2> QED
    BY <1>1, <1>2, <1>3, <1>4, <1>7, <2>1, CaseAlone DEF InStep
<1>8. CASE n = 15 /\ Smo!Case(r, open) /\ UNCHANGED unlocks
           /\ messages' = IF open THEN messages \cup {r} ELSE messages
  BY <1>1, <1>2, <1>3, <1>4, <1>8, CaseAlone DEF InStep
<1> QED
  BY <1>1, <1>5, <1>6, <1>7, <1>8

(* Sessions begin and end.                                                 *)
LEMMA SessionsChange ==
  ASSUME SmokeInv, NEW r \in Runs,
         Smo!Login(r) \/ Smo!ProveLogout(r) \/ Smo!ProveCleared(r)
  PROVE  SmokeInv'
<1> DEFINE n == run[r].at
<1>1. PICK pass \in BOOLEAN, live \in SUBSET Smo!Jars :
        /\ Smo!Becomes(r, [Smo!Advanced(run[r], pass) EXCEPT !.live = live])
        /\ run[r].result = "running" /\ n \in {2, 3, 26, 27}
        /\ InStep(r) => pass /\ (n \in 2 .. 25 => "A" \in live)
        /\ UNCHANGED <<epoch, report, unlocks, messages, spent>>
  <2>1. /\ Smo!At(r, "loginA") => n = 2
        /\ Smo!At(r, "loginB") => n = 3
        /\ Smo!At(r, "logout") => n = 26
        /\ Smo!At(r, "cleared") => n = 27
        /\ \A request : Smo!At(r, request) => run[r].result = "running" /\ n \in 1 .. 28
    BY RequestAt, ScriptIs
  <2>2. run[r].live \in SUBSET Smo!Jars /\ run[r] \in Smo!Run
    BY SmokeFacts DEF Smo!Run
  <2>3. ASSUME NEW pass \in BOOLEAN
        PROVE  Smo!Advanced(run[r], pass).live = run[r].live
    BY <2>2 DEF Smo!Advanced, Smo!Run
  <2>4. UNCHANGED <<epoch, report, unlocks, messages, spent>>
    BY DEF Smo!Login, Smo!ProveLogout, Smo!ProveCleared, Smo!server
  <2>5. CASE Smo!Login(r)
    <3>1. PICK jar \in {"A", "B"} :
            /\ Smo!At(r, IF jar = "A" THEN "loginA" ELSE "loginB")
            /\ Smo!Becomes(r, [Smo!Advanced(run[r], TRUE) EXCEPT !.live = @ \cup {jar}])
      BY <2>5, Zenon DEF Smo!Login
    <3> DEFINE live == run[r].live \cup {jar}
               yes == TRUE
    <3>2. live \in SUBSET Smo!Jars /\ (InStep(r) => (n \in 2 .. 25 => "A" \in live))
      BY <2>1, <2>2, <3>1 DEF Smo!Jars, InStep
    <3>3. n \in {2, 3} /\ run[r].result = "running"
      BY <2>1, <3>1
    <3>4. yes \in BOOLEAN /\ yes
      OBVIOUS
    <3>5. Smo!Becomes(r, [Smo!Advanced(run[r], yes) EXCEPT !.live = live])
      BY <2>3, <3>1, Zenon
    <3> HIDE DEF live, yes
    <3>6. n \in {2, 3, 26, 27}
      BY <3>3
    <3> HIDE DEF n
    <3> QED
      BY <2>4, <3>2, <3>3, <3>4, <3>5, <3>6, Zenon
  <2>6. CASE Smo!ProveLogout(r)
    <3> DEFINE live == run[r].live \ {"A"}
               pass == "A" \in run[r].live
    <3>0. Smo!Advanced(run[r], pass).live = run[r].live
      <4>1. pass \in BOOLEAN
        OBVIOUS
      <4> HIDE DEF pass
      <4> QED
        BY <2>3, <4>1
    <3>1. Smo!At(r, "logout") /\ Smo!Becomes(r, [Smo!Advanced(run[r], pass) EXCEPT !.live = live])
      BY <2>6, <3>0, Zenon DEF Smo!ProveLogout
    <3>2. n = 26 /\ run[r].result = "running"
      BY <2>1, <3>1
    <3>3. /\ live \in SUBSET Smo!Jars /\ pass \in BOOLEAN
          /\ InStep(r) => pass
      BY <2>2, <3>2 DEF InStep
    <3> HIDE DEF live, pass
    <3> QED
      BY <2>4, <3>1, <3>2, <3>3
  <2>7. CASE Smo!ProveCleared(r)
    <3> DEFINE live == run[r].live \cup {"cleared"}
               yes == TRUE
    <3>1. Smo!At(r, "cleared") /\ Smo!Becomes(r, [Smo!Advanced(run[r], yes) EXCEPT !.live = live])
      BY <2>3, <2>7, Zenon DEF Smo!ProveCleared
    <3>2. n = 27 /\ run[r].result = "running"
      BY <2>1, <3>1
    <3>3. live \in SUBSET Smo!Jars /\ yes \in BOOLEAN /\ yes
      BY <2>2 DEF Smo!Jars
    <3>4. n \in {2, 3, 26, 27} /\ n \notin 2 .. 25
      BY <3>2
    <3> HIDE DEF live, yes, n
    <3> QED
      BY <2>4, <3>1, <3>2, <3>3, <3>4, Zenon
  <2> QED
    BY <2>5, <2>6, <2>7
<1> DEFINE moved == Smo!Advanced(run[r], pass)
           record == [moved EXCEPT !.live = live]
<1>2. /\ moved \in Smo!Run /\ moved.result = run[r].result
      /\ moved.at = n + 1 /\ moved.at \in 2 .. 29
      /\ moved.ok => run[r].ok
      /\ run[r].ok /\ pass => moved.ok
      /\ moved.filed = run[r].filed /\ moved.alone = run[r].alone
  BY <1>1, CaseFacts
<1> HIDE DEF moved
<1>3. /\ record \in Smo!Run /\ record.result = moved.result /\ record.at = moved.at
      /\ record.ok = moved.ok /\ record.filed = moved.filed /\ record.alone = moved.alone
      /\ record.live = live
  BY <1>2 DEF Smo!Run
<1>4. Smo!Becomes(r, record)
  BY <1>1, Zenon DEF moved
<1> HIDE DEF record
<1>5. run'[r] = record
  BY <1>4 DEF Smo!Becomes
<1>6. InStep(r) => InStep(r)'
  BY <1>1, <1>2, <1>3, <1>5 DEF InStep
<1> QED
  BY <1>1, <1>2, <1>3, <1>4, <1>6, ServerIs, CaseDecided

(* The first report: filed by the run, or found on file.                   *)
LEMMA FirstIsFiled ==
  ASSUME SmokeInv, NEW r \in Runs, Smo!FirstReport(r)
  PROVE  SmokeInv'
<1> DEFINE no == FALSE
           first == report = None
<1>1. /\ run[r].result = "running" /\ run[r].at = 7 /\ run[r].at \in 1 .. 28
      /\ UNCHANGED <<epoch, unlocks, messages>> /\ Smo!Counted(r)
      /\ report \in {None, epoch} /\ unlocks \subseteq {Smo!AtoB, Smo!BtoA}
      /\ messages \subseteq Runs /\ spent \in 0 .. 5 /\ spent' \in 0 .. 5
      /\ spent < 5 => spent' = spent + 1
  BY RequestAt, ScriptIs, ServerIs DEF Smo!FirstReport, Smo!Counted, Smo!ReportLimit
<1>2. first \in BOOLEAN /\ no \in BOOLEAN /\ ~ no
  OBVIOUS
<1>3. CASE spent = 5
  <2> DEFINE record == Smo!Advanced(run[r], no)
  <2>1. Smo!Becomes(r, record) /\ UNCHANGED report
    BY <1>3, Zenon DEF Smo!FirstReport, Smo!Case, Smo!ReportLimit
  <2> HIDE DEF no
  <2>2. /\ record \in Smo!Run /\ record.result = "running" /\ record.alone = run[r].alone
        /\ ~ (run[r].ok /\ no) => ~ record.ok
    BY <1>1, <1>2, CaseFacts
  <2> HIDE DEF record
  <2>3. run'[r] = record
    BY <2>1 DEF Smo!Becomes
  <2>4. ~ record.ok /\ ~ run[r].alone
    BY <1>1, <1>2, <1>3, <2>2, SmokeFacts DEF RunOK, InStep
  <2>5. ~ Filed(r)' /\ RunOK(r)'
    BY <2>2, <2>3, <2>4 DEF Filed, RunOK
  <2> QED
    BY <1>1, <2>1, <2>2, <2>5, RunMoves
<1>4. CASE spent # 5
  <2> DEFINE moved == Smo!Advanced(run[r], first)
             record == [moved EXCEPT !.filed = report']
  <2>1. Smo!Becomes(r, record) /\ report' = epoch
    BY <1>1, <1>4, Zenon DEF Smo!FirstReport, Smo!ReportLimit
  <2>2. /\ moved \in Smo!Run /\ moved.result = "running" /\ moved.at = 8
        /\ moved.ok => run[r].ok /\ first
        /\ run[r].ok /\ first => moved.ok
        /\ moved.live = run[r].live /\ moved.alone = run[r].alone
    <3> HIDE DEF first
    <3> QED
      BY <1>1, <1>2, CaseFacts
  <2> HIDE DEF moved
  <2>3. /\ record \in Smo!Run /\ record.result = "running" /\ record.at = 8
        /\ record.ok = moved.ok /\ record.filed = epoch
        /\ record.live = run[r].live /\ record.alone = run[r].alone
    BY <2>1, <2>2, SmokeFacts DEF Smo!Run
  <2> HIDE DEF record
  <2>4. run'[r] = record
    BY <2>1 DEF Smo!Becomes
  <2>5. Filed(r)' => report = None
    BY <2>2, <2>3, <2>4 DEF Filed
  <2>6. run[r].alone => InStep(r)'
    BY <1>1, <1>4, <2>1, <2>2, <2>3, <2>4, SmokeFacts DEF RunOK, InStep
  <2>7. RunOK(r)'
    BY <1>1, <2>1, <2>3, <2>4, <2>6, SmokeFacts DEF RunOK
  <2> QED
    BY <1>1, <2>1, <2>3, <2>5, <2>7, RunMoves
<1> QED
  BY <1>3, <1>4

(* main begins, or is blocked.                                             *)
LEMMA RunBegins ==
  ASSUME SmokeInv, NEW r \in Runs, Smo!Begin(r)
  PROVE  SmokeInv'
<1> DEFINE prepared == /\ report = None /\ unlocks = {} /\ messages = {} /\ spent = 0
                       /\ \A q \in Runs : run[q].result # "running"
<1>1. /\ run[r].result = "idle" /\ UNCHANGED <<epoch, report, unlocks, messages, spent>>
      /\ run[r] \in Smo!Run /\ ~ run[r].alone
  BY SmokeFacts DEF Smo!Begin, Smo!server, RunOK
<1>2. CASE Smo!Becomes(r, [run[r] EXCEPT !.result = "blocked"])
  <2> DEFINE record == [run[r] EXCEPT !.result = "blocked"]
  <2>1. record \in Smo!Run /\ record.result = "blocked" /\ ~ record.alone
    BY <1>1 DEF Smo!Run, Smo!Results
  <2> HIDE DEF record
  <2>2. run'[r] = record /\ Smo!Becomes(r, record)
    BY <1>2 DEF Smo!Becomes, record
  <2>3. ~ Filed(r)' /\ RunOK(r)'
    BY <2>1, <2>2 DEF Filed, RunOK
  <2> QED
    BY <1>1, <2>1, <2>2, <2>3, ServerIs, RunMoves
<1>3. CASE Smo!Becomes(r, [run[r] EXCEPT !.result = "running", !.alone = prepared])
  <2> DEFINE record == [run[r] EXCEPT !.result = "running", !.alone = prepared]
  <2>1. prepared \in BOOLEAN
    OBVIOUS
  <2>2. prepared => report = None /\ unlocks = {} /\ messages = {} /\ spent = 0
    OBVIOUS
  <2> HIDE DEF prepared
  <2>3. /\ record \in Smo!Run /\ record.result = "running" /\ record.at = run[r].at
        /\ (record.ok <=> run[r].ok) /\ (record.alone <=> prepared)
    BY <1>1, <2>1 DEF Smo!Run, Smo!Results
  <2>4. run[r].at = 1 /\ run[r].ok
    BY <1>1, SmokeFacts DEF RunOK
  <2> HIDE DEF record
  <2>5. run'[r] = record /\ Smo!Becomes(r, record)
    BY <1>3 DEF Smo!Becomes, record
  <2>6. ~ Filed(r)'
    BY <2>3, <2>4, <2>5 DEF Filed
  <2>7. ASSUME record.alone PROVE InStep(r)'
    <3>1. report = None /\ unlocks = {} /\ messages = {} /\ spent = 0
      BY <2>2, <2>3, <2>7
    <3> QED
      BY <1>1, <2>3, <2>4, <2>5, <3>1 DEF InStep
  <2>8. RunOK(r)'
    BY <2>3, <2>5, <2>6, <2>7 DEF RunOK
  <2> QED
    BY <1>1, <2>3, <2>5, <2>6, <2>8, ServerIs, RunMoves
<1> QED
  BY <1>2, <1>3 DEF Smo!Begin

(* A run ends, with its verdict or before.                                 *)
LEMMA RunEnds ==
  ASSUME SmokeInv, NEW r \in Runs,
         NEW start \in Smo!Run, NEW result \in {"pass", "fail", "blocked"},
         start.filed = run[r].filed,
         Smo!Becomes(r, Smo!Exited(start, result)),
         result = "pass" => Filed(r),
         result # "pass" => ~ start.alone,
         UNCHANGED <<epoch, Smo!server>>
  PROVE  SmokeInv'
<1> DEFINE record == Smo!Exited(start, result)
<1>1. /\ record \in Smo!Run /\ record.result = result /\ record.filed = run[r].filed
      /\ record.alone = start.alone
  <2>1. 1 \in 1 .. Len(Smo!Script) + 1 /\ result \in Smo!Results
    BY ScriptLength DEF Smo!Results
  <2>2. record = [start EXCEPT !.result = result, !.at = 1, !.ok = TRUE, !.live = {}]
    BY DEF Smo!Exited
  <2> HIDE DEF record
  <2> QED
    BY <2>1, <2>2 DEF Smo!Run
<1> HIDE DEF record
<1>2. run'[r] = record /\ Smo!Becomes(r, record)
  BY DEF Smo!Becomes, record
<1>3. Filed(r)' => Filed(r)
  BY <1>1, <1>2 DEF Filed
<1>4. UNCHANGED <<epoch, report, unlocks, messages, spent>>
  BY DEF Smo!server
<1>5. RunOK(r)'
  BY <1>1, <1>2, <1>3, <1>4, SmokeFacts DEF RunOK
<1> QED
  BY <1>1, <1>2, <1>3, <1>4, <1>5, ServerIs, RunMoves

(* The verdict; a request that fails; the end of the process.              *)
LEMMA RunFails ==
  ASSUME SmokeInv, NEW r \in Runs, Smo!Verdict(r) \/ Smo!Refused(r) \/ Smo!Dies(r)
  PROVE  SmokeInv'
<1> DEFINE shaken == [run[r] EXCEPT !.alone = FALSE]
<1>1. /\ run[r] \in Smo!Run /\ run[r].result = "running"
      /\ UNCHANGED <<epoch, Smo!server>>
  BY SmokeFacts DEF Smo!Verdict, Smo!Refused, Smo!Dies
<1>2. /\ shaken \in Smo!Run /\ shaken.filed = run[r].filed /\ ~ shaken.alone
      /\ shaken.ok = run[r].ok /\ shaken.at = run[r].at /\ shaken.result = "running"
  BY <1>1 DEF Smo!Run
<1> HIDE DEF shaken
<1>3. CASE Smo!Verdict(r)
  <2>1. /\ run[r].at = 29
        /\ Smo!Becomes(r, Smo!Exited(run[r], IF run[r].ok THEN "pass" ELSE "fail"))
    BY <1>3, ScriptLength DEF Smo!Verdict
  <2>2. CASE run[r].ok
    <3>1. Smo!Becomes(r, Smo!Exited(run[r], "pass")) /\ Filed(r)
      BY <1>1, <2>1, <2>2 DEF Filed
    <3> QED
      BY <1>1, <3>1, RunEnds
  <2>3. CASE ~ run[r].ok
    <3>1. Smo!Becomes(r, Smo!Exited(run[r], "fail")) /\ ~ run[r].alone
      BY <1>1, <2>1, <2>3, SmokeFacts DEF RunOK, InStep
    <3> QED
      BY <1>1, <3>1, RunEnds
  <2> QED
    BY <2>2, <2>3
<1>4. CASE Smo!Dies(r)
  <2>1. Smo!Becomes(r, Smo!Exited(shaken, "fail"))
    BY <1>4 DEF Smo!Dies, shaken
  <2> QED
    BY <1>1, <1>2, <2>1, RunEnds
<1>5. CASE Smo!Refused(r)
  <2> DEFINE no == FALSE
             record == [shaken EXCEPT !.at = run[r].at + 1, !.ok = FALSE]
  <2>1. \/ Smo!Becomes(r, Smo!Exited(shaken, "fail"))
        \/ Smo!Becomes(r, Smo!Exited(shaken, "blocked"))
        \/ Smo!Becomes(r, Smo!Advanced(shaken, no))
    BY <1>5, Zenon DEF Smo!Refused, shaken
  <2>2. CASE Smo!Becomes(r, Smo!Advanced(shaken, no))
    <3> DEFINE stopped == Smo!Advanced(shaken, no)
    <3>1. run[r].at \in 1 .. 28
      BY <1>1, <1>5, SmokeFacts, ScriptLength DEF Smo!Refused
    <3>2. stopped.at = run[r].at + 1 /\ run[r].at + 1 \in 1 .. Len(Smo!Script) + 1
      BY <1>2, <3>1, ScriptLength DEF Smo!Advanced, Smo!Run
    <3>3. /\ stopped \in Smo!Run /\ stopped.result = "running" /\ ~ stopped.ok
          /\ ~ stopped.alone
      BY <1>2, <3>2 DEF Smo!Advanced, Smo!Run
    <3> HIDE DEF stopped
    <3>4. run'[r] = stopped /\ Smo!Becomes(r, stopped)
      BY <2>2 DEF Smo!Becomes, stopped
    <3>5. ~ Filed(r)' /\ RunOK(r)'
      BY <3>3, <3>4 DEF Filed, RunOK
    <3> QED
      BY <1>1, <3>3, <3>4, <3>5, ServerIs, RunMoves DEF Smo!server
  <2> QED
    BY <1>1, <1>2, <2>1, <2>2, RunEnds
<1> QED
  BY <1>3, <1>4, <1>5

(* The operator prepares the accounts; an hour passes.                     *)
LEMMA OthersAct ==
  ASSUME SmokeInv, Smo!Prepare \/ Smo!HourPasses
  PROVE  SmokeInv'
<1>1. CASE Smo!Prepare
  <2>1. /\ epoch' = epoch + 1 /\ epoch < MaxEpoch /\ UNCHANGED spent
        /\ report' = None /\ unlocks' = {} /\ messages' = {}
        /\ run' = [q \in Runs |-> [run[q] EXCEPT !.alone = FALSE]]
    BY <1>1 DEF Smo!Prepare, Smo!Disturbed
  <2>2. ASSUME NEW q \in Runs
        PROVE  /\ run'[q] \in Smo!Run
               /\ run'[q].result = run[q].result /\ run'[q].at = run[q].at
               /\ (run'[q].ok <=> run[q].ok) /\ run'[q].filed = run[q].filed
               /\ ~ run'[q].alone
    <3>1. run[q] \in Smo!Run /\ run'[q] = [run[q] EXCEPT !.alone = FALSE]
      BY <2>1, SmokeFacts
    <3> QED
      BY <3>1 DEF Smo!Run
  <2>3. \A q \in Runs : (Filed(q)' <=> Filed(q)) /\ run'[q].filed = run[q].filed
    BY <2>2 DEF Filed
  <2>4. ASSUME NEW q \in Runs PROVE RunOK(q)'
    <3>1. /\ epoch \in Nat /\ epoch' = epoch + 1 /\ RunOK(q)
          /\ run[q].filed \in Nat \cup {None}
      BY <2>1, SmokeFacts
    <3>2. Filed(q)' => run'[q].filed # None /\ run'[q].filed < epoch'
      BY <2>3, <3>1 DEF RunOK
    <3> QED
      BY <2>2, <3>1, <3>2 DEF RunOK
  <2>5. run' \in [Runs -> Smo!Run]
    BY <2>1, <2>2
  <2>6. epoch \in 0 .. MaxEpoch /\ MaxEpoch \in Nat /\ spent \in 0 .. Smo!ReportLimit
    BY TablesAssumption DEF SmokeInv, Smo!TypeOK, Smo!SmokeAssumption
  <2>7. epoch' \in 0 .. MaxEpoch
    BY <2>1, <2>6
  <2>8. Smo!TypeOK'
    BY <2>1, <2>5, <2>6, <2>7 DEF Smo!TypeOK
  <2> QED
    BY <2>1, <2>3, <2>4, <2>8 DEF SmokeInv
<1>2. CASE Smo!HourPasses
  <2>1. /\ \A q \in Runs : run[q].result # "running"
        /\ spent' = 0 /\ UNCHANGED <<epoch, report, unlocks, messages, run>>
    BY <1>2 DEF Smo!HourPasses
  <2>2. ASSUME NEW q \in Runs PROVE RunOK(q)'
    BY <2>1, SmokeFacts DEF RunOK, Filed
  <2> QED
    BY <2>1, <2>2 DEF SmokeInv, Smo!TypeOK, Smo!ReportLimit, Filed
<1> QED
  BY <1>1, <1>2

LEMMA NextSmoke == SmokeInv /\ [Smo!Next]_(Smo!vars) => SmokeInv'
<1> SUFFICES ASSUME SmokeInv, [Smo!Next]_(Smo!vars) PROVE SmokeInv'
  OBVIOUS
<1>1. CASE UNCHANGED Smo!vars
  BY <1>1 DEF Smo!vars, Smo!server, SmokeInv, Smo!TypeOK, RunOK, Filed, InStep
<1> QED
  BY <1>1, RunBegins, ReadsOnly, SessionsChange, ReportsAgain, FirstIsFiled, RowsAreMade,
     RunFails, OthersAct DEF Smo!Next

(* In a behavior that runs Smoke, SmokeInv always holds.                   *)
LEMMA SmokeAlways == TablesSpec => [](focus = "smoke" => SmokeInv)
<1> DEFINE Good == focus = "smoke" => SmokeInv
<1>1. TablesInit => Good
  BY InitSmoke DEF TablesInit
<1>2. Good /\ [TablesNext]_<<focus, vars, slots>> => Good'
  <2> SUFFICES ASSUME Good, [TablesNext]_<<focus, vars, slots>>, focus' = "smoke"
               PROVE  SmokeInv'
    OBVIOUS
  <2>1. focus = "smoke"
    BY DEF TablesNext
  <2>2. Smo!Next \/ UNCHANGED slots
    BY <2>1 DEF TablesNext
  <2>3. UNCHANGED slots => UNCHANGED Smo!vars
    BY DEF slots, Smo!vars, Smo!server
  <2> QED
    BY <2>1, <2>2, <2>3, NextSmoke
<1> HIDE DEF Good
<1>3. TablesSpec => []Good
  BY <1>1, <1>2, PTL DEF TablesSpec
<1> QED
  BY <1>3 DEF Good

(* However many runs overlap or follow each other, at most one passes per  *)
(* preparation of the accounts: the 201 of its first report is given once  *)
(* (duplicate_open_report_is_idempotent).                                  *)
THEOREM OnePasses == TablesSpec => []OnePassPerReset
<1>1. (focus = "smoke" => SmokeInv) => OnePassPerReset
  BY DEF SmokeInv, Filed, OnePassPerReset, Smo!OnePassPerReset
<1> QED
  BY <1>1, SmokeAlways, PTL

(* The script of the smoke is satisfiable in its order: undisturbed, on    *)
(* prepared accounts, every case holds, and the fifth request to           *)
(* /api/reports is never made (authorization-adversarial.ts).              *)
THEOREM SmokePasses == TablesSpec => []UndisturbedSmokePasses
<1>1. (focus = "smoke" => SmokeInv) => UndisturbedSmokePasses
  BY DEF SmokeInv, RunOK, UndisturbedSmokePasses, Smo!UndisturbedSmokePasses
<1> QED
  BY <1>1, SmokeAlways, PTL

(* The types of the four components, for every instance.                   *)
THEOREM TypesCorrect == TablesSpec => []TablesTypeOK
<1>1. TablesInit => Inv
  BY InitInv DEF TablesInit
<1>2. Inv /\ [TablesNext]_<<focus, vars, slots>> => Inv'
  <2> SUFFICES ASSUME Inv, [TablesNext]_<<focus, vars, slots>> PROVE Inv'
    OBVIOUS
  <2>1. [Next]_vars
    BY DEF TablesNext
  <2> QED
    BY <2>1, NextInv
<1>3. TablesSpec => []Inv
  BY <1>1, <1>2, PTL DEF TablesSpec
<1>4. Inv /\ (focus = "reports" => ReportsInv) /\ (focus = "waitlist" => WaitlistInv)
        /\ (focus = "smoke" => SmokeInv) => TablesTypeOK
  BY DEF Inv, ReportsInv, WaitlistInv, SmokeInv, TablesTypeOK
<1> QED
  BY <1>3, <1>4, ReportsAlways, WaitlistAlways, SmokeAlways, PTL
=============================================================================
