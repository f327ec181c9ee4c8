----------------------------- MODULE RateLimit -----------------------------
(***************************************************************************)
(* consumeRateLimit: one statement that counts a request in the row of its *)
(* subject and deletes the rows of all subjects that have been quiet for   *)
(* the retention time.                                                     *)
(*                                                                         *)
(* A server stamps a request with its own clock before it sends the        *)
(* statement.  The statement locks the row it counts in, then the stale    *)
(* rows one by one, and commits; two statements may wait for each other's  *)
(* rows, and one of them is aborted.  A statement's own row is not pruned  *)
(* by it: a row changed earlier in the same statement is skipped.          *)
(***************************************************************************)
EXTENDS Integers

CONSTANTS
  Keys,       \* a scope together with a subject: the key of one row
  Policy,     \* RATE_LIMIT_POLICIES: the limit and the window of a key
  Requests,
  Servers,
  Skew,       \* how far the clock of a server is ahead
  Retention,  \* two days: how long a quiet row is kept
  Second,     \* 1000 ms: Retry-After counts seconds
  MaxDelay,   \* a statement commits within this time of its stamp
  MaxTime,    \* bound: the clock stops here
  MaxCount,   \* bound: a row that has counted this far is not asked again
  None

ASSUME RateLimitAssumption ==
  /\ Policy \in [Keys -> [limit : Nat \ {0}, window : Nat \ {0}]]
  /\ Skew \in [Servers -> Nat]
  /\ Retention \in Nat /\ MaxDelay \in Nat /\ Second \in Nat \ {0}
  /\ MaxTime \in Nat /\ MaxCount \in Nat
  /\ None \notin Requests \cup Keys \cup Servers

(* What makes the retention long enough: a row that one server may prune   *)
(* has a window that is over for every statement still to come.            *)
ASSUME RetentionAssumption ==
  \A k \in Keys, s \in Servers : Policy[k].window + Skew[s] + MaxDelay <= Retention

VARIABLES
  now,
  rows,      \* rate_limits, as committed
  lockedBy,  \* the statement that holds a key
  req,       \* requests being limited
  opened,    \* history: when the latest window of a key began
  admitted,  \* history: requests admitted in it
  promise    \* history: Retry-After given for a key by a server in it

vars == <<now, rows, lockedBy, req, opened, admitted, promise>>

Row == [count : Nat, last : Int]

NoRow == [count |-> 0, last |-> 0]

Request ==
  [pc : {"idle", "stamped", "counted"},
   key : Keys \cup {None}, server : Servers \cup {None},
   stamp : Nat,           \* nowMs
   row : Row,             \* what its statement has written, uncommitted
   pruned : SUBSET Keys]  \* stale rows its statement has deleted, uncommitted

Idle ==
  [pc |-> "idle", key |-> None, server |-> None, stamp |-> 0, row |-> NoRow,
   pruned |-> {}]

(* Types; a statement holds exactly the rows it has written.               *)
TypeOK ==
  /\ now \in 0 .. MaxTime
  /\ rows \in [Keys -> Row]
  /\ lockedBy \in [Keys -> Requests \cup {None}]
  /\ req \in [Requests -> Request]
  /\ opened \in [Keys -> Int]
  /\ admitted \in [Keys -> Nat]
  /\ promise \in [Keys -> [Servers -> Nat]]
  /\ \A k \in Keys, r \in Requests :
       lockedBy[k] = r <=>
         req[r].pc = "counted" /\ k \in {req[r].key} \cup req[r].pruned

Clock(s) == now + Skew[s]

Times == UNION {Skew[s] .. MaxTime + Skew[s] : s \in Servers}

(* Mutant: whole seconds only, and possibly none.                          *)
RetryAfterTruncated(last, window, at) == (last + window - at) \div Second

(* retryAfterSeconds: at least a second, rounded up.                       *)
RetryAfterSeconds(last, window, at) ==
  LET left == last + window - at
      rounded == (left + Second - 1) \div Second
  IN  IF rounded < 1 THEN 1 ELSE rounded

(* The upsert: a new window, or one more request in the current one.       *)
Counted(row, window, at) ==
  IF row = NoRow \/ at - row.last >= window
  THEN [count |-> 1, last |-> at]
  ELSE [row EXCEPT !.count = @ + 1]

(* Mutant: rows are kept for less than the longest window.                 *)
StaleTooEarly(r, k) ==
  k # req[r].key /\ rows[k] # NoRow /\ rows[k].last < req[r].stamp - Retention \div 4

(* The rows of others that the statement of r deletes.                     *)
Stale(r, k) ==
  k # req[r].key /\ rows[k] # NoRow /\ rows[k].last < req[r].stamp - Retention

Init ==
  /\ now = 0
  /\ rows = [k \in Keys |-> NoRow]
  /\ lockedBy = [k \in Keys |-> None]
  /\ req = [r \in Requests |-> Idle]
  /\ opened = [k \in Keys |-> -Policy[k].window]
  /\ admitted = [k \in Keys |-> 0]
  /\ promise = [k \in Keys |-> [s \in Servers |-> 0]]

Tick ==
  /\ now < MaxTime
  /\ \A r \in Requests : req[r].pc # "idle" =>
                            Clock(req[r].server) < req[r].stamp + MaxDelay
  /\ now' = now + 1
  /\ UNCHANGED <<rows, lockedBy, req, opened, admitted, promise>>

(* A route asks for a subject; the server reads its clock.                 *)
Consume(r, k, s) ==
  /\ req[r].pc = "idle"
  /\ rows[k].count < MaxCount
  /\ req' = [req EXCEPT ![r] =
               [pc |-> "stamped", key |-> k, server |-> s, stamp |-> Clock(s),
                row |-> NoRow, pruned |-> {}]]
  /\ UNCHANGED <<now, rows, lockedBy, opened, admitted, promise>>

(* Mutant: the row is read and written without waiting for its lock.       *)
UpsertAtOnce(r) ==
  LET k == req[r].key IN
  /\ req[r].pc = "stamped"
  /\ req' = [req EXCEPT ![r].pc = "counted",
                        ![r].row = Counted(rows[k], Policy[k].window, req[r].stamp)]
  /\ lockedBy' = [lockedBy EXCEPT ![k] = r]
  /\ UNCHANGED <<now, rows, opened, admitted, promise>>

(* The INSERT ... ON CONFLICT part of the statement, once the key is free. *)
Upsert(r) ==
  LET k == req[r].key IN
  /\ req[r].pc = "stamped"
  /\ lockedBy[k] = None
  /\ req' = [req EXCEPT ![r].pc = "counted",
                        ![r].row = Counted(rows[k], Policy[k].window, req[r].stamp)]
  /\ lockedBy' = [lockedBy EXCEPT ![k] = r]
  /\ UNCHANGED <<now, rows, opened, admitted, promise>>

(* The DELETE part of the statement takes the next stale row.              *)
Prune(r, k) ==
  /\ req[r].pc = "counted"
  /\ Stale(r, k)
  /\ lockedBy[k] = None
  /\ req' = [req EXCEPT ![r].pruned = @ \cup {k}]
  /\ lockedBy' = [lockedBy EXCEPT ![k] = r]
  /\ UNCHANGED <<now, rows, opened, admitted, promise>>

Released(r) == [k \in Keys |-> IF lockedBy[k] = r THEN None ELSE lockedBy[k]]

(* Mutant: one request too many.                                           *)
DecisionOffByOne(row, limit) == IF row.count <= limit + 1 THEN "allowed" ELSE "refused"

(* The decision for a committed count.                                     *)
Decision(row, limit) == IF row.count <= limit THEN "allowed" ELSE "refused"

(* The statement commits.  Its answer may be lost on the way: the route    *)
(* then fails closed although the request has been counted.                *)
Commit(r, lost) ==
  LET k == req[r].key
      row == req[r].row
      policy == Policy[k]
      reply == IF lost THEN "unavailable" ELSE Decision(row, policy.limit)
      opens == row.count = 1
  IN
  /\ req[r].pc = "counted"
  /\ \A j \in Keys : Stale(r, j) => lockedBy[j] = r
  /\ rows' = [j \in Keys |-> IF j = k THEN row
                             ELSE IF j \in req[r].pruned THEN NoRow ELSE rows[j]]
  /\ lockedBy' = Released(r)
  /\ req' = [req EXCEPT ![r] = Idle]
  /\ opened' = IF opens THEN [opened EXCEPT ![k] = row.last] ELSE opened
  /\ admitted' = [admitted EXCEPT ![k] =
                    (IF opens THEN 0 ELSE @) + (IF reply = "allowed" THEN 1 ELSE 0)]
  /\ promise' = [promise EXCEPT ![k] =
                   CASE opens -> [s \in Servers |-> 0]
                     [] reply = "refused" ->
                          [@ EXCEPT ![req[r].server] =
                             req[r].stamp
                               + Second * RetryAfterSeconds(row.last, policy.window,
                                                            req[r].stamp)]
                     [] OTHER -> @]
  /\ UNCHANGED now

(* The statement fails, is aborted to break a deadlock, meets the primary  *)
(* key of a row inserted at the same time (only the key column is its      *)
(* conflict target), or never starts: RateLimitUnavailableError.           *)
Fail(r) ==
  /\ req[r].pc # "idle"
  /\ req' = [req EXCEPT ![r] = Idle]
  /\ lockedBy' = Released(r)
  /\ UNCHANGED <<now, rows, opened, admitted, promise>>

Next ==
  \/ Tick
  \/ \E r \in Requests :
       \/ \E k \in Keys, s \in Servers : Consume(r, k, s)
       \/ Upsert(r)
       \/ \E k \in Keys : Prune(r, k)
       \/ \E lost \in BOOLEAN : Commit(r, lost)
       \/ Fail(r)

Spec == Init /\ [][Next]_vars

(* Windows of a subject do not overlap, whichever server's clock opened    *)
(* them and whoever pruned the row in between, and each admits at most the *)
(* limit of its scope (consumeRateLimit).                                  *)
Quota == INSTANCE RateQuota WITH Times <- Times
ImplementsRateQuota == Quota!Spec

(* A caller that has waited for the Retry-After a server gave it is not    *)
(* refused by that server again, unless a new window has begun: hammering  *)
(* meanwhile does not extend the wait (retryAfterSeconds, consumeRateLimit)*)
RetryAfterIsEnough ==
  \A r \in Requests :
    LET until == promise[req[r].key][req[r].server] IN
    req[r].pc = "counted" /\ until > 0 /\ req[r].stamp >= until =>
      req[r].row.count <= Policy[req[r].key].limit
=============================================================================
