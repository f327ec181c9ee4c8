-------------------------- MODULE ConversationProofs --------------------------
(***************************************************************************)
(* The conversation lock, for any number of members and requests.          *)
(***************************************************************************)
EXTENDS Conversation, TLAPS

(* A send that has found no block still holds the pair's lock, and no      *)
(* block of the pair has been stored since.                                *)
CheckedIsUnsevered ==
  \A s \in Sends :
    req[s].pc \in {"unblocked", "allowed"} => ~ Severed(req[s].from, req[s].to)

LockInv == TypeOK /\ CheckedIsUnsevered

LEMMA InitLock == Init => LockInv
  BY ConversationAssumption
     DEF Init, LockInv, TypeOK, CheckedIsUnsevered, Request, Requests, InTransaction

(* Answering a request ends its transaction.                               *)
LEMMA AnswerType ==
  ASSUME TypeOK, NEW r \in Requests, NEW pc \in {"reread", "done", "refused", "failed"},
         Answer(r, pc)
  PROVE  /\ req' \in [Requests -> Request]
         /\ holding' = {q \in Sends \cup Blockings : req'[q].pc \in InTransaction}
         /\ \A p, q \in holding' : LockKey(p)' = LockKey(q)' => p = q
         /\ \A q \in Requests : /\ req'[q].from = req[q].from /\ req'[q].to = req[q].to
                                /\ q # r => req'[q] = req[q]
         /\ req'[r].pc = pc
<1>1. req' \in [Requests -> Request]
  BY DEF Answer, TypeOK, Request
<1>2. \A q \in Requests : /\ req'[q].from = req[q].from /\ req'[q].to = req[q].to
                          /\ q # r => req'[q] = req[q]
  BY DEF Answer, TypeOK, Request
<1>3. req'[r].pc = pc
  BY DEF Answer, TypeOK, Request
<1>4. holding' = {q \in Sends \cup Blockings : req'[q].pc \in InTransaction}
  BY <1>2, <1>3 DEF Answer, TypeOK, InTransaction, Requests
<1>5. \A p, q \in holding' : LockKey(p)' = LockKey(q)' => p = q
  BY <1>2 DEF Answer, TypeOK, LockKey, Requests
<1> QED
  BY <1>1, <1>2, <1>3, <1>4, <1>5

(* Moving a request on inside its transaction, or without one.             *)
LEMMA MoveType ==
  ASSUME TypeOK, NEW r \in Requests, NEW pc \in InTransaction,
         req[r].pc \in InTransaction,
         req' = [req EXCEPT ![r].pc = pc], UNCHANGED holding
  PROVE  /\ req' \in [Requests -> Request]
         /\ holding' = {q \in Sends \cup Blockings : req'[q].pc \in InTransaction}
         /\ \A p, q \in holding' : LockKey(p)' = LockKey(q)' => p = q
         /\ \A q \in Requests : /\ req'[q].from = req[q].from /\ req'[q].to = req[q].to
                                /\ q # r => req'[q] = req[q]
         /\ req'[r].pc = pc
<1>1. req' \in [Requests -> Request]
  BY DEF TypeOK, Request, InTransaction
<1>2. \A q \in Requests : /\ req'[q].from = req[q].from /\ req'[q].to = req[q].to
                          /\ q # r => req'[q] = req[q]
  BY DEF TypeOK, Request
<1>3. req'[r].pc = pc
  BY DEF TypeOK, Request
<1>4. holding' = {q \in Sends \cup Blockings : req'[q].pc \in InTransaction}
  BY <1>2, <1>3 DEF TypeOK, Requests
<1>5. \A p, q \in holding' : LockKey(p)' = LockKey(q)' => p = q
  BY <1>2 DEF TypeOK, LockKey, Requests
<1> QED
  BY <1>1, <1>2, <1>3, <1>4, <1>5

(* A new request has no transaction yet; a listing never has one.          *)
LEMMA StartType ==
  ASSUME TypeOK, NEW r \in Requests, NEW row \in Request,
         req[r].pc = "idle",
         r \in Listings \/ row.pc \notin InTransaction,
         req' = [req EXCEPT ![r] = row], UNCHANGED holding
  PROVE  /\ req' \in [Requests -> Request]
         /\ holding' = {q \in Sends \cup Blockings : req'[q].pc \in InTransaction}
         /\ \A p, q \in holding' : LockKey(p)' = LockKey(q)' => p = q
         /\ \A q \in Requests : q # r => req'[q] = req[q]
         /\ req'[r] = row
<1>1. req' \in [Requests -> Request] /\ req'[r] = row
  BY DEF TypeOK
<1>2. \A q \in Requests : q # r => req'[q] = req[q]
  BY DEF TypeOK
<1>3. r \notin holding /\ (r \in Sends \cup Blockings => row.pc \notin InTransaction)
  BY ConversationAssumption DEF TypeOK, InTransaction
<1>4. holding' = {q \in Sends \cup Blockings : req'[q].pc \in InTransaction}
  BY <1>1, <1>2, <1>3 DEF TypeOK, Requests
<1>5. \A p, q \in holding' : LockKey(p)' = LockKey(q)' => p = q
  <2>1. \A p \in holding' : p \in Requests /\ p # r
    BY <1>3 DEF TypeOK, Requests
  <2> QED
    BY <1>2, <2>1 DEF TypeOK, LockKey
<1> QED
  BY <1>1, <1>2, <1>4, <1>5

LEMMA NextLock == LockInv /\ [Next]_vars => LockInv'
<1> SUFFICES ASSUME LockInv, [Next]_vars
             PROVE  LockInv'
  OBVIOUS
<1>0. TypeOK /\ CheckedIsUnsevered
  BY DEF LockInv
<1>1. ASSUME NEW u \in Users, Onboard(u) \/ DeleteUser(u)
      PROVE  LockInv'
  <2>1. /\ UNCHANGED <<req, holding>>
        /\ unlocked' \subseteq unlocked /\ blocked' \subseteq blocked /\ sent' \subseteq sent
        /\ member' \in [Users -> {"registered", "onboarded", "deleted"}]
    BY <1>0, <1>1 DEF Onboard, DeleteUser, TypeOK
  <2>2. TypeOK'
    BY <1>0, <2>1 DEF TypeOK, LockKey
  <2>3. CheckedIsUnsevered'
    BY <1>0, <2>1 DEF CheckedIsUnsevered, Severed
  <2> QED
    BY <2>2, <2>3 DEF LockInv
<1>2. ASSUME NEW a \in Users, NEW b \in Users, GrantUnlock(a, b)
      PROVE  LockInv'
  BY <1>0, <1>2 DEF GrantUnlock, LockInv, TypeOK, CheckedIsUnsevered, Severed,
     LockKey, InTransaction
<1>3. ASSUME NEW r \in Requests, NEW a \in Users, NEW b \in Users,
             Locate(r, a, b) \/ BeginBlock(r, a, b)
      PROVE  LockInv'
  <2>1. PICK pc \in {"waiting", "located", "refused"} :
          /\ req[r].pc = "idle"
          /\ r \notin Listings => pc # "located"
          /\ r \in Listings => pc # "waiting"
          /\ req' = [req EXCEPT ![r] =
               [pc |-> pc, from |-> a, to |-> b, cut |-> Severed(a, b)]]
          /\ UNCHANGED <<member, unlocked, blocked, sent, holding>>
    BY <1>3, ConversationAssumption DEF Locate, BeginBlock, Requests
  <2> DEFINE row == [pc |-> pc, from |-> a, to |-> b, cut |-> Severed(a, b)]
  <2>2. row \in Request /\ (r \in Listings \/ row.pc \notin InTransaction)
    BY <2>1 DEF Request, InTransaction, Severed
  <2>3. row.pc \notin {"unblocked", "allowed"}
    BY <2>1
  <2>4. req' = [req EXCEPT ![r] = row]
    BY <2>1
  <2> HIDE DEF row
  <2>5. /\ req' \in [Requests -> Request]
        /\ holding' = {q \in Sends \cup Blockings : req'[q].pc \in InTransaction}
        /\ \A p, q \in holding' : LockKey(p)' = LockKey(q)' => p = q
        /\ \A q \in Requests : q # r => req'[q] = req[q]
        /\ req'[r] = row
    BY <1>0, <2>1, <2>2, <2>4, StartType
  <2>6. TypeOK'
    <3>1. row.pc # "idle" /\ row.from = a /\ row.to = b
      BY <2>1 DEF row
    <3>2. r \in Listings => row.pc # "waiting"
      BY <2>1 DEF row
    <3>3. /\ \A q \in Listings : req'[q].pc # "waiting"
          /\ \A q \in Requests :
               req'[q].pc # "idle" => {req'[q].from, req'[q].to} \subseteq Users
      BY <1>0, <2>5, <3>1, <3>2 DEF TypeOK, Requests
    <3> QED
      BY <1>0, <2>1, <2>5, <3>3 DEF TypeOK
  <2>7. CheckedIsUnsevered'
    BY <1>0, <2>1, <2>3, <2>5 DEF CheckedIsUnsevered, Severed, Requests
  <2> QED
    BY <2>6, <2>7 DEF LockInv
<1>4. ASSUME NEW r \in Requests, Acquire(r)
      PROVE  LockInv'
  <2>1. /\ req' = [req EXCEPT ![r].pc = "located"] /\ holding' = holding \cup {r}
        /\ req[r].pc = "waiting" /\ \A q \in holding : LockKey(q) # LockKey(r)
        /\ UNCHANGED <<member, unlocked, blocked, sent>>
    BY <1>4 DEF Acquire
  <2>2. /\ req' \in [Requests -> Request] /\ req'[r].pc = "located"
        /\ \A q \in Requests : /\ req'[q].from = req[q].from /\ req'[q].to = req[q].to
                               /\ q # r => req'[q] = req[q]
    BY <1>0, <2>1 DEF TypeOK, Request
  <2>3. r \in Sends \cup Blockings
    BY <1>0, <2>1 DEF TypeOK, Requests
  <2>4. holding' = {q \in Sends \cup Blockings : req'[q].pc \in InTransaction}
    BY <1>0, <2>1, <2>2, <2>3 DEF TypeOK, InTransaction, Requests
  <2>5. \A p, q \in holding' : LockKey(p)' = LockKey(q)' => p = q
    <3>1. \A q \in Requests : LockKey(q)' = LockKey(q)
      BY <2>2 DEF LockKey
    <3>2. holding' \subseteq Requests
      BY <2>4 DEF Requests
    <3> HIDE DEF LockKey
    <3> QED
      BY <1>0, <2>1, <3>1, <3>2 DEF TypeOK
  <2>6. TypeOK'
    <3>1. /\ \A q \in Listings : req'[q].pc # "waiting"
          /\ \A q \in Requests :
               req'[q].pc # "idle" => {req'[q].from, req'[q].to} \subseteq Users
      BY <1>0, <2>1, <2>2 DEF TypeOK, Requests
    <3> QED
      BY <1>0, <2>1, <2>2, <2>4, <2>5, <3>1 DEF TypeOK
  <2>7. CheckedIsUnsevered'
    BY <1>0, <2>1, <2>2 DEF CheckedIsUnsevered, Severed, Requests
  <2> QED
    BY <2>6, <2>7 DEF LockInv
<1>5. ASSUME NEW r \in Requests, NEW pc \in {"known", "unblocked", "allowed"},
             req[r].pc \in InTransaction,
             req' = [req EXCEPT ![r].pc = pc],
             UNCHANGED <<member, unlocked, blocked, sent, holding>>,
             pc # "known" => \/ ~ Severed(req[r].from, req[r].to)
                             \/ req[r].pc = "unblocked"
      PROVE  LockInv'
  <2>1. pc \in InTransaction
    BY DEF InTransaction
  <2>2. /\ req' \in [Requests -> Request]
        /\ holding' = {q \in Sends \cup Blockings : req'[q].pc \in InTransaction}
        /\ \A p, q \in holding' : LockKey(p)' = LockKey(q)' => p = q
        /\ \A q \in Requests : /\ req'[q].from = req[q].from /\ req'[q].to = req[q].to
                               /\ q # r => req'[q] = req[q]
        /\ req'[r].pc = pc
    BY <1>0, <1>5, <2>1, MoveType
  <2>3. TypeOK'
    <3>1. /\ \A q \in Listings : req'[q].pc # "waiting"
          /\ \A q \in Requests :
               req'[q].pc # "idle" => {req'[q].from, req'[q].to} \subseteq Users
      BY <1>0, <1>5, <2>2 DEF TypeOK, Requests, InTransaction
    <3> QED
      BY <1>0, <1>5, <2>2, <3>1 DEF TypeOK
  <2>4. CheckedIsUnsevered'
    BY <1>0, <1>5, <2>2 DEF CheckedIsUnsevered, Severed, Requests
  <2> QED
    BY <2>3, <2>4 DEF LockInv
<1>6. ASSUME NEW r \in Requests, NEW pc \in {"reread", "done", "refused", "failed"},
             Answer(r, pc), sent' \subseteq Sends,
             UNCHANGED <<member, unlocked>>,
             req[r].pc # "idle",
             \/ blocked' = blocked
             \/ /\ r \in holding /\ r \in Blockings
                /\ blocked' = blocked \cup {<<req[r].from, req[r].to>>}
      PROVE  LockInv'
  <2>1. /\ req' \in [Requests -> Request]
        /\ holding' = {q \in Sends \cup Blockings : req'[q].pc \in InTransaction}
        /\ \A p, q \in holding' : LockKey(p)' = LockKey(q)' => p = q
        /\ \A q \in Requests : /\ req'[q].from = req[q].from /\ req'[q].to = req[q].to
                               /\ q # r => req'[q] = req[q]
        /\ req'[r].pc = pc
    BY <1>0, <1>6, AnswerType
  <2>2. TypeOK'
    <3>1. /\ \A q \in Listings : req'[q].pc # "waiting"
          /\ \A q \in Requests :
               req'[q].pc # "idle" => {req'[q].from, req'[q].to} \subseteq Users
      BY <1>0, <1>6, <2>1 DEF TypeOK, Requests
    <3>2. blocked' \subseteq Users \X Users
      BY <1>0, <1>6 DEF TypeOK
    <3> QED
      BY <1>0, <1>6, <2>1, <3>1, <3>2 DEF TypeOK
  <2>3. ASSUME NEW s \in Sends, req'[s].pc \in {"unblocked", "allowed"}
        PROVE  ~ Severed(req[s].from, req[s].to)'
    <3>1. s # r /\ s \in Requests
      BY <2>1, <2>3 DEF Requests
    <3>2. req'[s] = req[s] /\ ~ Severed(req[s].from, req[s].to)
      BY <1>0, <2>1, <2>3, <3>1 DEF CheckedIsUnsevered
    <3>3. CASE blocked' = blocked
      BY <3>2, <3>3 DEF Severed
    <3>4. CASE /\ r \in holding /\ r \in Blockings
               /\ blocked' = blocked \cup {<<req[r].from, req[r].to>>}
      <4>1. s \in holding
        BY <1>0, <2>3, <3>2 DEF TypeOK, InTransaction
      <4>2. LockKey(s) # LockKey(r)
        BY <1>0, <3>1, <3>4, <4>1 DEF TypeOK
      <4> QED
        BY <3>2, <3>4, <4>2 DEF Severed, LockKey
    <3> QED
      BY <1>6, <3>3, <3>4
  <2>4. CheckedIsUnsevered'
    BY <2>3 DEF CheckedIsUnsevered
  <2> QED
    BY <2>2, <2>4 DEF LockInv
<1>7. ASSUME NEW r \in Requests, ReadViewer(r) \/ ReadBlock(r) \/ ReadUnlock(r)
      PROVE  LockInv'
  BY <1>0, <1>5, <1>6, <1>7 DEF ReadViewer, ReadBlock, ReadUnlock, InTransaction, TypeOK
<1>8. ASSUME NEW r \in Requests,
             InsertMessage(r) \/ FetchMessages(r) \/ RereadBlock(r) \/ Abort(r)
      PROVE  LockInv'
  BY <1>0, <1>6, <1>8 DEF InsertMessage, FetchMessages, RereadBlock, Abort, TypeOK,
     InTransaction
<1>9. ASSUME NEW r \in Requests, InsertBlock(r)
      PROVE  LockInv'
  <2>1. r \in holding /\ r \in Blockings
    BY <1>0, <1>9 DEF InsertBlock, TypeOK, InTransaction
  <2>2. CASE UNCHANGED blocked
    BY <1>0, <1>6, <1>9, <2>2 DEF InsertBlock, TypeOK
  <2>3. CASE /\ Live(req[r].from) /\ Live(req[r].to)
             /\ blocked' = blocked \cup {<<req[r].from, req[r].to>>} /\ Answer(r, "done")
    BY <1>0, <1>6, <1>9, <2>1, <2>3 DEF InsertBlock, TypeOK
  <2> QED
    BY <1>9, <2>2, <2>3 DEF InsertBlock
<1>10. CASE UNCHANGED vars
  BY <1>0, <1>10 DEF vars, LockInv, TypeOK, CheckedIsUnsevered, Severed, LockKey
<1> QED
  BY <1>1, <1>2, <1>3, <1>4, <1>7, <1>8, <1>9, <1>10 DEF Next, RequestStep

(* The lock of a pair has one holder at a time, and exactly the running    *)
(* transactions hold one (lockConversationPair).                           *)
THEOREM TypeCorrect == Spec => []TypeOK
<1>1. Spec => []LockInv
  BY InitLock, NextLock, PTL DEF Spec
<1>2. LockInv => TypeOK
  BY DEF LockInv
<1> QED
  BY <1>1, <1>2, PTL

(* Only InsertMessage stores messages, for a send that holds the lock.     *)
LEMMA StoredUnsevered ==
  ASSUME LockInv, [Next]_vars, NEW s \in Sends, s \notin sent, s \in sent'
  PROVE  ~ Severed(req[s].from, req[s].to)
<1>1. InsertMessage(s)
  <2>1. PICK r \in Requests : InsertMessage(r)
    BY DEF Next, RequestStep, vars, Onboard, DeleteUser, GrantUnlock, Locate, BeginBlock,
       Acquire, ReadViewer, ReadBlock, ReadUnlock, FetchMessages, InsertBlock,
       RereadBlock, Abort
  <2> QED
    BY <2>1 DEF InsertMessage
<1> QED
  BY <1>1 DEF InsertMessage, LockInv, CheckedIsUnsevered

(* Once a block of a pair is stored no message of the pair is ever stored, *)
(* for any number of concurrent sends, blocks and deletions                *)
(* (createMessage, createBlock).                                           *)
THEOREM BlockStopsMessages == Spec => NoMessageAfterBlock
<1>1. Spec => []LockInv
  BY InitLock, NextLock, PTL DEF Spec
<1>2. LockInv /\ [Next]_vars =>
        [\A s \in Sends :
           s \notin sent /\ s \in sent' => ~ Severed(req[s].from, req[s].to)]_vars
  BY StoredUnsevered
<1> QED
  BY <1>1, <1>2, PTL DEF Spec, NoMessageAfterBlock

-----------------------------------------------------------------------------
(* Who may talk to whom, while accounts are deleted without the lock *)

Opened(a, b) == <<a, b>> \in unlocked \/ <<b, a>> \in unlocked

Gone(a, b) == ~ Live(a) \/ ~ Live(b)

(* Deleting an account takes its unlocks along, and none is granted to or  *)
(* for a deleted one.                                                      *)
UnlockedAreLive ==
  \A a, b \in Users : <<a, b>> \in unlocked => Live(a) /\ Live(b)

(* A message row belongs to a request that has ended.                      *)
SentIsDone == \A s \in sent : req[s].pc = "done"

(* An unlock that was found is still there, unless a side has gone.        *)
AllowedIsOpened ==
  \A s \in Sends : req[s].pc = "allowed" =>
    Opened(req[s].from, req[s].to) \/ Gone(req[s].from, req[s].to)

(* A block found by nobody has gone with an account, and then the unlock   *)
(* of the pair has gone too.                                               *)
CutStaysCut ==
  \A r \in Sends \cup Listings : req[r].cut =>
    /\ req[r].pc \notin {"allowed", "done"}
    /\ req[r].pc # "idle" =>
         Severed(req[r].from, req[r].to) \/ Gone(req[r].from, req[r].to)
    /\ req[r].pc = "unblocked" => Gone(req[r].from, req[r].to)

(* Only the request for a block reads a row again.                         *)
RereadIsBlocking == \A r \in Requests : req[r].pc = "reread" => r \in Blockings

PairInv ==
  /\ UnlockedAreLive
  /\ RereadIsBlocking
  /\ SentIsDone
  /\ AllowedIsOpened
  /\ MessagesWereUnlocked
  /\ CutStaysCut

LEMMA InitPair == Init => PairInv
  BY DEF Init, PairInv, UnlockedAreLive, SentIsDone, AllowedIsOpened,
     MessagesWereUnlocked, CutStaysCut, RereadIsBlocking, Requests

(* The step of a request from one place to the next.                       *)
LEMMA MovePair ==
  ASSUME TypeOK, PairInv, NEW r \in Requests,
         NEW pc \in {"located", "known", "unblocked", "allowed",
                     "reread", "done", "refused", "failed"},
         req[r].pc \notin {"idle", "done"},
         req' = [req EXCEPT ![r].pc = pc],
         UNCHANGED <<member, unlocked>>, blocked \subseteq blocked',
         pc = "unblocked" => ~ Severed(req[r].from, req[r].to) /\ blocked' = blocked,
         pc = "allowed" => req[r].pc = "unblocked" /\ Opened(req[r].from, req[r].to),
         pc = "done" => r \in Blockings \/ req[r].pc = "allowed",
         pc = "reread" => r \in Blockings,
         \/ sent' = sent
         \/ /\ sent' = sent \cup {r} /\ r \in Sends /\ pc = "done"
            /\ req[r].pc = "allowed" /\ Live(req[r].from) /\ Live(req[r].to)
  PROVE  PairInv'
<1> USE DEF PairInv
<1>1. /\ req'[r].pc = pc
      /\ \A q \in Requests : /\ req'[q].from = req[q].from /\ req'[q].to = req[q].to
                             /\ req'[q].cut = req[q].cut
                             /\ q # r => req'[q] = req[q]
  BY DEF TypeOK, Request
<1>2. /\ \A q \in Requests : Opened(req[q].from, req[q].to)' <=> Opened(req[q].from, req[q].to)
      /\ \A q \in Requests : Gone(req[q].from, req[q].to)' <=> Gone(req[q].from, req[q].to)
      /\ \A q \in Requests : Severed(req[q].from, req[q].to) => Severed(req[q].from, req[q].to)'
  BY <1>1 DEF Opened, Gone, Live, Severed
<1>3. UnlockedAreLive' /\ RereadIsBlocking'
  BY <1>1 DEF UnlockedAreLive, RereadIsBlocking, Live
<1>4. SentIsDone'
  BY <1>1 DEF SentIsDone, TypeOK, Requests
<1>5. AllowedIsOpened'
  BY <1>1, <1>2 DEF AllowedIsOpened, Requests
<1>6. MessagesWereUnlocked'
  <2>1. MessagesWereUnlocked' <=> \A s \in sent' : /\ ~ Gone(req[s].from, req[s].to)'
                                                  /\ Opened(req[s].from, req[s].to)'
    BY DEF MessagesWereUnlocked, Gone, Opened
  <2>2. \A s \in sent : ~ Gone(req[s].from, req[s].to) /\ Opened(req[s].from, req[s].to)
    BY DEF MessagesWereUnlocked, Gone, Opened
  <2>3. sent \subseteq Requests
    BY DEF TypeOK, Requests
  <2>4. CASE sent' = sent
    BY <1>2, <2>1, <2>2, <2>3, <2>4
  <2>5. CASE /\ sent' = sent \cup {r} /\ r \in Sends /\ req[r].pc = "allowed"
             /\ Live(req[r].from) /\ Live(req[r].to)
    <3>1. ~ Gone(req[r].from, req[r].to) /\ Opened(req[r].from, req[r].to)
      BY <2>5 DEF AllowedIsOpened, Gone
    <3> QED
      BY <1>2, <2>1, <2>2, <2>3, <2>5, <3>1
  <2> QED
    BY <2>4, <2>5
<1>7. CutStaysCut'
  <2> SUFFICES ASSUME NEW q \in Sends \cup Listings, req'[q].cut
               PROVE  /\ req'[q].pc \notin {"allowed", "done"}
                      /\ req'[q].pc # "idle" =>
                           \/ Severed(req[q].from, req[q].to)'
                           \/ Gone(req[q].from, req[q].to)'
                      /\ req'[q].pc = "unblocked" => Gone(req[q].from, req[q].to)'
    BY DEF CutStaysCut
  <2>1. q \in Requests /\ req[q].cut
    BY <1>1 DEF Requests
  <2>2. /\ req[q].pc \notin {"allowed", "done"}
        /\ req[q].pc # "idle" =>
             Severed(req[q].from, req[q].to) \/ Gone(req[q].from, req[q].to)
        /\ req[q].pc = "unblocked" => Gone(req[q].from, req[q].to)
    BY <2>1 DEF CutStaysCut
  <2>3. CASE q # r
    BY <1>1, <1>2, <2>1, <2>2, <2>3
  <2>4. CASE q = r
    <3>1. pc # "done"
      BY <2>2, <2>4, ConversationAssumption
    <3>2. Opened(req[r].from, req[r].to) => ~ Gone(req[r].from, req[r].to)
      BY DEF Opened, Gone, UnlockedAreLive, TypeOK
    <3>3. pc # "allowed"
      BY <2>2, <2>4, <3>2
    <3> QED
      BY <1>1, <1>2, <2>1, <2>2, <2>4, <3>1, <3>3
  <2> QED
    BY <2>3, <2>4
<1> QED
  BY <1>3, <1>4, <1>5, <1>6, <1>7

(* Accounts and unlocks change around the requests.                        *)
LEMMA MemberPair ==
  ASSUME TypeOK, PairInv,
         \/ \E u \in Users : Onboard(u) \/ DeleteUser(u)
         \/ \E a, b \in Users : GrantUnlock(a, b)
  PROVE  PairInv'
<1>1. CASE \/ \E u \in Users : Onboard(u)
           \/ \E a, b \in Users : GrantUnlock(a, b)
  <2>1. /\ UNCHANGED <<req, blocked, sent>> /\ unlocked \subseteq unlocked'
        /\ \A u \in Users : Live(u)' <=> Live(u)
        /\ \A a, b \in Users :
             <<a, b>> \in unlocked' \ unlocked => Live(a) /\ Live(b)
    BY <1>1 DEF Onboard, GrantUnlock, Live, TypeOK
  <2>2. \A r \in Requests : req[r].pc # "idle" => req[r].from \in Users /\ req[r].to \in Users
    BY DEF TypeOK
  <2>3. \A a, b \in Users : /\ Opened(a, b) => Opened(a, b)'
                            /\ Gone(a, b)' <=> Gone(a, b)
                            /\ Severed(a, b)' <=> Severed(a, b)
    BY <2>1 DEF Opened, Gone, Severed
  <2>4. UnlockedAreLive' /\ SentIsDone' /\ RereadIsBlocking'
    BY <2>1 DEF PairInv, UnlockedAreLive, SentIsDone, RereadIsBlocking
  <2>5. AllowedIsOpened'
    BY <2>1, <2>2, <2>3 DEF PairInv, AllowedIsOpened, Requests
  <2>6. MessagesWereUnlocked'
    <3>1. \A s \in sent : req[s].from \in Users /\ req[s].to \in Users
      BY <2>2 DEF PairInv, SentIsDone, TypeOK, Requests
    <3> QED
      BY <2>1, <3>1 DEF PairInv, MessagesWereUnlocked
  <2>7. CutStaysCut'
    BY <2>1, <2>2, <2>3 DEF PairInv, CutStaysCut, Requests
  <2> QED
    BY <2>4, <2>5, <2>6, <2>7 DEF PairInv
<1>2. ASSUME NEW u \in Users, DeleteUser(u)
      PROVE  PairInv'
  <2>1. /\ UNCHANGED req
        /\ unlocked' = unlocked \ Touching(u) /\ blocked' = blocked \ Touching(u)
        /\ sent' = {s \in sent : u \notin {req[s].from, req[s].to}}
        /\ ~ Live(u)' /\ \A v \in Users \ {u} : Live(v)' <=> Live(v)
    BY <1>2 DEF DeleteUser, Live, TypeOK
  <2>2. \A r \in Requests : req[r].pc # "idle" => req[r].from \in Users /\ req[r].to \in Users
    BY DEF TypeOK
  <2>3. \A a, b \in Users : u \in {a, b} <=> <<a, b>> \in Touching(u)
    BY DEF Touching
  <2>4. ASSUME NEW a \in Users, NEW b \in Users
        PROVE  /\ u \in {a, b} => Gone(a, b)'
               /\ u \notin {a, b} => /\ Gone(a, b)' <=> Gone(a, b)
                                     /\ Opened(a, b)' <=> Opened(a, b)
                                     /\ Severed(a, b)' <=> Severed(a, b)
               /\ Gone(a, b) => Gone(a, b)'
    BY <2>1, <2>3 DEF Gone, Opened, Severed
  <2>5. UnlockedAreLive' /\ SentIsDone' /\ RereadIsBlocking'
    BY <2>1, <2>3 DEF PairInv, UnlockedAreLive, SentIsDone, RereadIsBlocking
  <2>6. AllowedIsOpened'
    BY <2>1, <2>2, <2>4 DEF PairInv, AllowedIsOpened, Requests
  <2>7. MessagesWereUnlocked'
    <3>1. \A s \in sent : req[s].from \in Users /\ req[s].to \in Users
      BY <2>2 DEF PairInv, SentIsDone, TypeOK, Requests
    <3> QED
      BY <2>1, <2>3, <3>1 DEF PairInv, MessagesWereUnlocked
  <2>8. CutStaysCut'
    BY <2>1, <2>2, <2>4 DEF PairInv, CutStaysCut, Requests
  <2> QED
    BY <2>5, <2>6, <2>7, <2>8 DEF PairInv
<1> QED
  BY <1>1, <1>2

(* A request begins, and remembers whether a block separated its pair.     *)
LEMMA StartPair ==
  ASSUME TypeOK, PairInv, NEW r \in Requests, NEW a \in Users, NEW b \in Users,
         Locate(r, a, b) \/ BeginBlock(r, a, b)
  PROVE  PairInv'
<1>1. /\ req[r].pc = "idle" /\ UNCHANGED <<member, unlocked, blocked, sent>>
      /\ req'[r].pc \in {"waiting", "located", "refused"}
      /\ req'[r].from = a /\ req'[r].to = b /\ req'[r].cut = Severed(a, b)
      /\ \A q \in Requests : q # r => req'[q] = req[q]
  BY DEF Locate, BeginBlock, TypeOK
<1>2. \A x, y \in Users : /\ Opened(x, y)' <=> Opened(x, y)
                          /\ Gone(x, y)' <=> Gone(x, y)
                          /\ Severed(x, y)' <=> Severed(x, y)
  BY <1>1 DEF Opened, Gone, Severed, Live
<1>3. \A q \in Requests : req'[q].pc # "idle" => req'[q].from \in Users /\ req'[q].to \in Users
  BY <1>1 DEF TypeOK
<1>4. sent \subseteq Requests /\ r \notin sent
  BY <1>1 DEF PairInv, SentIsDone, TypeOK, Requests
<1>5. UnlockedAreLive' /\ SentIsDone' /\ RereadIsBlocking'
  BY <1>1, <1>4 DEF PairInv, UnlockedAreLive, SentIsDone, RereadIsBlocking, Live
<1>6. AllowedIsOpened'
  BY <1>1, <1>2, <1>3 DEF PairInv, AllowedIsOpened, Requests
<1>7. MessagesWereUnlocked'
  BY <1>1, <1>4 DEF PairInv, MessagesWereUnlocked, Live
<1>8. CutStaysCut'
  BY <1>1, <1>2, <1>3 DEF PairInv, CutStaysCut, Requests
<1> QED
  BY <1>5, <1>6, <1>7, <1>8 DEF PairInv

LEMMA NextPair == TypeOK /\ PairInv /\ [Next]_vars => PairInv'
<1> SUFFICES ASSUME TypeOK, PairInv, [Next]_vars
             PROVE  PairInv'
  OBVIOUS
<1>1. CASE \/ \E u \in Users : Onboard(u) \/ DeleteUser(u)
           \/ \E a, b \in Users : GrantUnlock(a, b)
  BY <1>1, MemberPair
<1>2. CASE \E r \in Requests, a, b \in Users : Locate(r, a, b) \/ BeginBlock(r, a, b)
  BY <1>2, StartPair
<1>3. ASSUME NEW r \in Requests, Acquire(r) \/ ReadViewer(r)
      PROVE  PairInv'
  <2>1. PICK pc \in {"located", "known", "refused"} : req' = [req EXCEPT ![r].pc = pc]
    BY <1>3 DEF Acquire, ReadViewer, Answer
  <2>2. /\ req[r].pc \in {"waiting", "located"}
        /\ UNCHANGED <<member, unlocked, blocked, sent>>
    BY <1>3 DEF Acquire, ReadViewer
  <2> QED
    BY <2>1, <2>2, MovePair
<1>4. ASSUME NEW r \in Requests, ReadBlock(r) \/ ReadUnlock(r)
      PROVE  PairInv'
  <2>1. \/ req' = [req EXCEPT ![r].pc = "refused"]
        \/ /\ req' = [req EXCEPT ![r].pc = "unblocked"]
           /\ ~ Severed(req[r].from, req[r].to)
        \/ /\ req' = [req EXCEPT ![r].pc = "allowed"]
           /\ req[r].pc = "unblocked" /\ Opened(req[r].from, req[r].to)
    BY <1>4 DEF ReadBlock, ReadUnlock, Answer, Opened
  <2> QED
    BY <1>4, <2>1, MovePair DEF ReadBlock, ReadUnlock
<1>5. ASSUME NEW r \in Requests, InsertMessage(r)
      PROVE  PairInv'
  <2>1. \/ /\ Live(req[r].from) /\ Live(req[r].to)
           /\ sent' = sent \cup {r} /\ req' = [req EXCEPT ![r].pc = "done"]
        \/ sent' = sent /\ req' = [req EXCEPT ![r].pc = "failed"]
    BY <1>5 DEF InsertMessage, Answer
  <2> QED
    BY <1>5, <2>1, MovePair DEF InsertMessage
<1>6. ASSUME NEW r \in Requests, FetchMessages(r)
      PROVE  PairInv'
  <2>1. /\ req' = [req EXCEPT ![r].pc = "done"] /\ req[r].pc = "allowed"
        /\ UNCHANGED <<member, unlocked>> /\ sent' = sent /\ blocked \subseteq blocked'
    BY <1>6 DEF FetchMessages, Answer
  <2> QED
    BY <2>1, MovePair
<1>7. ASSUME NEW r \in Requests, InsertBlock(r) \/ RereadBlock(r)
      PROVE  PairInv'
  <2>1. /\ UNCHANGED <<member, unlocked, sent>> /\ blocked \subseteq blocked'
        /\ req[r].pc \in {"located", "reread"}
        /\ \E pc \in {"done", "reread", "failed"} : req' = [req EXCEPT ![r].pc = pc]
    BY <1>7 DEF InsertBlock, RereadBlock, Answer
  <2>2. r \in Blockings
    BY <1>7 DEF InsertBlock, RereadBlock, PairInv, RereadIsBlocking
  <2> QED
    BY <2>1, <2>2, MovePair
<1>8. ASSUME NEW r \in Requests, Abort(r)
      PROVE  PairInv'
  BY <1>8, MovePair DEF Abort, Answer, InTransaction
<1>9. CASE UNCHANGED vars
  BY <1>9 DEF vars, PairInv, UnlockedAreLive, SentIsDone, RereadIsBlocking, AllowedIsOpened,
     MessagesWereUnlocked, CutStaysCut, Opened, Gone, Severed, Live
<1> QED
  BY <1>1, <1>2, <1>3, <1>4, <1>5, <1>6, <1>7, <1>8, <1>9 DEF Next, RequestStep

LEMMA PairsHold == Spec => [](TypeOK /\ PairInv)
  BY TypeCorrect, InitPair, NextPair, PTL DEF Spec

(* Stored messages connect two live members with an unlock between them,   *)
(* although deletion takes no lock and may come between any two statements *)
(* of createMessage.                                                       *)
THEOREM MessagesUnlocked == Spec => []MessagesWereUnlocked
<1>1. PairInv => MessagesWereUnlocked
  BY DEF PairInv
<1> QED
  BY <1>1, PairsHold, PTL

(* A send or a listing that starts when the pair is separated is never     *)
(* served: where a block has gone meanwhile, so has the unlock             *)
(* (authorizeConversation).                                                *)
THEOREM BlockShutsOut == Spec => []BlockShutsBothOut
<1>1. PairInv => BlockShutsBothOut
  BY DEF PairInv, CutStaysCut, BlockShutsBothOut
<1> QED
  BY <1>1, PairsHold, PTL
=============================================================================
