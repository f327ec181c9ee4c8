---------------------------- MODULE Conversation ----------------------------
(***************************************************************************)
(* Messages and blocks between two members.  createMessage and createBlock *)
(* are transactions that first take a transaction-scoped advisory lock on  *)
(* the unordered pair of users; listConversation authorizes and reads      *)
(* without one; account deletion takes none and cascades.                  *)
(*                                                                         *)
(* Every SELECT is a step (READ COMMITTED: each sees what is committed by  *)
(* then).  An INSERT is one step with the COMMIT that follows it at once:  *)
(* its foreign keys hold off the deletion of either user until then.       *)
(***************************************************************************)
EXTENDS Naturals, FiniteSets

CONSTANTS
  Users,
  Sends,      \* POST /api/messages/[profileId]; also the row it inserts
  Blockings,  \* calls of createBlock
  Listings,   \* GET /api/messages/[profileId]
  None

Requests == Sends \cup Blockings \cup Listings

ASSUME ConversationAssumption ==
  /\ Sends \cap Blockings = {} /\ Sends \cap Listings = {}
  /\ Blockings \cap Listings = {}
  /\ None \notin Users

VARIABLES
  member,    \* users and the onboarding state of their profiles
  unlocked,  \* unlocks: <<viewer, owner of the profile>>
  blocked,   \* blocks: <<blocker, blocked>>
  sent,      \* messages, by the request that inserted the row
  holding,   \* transactions that hold the advisory lock of their pair
  req        \* requests

vars == <<member, unlocked, blocked, sent, holding, req>>

Request ==
  [pc: {"idle", "waiting", "located", "known", "unblocked", "allowed",
        "reread", "done", "refused", "failed"},
   from: Users \cup {None}, to: Users \cup {None},
   cut: BOOLEAN]   \* history: a block already separated the pair at the start

Live(u) == member[u] # "deleted"

Severed(a, b) == <<a, b>> \in blocked \/ <<b, a>> \in blocked

(* Mutant: the lock key is built from the ordered pair.                    *)
DirectedKey(r) == <<req[r].from, req[r].to>>

(* lockConversationPair sorts the two ids: the key is the unordered pair.  *)
LockKey(r) == {req[r].from, req[r].to}

(* A transaction's steps between taking the lock and its end.              *)
InTransaction == {"located", "known", "unblocked", "allowed"}

(* Types; a transaction holds the lock for exactly as long as it runs, and *)
(* no two hold the lock of one pair.                                       *)
TypeOK ==
  /\ member \in [Users -> {"registered", "onboarded", "deleted"}]
  /\ unlocked \subseteq Users \X Users
  /\ blocked \subseteq Users \X Users
  /\ sent \subseteq Sends
  /\ holding = {r \in Sends \cup Blockings : req[r].pc \in InTransaction}
  /\ req \in [Requests -> Request]
  /\ \A q, r \in holding : LockKey(q) = LockKey(r) => q = r
  /\ \A r \in Listings : req[r].pc # "waiting"
  /\ \A r \in Requests : req[r].pc # "idle" => {req[r].from, req[r].to} \subseteq Users

-----------------------------------------------------------------------------
Init ==
  /\ member = [u \in Users |-> "registered"]
  /\ unlocked = {} /\ blocked = {} /\ sent = {} /\ holding = {}
  /\ req = [r \in Requests |->
       [pc |-> "idle", from |-> None, to |-> None, cut |-> FALSE]]

(* markProfileOnboarded *)
Onboard(u) ==
  /\ member[u] = "registered"
  /\ member' = [member EXCEPT ![u] = "onboarded"]
  /\ UNCHANGED <<unlocked, blocked, sent, holding, req>>

(* A passing answer: the unlock row, once per viewer and profile.  The     *)
(* target was onboarded; the viewer only has to exist.                     *)
GrantUnlock(a, b) ==
  /\ a # b /\ Live(a) /\ member[b] = "onboarded"
  /\ unlocked' = unlocked \cup {<<a, b>>}
  /\ UNCHANGED <<member, blocked, sent, holding, req>>

Touching(u) == {pair \in Users \X Users : u \in {pair[1], pair[2]}}

(* Deleting an account cascades to its unlocks, blocks and messages, as    *)
(* either side of them.                                                    *)
DeleteUser(u) ==
  /\ Live(u)
  /\ member' = [member EXCEPT ![u] = "deleted"]
  /\ unlocked' = unlocked \ Touching(u)
  /\ blocked' = blocked \ Touching(u)
  /\ sent' = {s \in sent : u \notin {req[s].from, req[s].to}}
  /\ UNCHANGED <<holding, req>>

-----------------------------------------------------------------------------
(* ---------------------- authorizeConversation --------------------------- *)

(* The answer ends the transaction, and with it the lock.                  *)
Answer(r, pc) ==
  /\ req' = [req EXCEPT ![r].pc = pc]
  /\ holding' = holding \ {r}

(* The target's profile is read before any lock is taken.                  *)
Locate(r, a, b) ==
  /\ r \in Sends \cup Listings
  /\ req[r].pc = "idle"
  /\ Live(a)
  /\ LET found == member[b] = "onboarded" /\ a # b
         next  == IF r \in Sends THEN "waiting" ELSE "located"
     IN  req' = [req EXCEPT ![r] =
           [pc |-> IF found THEN next ELSE "refused", from |-> a, to |-> b,
            cut |-> Severed(a, b)]]
  /\ UNCHANGED <<member, unlocked, blocked, sent, holding>>

(* lockConversationPair: pg_advisory_xact_lock waits while it is held.     *)
Acquire(r) ==
  /\ req[r].pc = "waiting"
  /\ \A q \in holding : LockKey(q) # LockKey(r)
  /\ req' = [req EXCEPT ![r].pc = "located"]
  /\ holding' = holding \cup {r}
  /\ UNCHANGED <<member, unlocked, blocked, sent>>

ReadViewer(r) ==
  /\ r \in Sends \cup Listings
  /\ req[r].pc = "located"
  /\ IF member[req[r].from] = "onboarded"
     THEN req' = [req EXCEPT ![r].pc = "known"] /\ UNCHANGED holding
     ELSE Answer(r, "refused")
  /\ UNCHANGED <<member, unlocked, blocked, sent>>

(* Mutant: only the blocks the viewer made are looked up.                  *)
ReadOwnBlock(r) ==
  /\ req[r].pc = "known"
  /\ IF <<req[r].from, req[r].to>> \notin blocked
     THEN req' = [req EXCEPT ![r].pc = "unblocked"] /\ UNCHANGED holding
     ELSE Answer(r, "refused")
  /\ UNCHANGED <<member, unlocked, blocked, sent>>

(* Mutant: a refusal leaves the lock with the connection.                  *)
ReadBlockKeepingLock(r) ==
  /\ req[r].pc = "known"
  /\ req' = [req EXCEPT ![r].pc =
               IF Severed(req[r].from, req[r].to) THEN "refused" ELSE "unblocked"]
  /\ UNCHANGED <<member, unlocked, blocked, sent, holding>>

ReadBlock(r) ==
  /\ req[r].pc = "known"
  /\ IF ~ Severed(req[r].from, req[r].to)
     THEN req' = [req EXCEPT ![r].pc = "unblocked"] /\ UNCHANGED holding
     ELSE Answer(r, "refused")
  /\ UNCHANGED <<member, unlocked, blocked, sent>>

(* An unlock in either direction opens the conversation to both.           *)
ReadUnlock(r) ==
  /\ req[r].pc = "unblocked"
  /\ IF <<req[r].from, req[r].to>> \in unlocked \/ <<req[r].to, req[r].from>> \in unlocked
     THEN req' = [req EXCEPT ![r].pc = "allowed"] /\ UNCHANGED holding
     ELSE Answer(r, "refused")
  /\ UNCHANGED <<member, unlocked, blocked, sent>>

(* ------------------- createMessage, listConversation -------------------- *)

(* Mutant: the message row has no foreign keys.                            *)
InsertMessageUnchecked(r) ==
  /\ r \in Sends
  /\ req[r].pc = "allowed"
  /\ sent' = sent \cup {r} /\ Answer(r, "done")
  /\ UNCHANGED <<member, unlocked, blocked>>

(* The foreign keys turn the insert away when a side has gone.             *)
InsertMessage(r) ==
  /\ r \in Sends
  /\ req[r].pc = "allowed"
  /\ IF Live(req[r].from) /\ Live(req[r].to)
     THEN sent' = sent \cup {r} /\ Answer(r, "done")
     ELSE Answer(r, "failed") /\ UNCHANGED sent
  /\ UNCHANGED <<member, unlocked, blocked>>

(* The listing is read after its authorization, without a lock.            *)
FetchMessages(r) ==
  /\ r \in Listings
  /\ req[r].pc = "allowed"
  /\ Answer(r, "done")
  /\ UNCHANGED <<member, unlocked, blocked, sent>>

(* ----------------------------- createBlock ------------------------------ *)

BeginBlock(r, a, b) ==
  /\ r \in Blockings
  /\ req[r].pc = "idle"
  /\ Live(a)
  /\ req' = [req EXCEPT ![r] =
       [pc |-> IF a = b THEN "refused" ELSE "waiting", from |-> a, to |-> b,
        cut |-> Severed(a, b)]]
  /\ UNCHANGED <<member, unlocked, blocked, sent, holding>>

(* A duplicate or a dangling user aborts the transaction.                  *)
InsertBlock(r) ==
  /\ r \in Blockings
  /\ req[r].pc = "located"
  /\ LET row == <<req[r].from, req[r].to>>
     IN  IF Live(req[r].from) /\ Live(req[r].to) /\ row \notin blocked
         THEN blocked' = blocked \cup {row} /\ Answer(r, "done")
         ELSE /\ Answer(r, IF row \in blocked THEN "reread" ELSE "failed")
              /\ UNCHANGED blocked
  /\ UNCHANGED <<member, unlocked, sent>>

(* After a unique violation the existing row answers the request.          *)
RereadBlock(r) ==
  /\ req[r].pc = "reread"
  /\ Answer(r, IF <<req[r].from, req[r].to>> \in blocked THEN "done" ELSE "failed")
  /\ UNCHANGED <<member, unlocked, blocked, sent>>

(* A lost connection rolls the transaction back and frees its lock.        *)
Abort(r) ==
  /\ req[r].pc \in InTransaction \cup {"waiting", "reread"}
  /\ Answer(r, "failed")
  /\ UNCHANGED <<member, unlocked, blocked, sent>>

-----------------------------------------------------------------------------
RequestStep(r) ==
  \/ Acquire(r)
  \/ ReadViewer(r)
  \/ ReadBlock(r)
  \/ ReadUnlock(r)
  \/ InsertMessage(r)
  \/ FetchMessages(r)
  \/ InsertBlock(r)
  \/ RereadBlock(r)

Next ==
  \/ \E u \in Users : Onboard(u) \/ DeleteUser(u)
  \/ \E a, b \in Users : GrantUnlock(a, b)
  \/ \E r \in Requests, a, b \in Users : Locate(r, a, b) \/ BeginBlock(r, a, b)
  \/ \E r \in Requests : RequestStep(r) \/ Abort(r)

Spec == Init /\ [][Next]_vars

(* The server keeps serving a request it has begun, and PostgreSQL hands a *)
(* released advisory lock to a waiter.                                     *)
FairSpec == Spec /\ WF_vars(\E r \in Requests : RequestStep(r))

-----------------------------------------------------------------------------
(* Properties *)

(* No message is stored once a block, by either side, has been stored:     *)
(* the block check and the insert cannot straddle a createBlock of the     *)
(* same pair (the conversation lock).                                      *)
NoMessageAfterBlock ==
  [][\A s \in Sends :
       s \notin sent /\ s \in sent' => ~ Severed(req[s].from, req[s].to)]_vars

(* A request that starts when a block already separates the pair is never  *)
(* served, whichever side made the block and even if an account of the     *)
(* pair is deleted while the request is being authorized.                  *)
BlockShutsBothOut ==
  \A r \in Sends \cup Listings : req[r].cut => req[r].pc \notin {"allowed", "done"}

(* Stored messages always connect two live members one of whom has         *)
(* unlocked the other, although authorization and insert are separate      *)
(* steps and deletion takes no lock.                                       *)
MessagesWereUnlocked ==
  \A s \in sent :
    /\ Live(req[s].from) /\ Live(req[s].to)
    /\ \/ <<req[s].from, req[s].to>> \in unlocked
       \/ <<req[s].to, req[s].from>> \in unlocked

(* Whoever waits for a pair's lock is answered in the end, whatever becomes*)
(* of the transactions before it.                                          *)
WaiterIsAnswered ==
  <>[](\A r \in Sends \cup Blockings : req[r].pc # "waiting")
=============================================================================
