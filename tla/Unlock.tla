------------------------------- MODULE Unlock -------------------------------
(***************************************************************************)
(* Unlocking a profile by an answer (submitDbUnlockAnswer) and reading the *)
(* private part of it (getDbPrivateProfile), while members onboard, delete *)
(* their accounts, and operators seed questions.                           *)
(*                                                                         *)
(* Reads before the transaction are single statements.  The transaction    *)
(* inserts the attempt and, when the answer passes, the unlock; the foreign*)
(* keys of the attempt hold off the deletion of both sides until it ends.  *)
(* A statement and the COMMIT that follows it at once are one step where   *)
(* nothing could come between them.                                        *)
(***************************************************************************)
EXTENDS Naturals, FiniteSets

CONSTANTS
  Users,
  Questions,
  Submits,    \* POST /api/answers/unlock; also the attempt row it inserts
  Reads,      \* GET /api/profile/[id]/private
  None

(* What the proofs need of the constants.                                  *)
UnlockAssumption == None \notin Users /\ None \notin Questions

VARIABLES
  member,    \* users and the onboarding state of their profiles
  letters,   \* owners of profile_private rows
  active,    \* rows of questions with active = true
  config,    \* app_config["unlock.active_question_id"]
  attempts,  \* unlock_attempts, by the submission that inserted the row
  unlocks,   \* unlocks: <<viewer, owner of the profile>>
  submit,    \* submissions
  read       \* reads of a private profile

vars == <<member, letters, active, config, attempts, unlocks, submit, read>>

Verdicts == {"PASS", "REVIEW", "REJECT"}

(* Where a transaction is open, with its attempt inserted.                 *)
InTransaction == {"attempted", "inserted", "conflicted"}

(* Answers: an unlock made or found, no unlock, UnlockErrorCode.           *)
Ended == {"unlocked", "idempotent", "evaluated", "refused", "unconfigured",
          "duplicate", "failed"}

Submission ==
  [pc: {"idle", "found", "configured", "asked"} \cup InTransaction \cup Ended,
   viewer: Users \cup {None}, target: Users \cup {None},
   question: Questions \cup {None},
   verdict: Verdicts \cup {None},
   seeded: BOOLEAN,    \* history: a question was configured when it began
   stored: BOOLEAN]    \* history: its transaction has committed

PrivateRead ==
  [pc: {"idle", "located", "authorized", "refused", "missing", "failed",
        "delivered"},
   viewer: Users \cup {None}, target: Users \cup {None}]

Live(u) == member[u] # "deleted"

Pair(s) == <<submit[s].viewer, submit[s].target>>

Sides(s) == {submit[s].viewer, submit[s].target}

(* Mutant: only a transaction that has inserted its unlock holds off the   *)
(* deletion, as if the attempt were written outside of the transaction.    *)
KeySharedByUnlock(u) == \E s \in Submits : submit[s].pc = "inserted" /\ u \in Sides(s)

(* Rows of user u that a foreign key of an open transaction keeps.         *)
KeyShared(u) == \E s \in Submits : submit[s].pc \in InTransaction /\ u \in Sides(s)

(* Types; the unique index admits one uncommitted unlock of a pair, and    *)
(* none of a pair that has one; nothing is stored for an account that is   *)
(* gone, and the sides of an open transaction are not.                     *)
TypeOK ==
  /\ member \in [Users -> {"registered", "onboarded", "deleted"}]
  /\ letters \subseteq {u \in Users : Live(u)}
  /\ active \subseteq Questions
  /\ config \in Questions \cup {None}
  /\ submit \in [Submits -> Submission]
  /\ read \in [Reads -> PrivateRead]
  /\ attempts \subseteq Submits
  /\ unlocks \subseteq {u \in Users : Live(u)} \X {u \in Users : Live(u)}
  /\ \A s \in Submits : submit[s].pc \in InTransaction =>
       Sides(s) \subseteq {u \in Users : Live(u)}
  /\ \A s \in Submits : submit[s].pc = "inserted" =>
       /\ Pair(s) \notin unlocks
       /\ \A q \in Submits : submit[q].pc = "inserted" /\ Pair(q) = Pair(s) => q = s

-----------------------------------------------------------------------------
Init ==
  /\ member = [u \in Users |-> "registered"]
  /\ letters = {} /\ active = {} /\ config = None
  /\ attempts = {} /\ unlocks = {}
  /\ submit = [s \in Submits |->
       [pc |-> "idle", viewer |-> None, target |-> None, question |-> None,
        verdict |-> None, seeded |-> FALSE, stored |-> FALSE]]
  /\ read = [r \in Reads |-> [pc |-> "idle", viewer |-> None, target |-> None]]

(* markProfileOnboarded *)
Onboard(u) ==
  /\ member[u] = "registered"
  /\ member' = [member EXCEPT ![u] = "onboarded"]
  /\ UNCHANGED <<letters, active, config, attempts, unlocks, submit, read>>

(* Deleting an account waits for the rows that open transactions keep, and *)
(* cascades to everything of either side.                                  *)
DeleteUser(u) ==
  /\ Live(u) /\ ~ KeyShared(u)
  /\ member' = [member EXCEPT ![u] = "deleted"]
  /\ letters' = letters \ {u}
  /\ attempts' = {s \in attempts : u \notin Sides(s)}
  /\ unlocks' = {pair \in unlocks : u \notin {pair[1], pair[2]}}
  /\ UNCHANGED <<active, config, submit, read>>

-----------------------------------------------------------------------------
(* seedClosedAlphaDataWithSql: autocommitted statements; a seed that stops *)
(* half-way is run again.  A data set configures its own, active question. *)

SeedQuestion(q) ==
  /\ active' = active \cup {q}
  /\ UNCHANGED <<member, letters, config, attempts, unlocks, submit, read>>

(* Mutant: the configuration is written before the question.               *)
SeedConfigFirst(q) ==
  /\ config' = q
  /\ UNCHANGED <<member, letters, active, attempts, unlocks, submit, read>>

SeedConfig(q) ==
  /\ q \in active
  /\ config' = q
  /\ UNCHANGED <<member, letters, active, attempts, unlocks, submit, read>>

(* enrichOnboardedProfiles is the only writer of profile_private.          *)
SeedLetters ==
  /\ letters' = letters \cup {u \in Users : member[u] = "onboarded"}
  /\ UNCHANGED <<member, active, config, attempts, unlocks, submit, read>>

-----------------------------------------------------------------------------
(* ------------------------ submitDbUnlockAnswer -------------------------- *)

Goto(s, pc) == submit' = [submit EXCEPT ![s].pc = pc]

Stored(s, pc) == submit' = [submit EXCEPT ![s].pc = pc, ![s].stored = TRUE]

(* getTargetProfileForUnlock, and the refusals that need no more.          *)
FindTarget(s, v, t) ==
  /\ submit[s].pc = "idle"
  /\ Live(v)
  /\ submit' = [submit EXCEPT ![s].viewer = v, ![s].target = t,
       ![s].seeded = config # None,
       ![s].pc = IF member[t] = "onboarded" /\ v # t THEN "found" ELSE "refused"]
  /\ UNCHANGED <<member, letters, active, config, attempts, unlocks, read>>

(* getConfiguredUnlockQuestion: the configured id, then its question.      *)
ReadConfig(s) ==
  /\ submit[s].pc = "found"
  /\ submit' = [submit EXCEPT ![s].question = config,
       ![s].pc = IF config = None THEN "unconfigured" ELSE "configured"]
  /\ UNCHANGED <<member, letters, active, config, attempts, unlocks, read>>

ReadQuestion(s) ==
  /\ submit[s].pc = "configured"
  /\ Goto(s, IF submit[s].question \in active THEN "asked" ELSE "unconfigured")
  /\ UNCHANGED <<member, letters, active, config, attempts, unlocks, read>>

(* The evaluation, and the attempt inserted at the start of the            *)
(* transaction: its foreign keys refuse it when a side has left.  Nothing  *)
(* else is stored for an answer that does not pass.                        *)
InsertAttempt(s, verdict) ==
  /\ submit[s].pc = "asked"
  /\ LET gone == \E u \in Sides(s) : ~ Live(u)
         pc   == CASE gone                         -> "failed"
                   [] ~ gone /\ verdict = "PASS"  -> "attempted"
                   [] ~ gone /\ verdict # "PASS"  -> "evaluated"
     IN /\ submit' = [submit EXCEPT ![s].verdict = verdict, ![s].pc = pc,
             ![s].stored = (pc = "evaluated")]
        /\ attempts' = IF pc = "evaluated" THEN attempts \cup {s} ELSE attempts
  /\ UNCHANGED <<member, letters, active, config, unlocks, read>>

(* Another transaction has inserted the unlock and not yet ended.          *)
Contended(s) == \E q \in Submits : submit[q].pc = "inserted" /\ Pair(q) = Pair(s)

(* Mutant: the insert looks at committed unlocks only.                     *)
InsertUnlockAtOnce(s) ==
  /\ submit[s].pc = "attempted"
  /\ Goto(s, IF Pair(s) \in unlocks THEN "conflicted" ELSE "inserted")
  /\ UNCHANGED <<member, letters, active, config, attempts, unlocks, read>>

(* createUnlock: INSERT ... ON CONFLICT DO NOTHING.                        *)
InsertUnlock(s) ==
  /\ submit[s].pc = "attempted"
  /\ ~ Contended(s)
  /\ Goto(s, IF Pair(s) \in unlocks THEN "conflicted" ELSE "inserted")
  /\ UNCHANGED <<member, letters, active, config, attempts, unlocks, read>>

(* The row that was in the way is looked up by a statement of its own.     *)
FindUnlock(s) ==
  /\ submit[s].pc = "conflicted"
  /\ IF Pair(s) \in unlocks
     THEN Stored(s, "idempotent") /\ attempts' = attempts \cup {s}
     ELSE Goto(s, "duplicate") /\ UNCHANGED attempts
  /\ UNCHANGED <<member, letters, active, config, unlocks, read>>

(* Mutant: the attempt is not part of the transaction that commits.        *)
CommitUnlockOnly(s, pc) ==
  /\ submit[s].pc = "inserted"
  /\ pc \in {"unlocked", "failed"}
  /\ Stored(s, pc)
  /\ unlocks' = unlocks \cup {Pair(s)}
  /\ UNCHANGED <<member, letters, active, config, attempts, read>>

(* The commit, acknowledged or with its acknowledgement lost.              *)
Commit(s, pc) ==
  /\ submit[s].pc = "inserted"
  /\ pc \in {"unlocked", "failed"}
  /\ Stored(s, pc)
  /\ attempts' = attempts \cup {s}
  /\ unlocks' = unlocks \cup {Pair(s)}
  /\ UNCHANGED <<member, letters, active, config, read>>

(* A failing statement or a lost connection: UNLOCK_SERVICE_UNAVAILABLE or *)
(* PERSISTENCE_FAILED, and nothing is stored.                              *)
Fail(s) ==
  /\ submit[s].pc \in {"found", "configured", "asked"} \cup InTransaction
  /\ Goto(s, "failed")
  /\ UNCHANGED <<member, letters, active, config, attempts, unlocks, read>>

-----------------------------------------------------------------------------
(* ------------------------- getDbPrivateProfile -------------------------- *)

Unread == <<member, letters, active, config, attempts, unlocks, submit>>

LocateProfile(r, v, t) ==
  /\ read[r].pc = "idle"
  /\ Live(v)
  /\ read' = [read EXCEPT ![r] =
       [pc |-> IF Live(t) THEN "located" ELSE "refused", viewer |-> v, target |-> t]]
  /\ UNCHANGED Unread

(* Mutant: an unlock in either direction authorizes, as for messages.      *)
CheckUnlockEitherWay(r) ==
  /\ read[r].pc = "located"
  /\ LET v == read[r].viewer
         t == read[r].target
     IN  read' = [read EXCEPT ![r].pc =
           IF {<<v, t>>, <<t, v>>} \cap unlocks # {} THEN "authorized" ELSE "refused"]
  /\ UNCHANGED Unread

(* hasUnlock: the unlocks row alone authorizes.                            *)
CheckUnlock(r) ==
  /\ read[r].pc = "located"
  /\ read' = [read EXCEPT ![r].pc =
       IF <<read[r].viewer, read[r].target>> \in unlocks THEN "authorized" ELSE "refused"]
  /\ UNCHANGED Unread

FetchPrivate(r) ==
  /\ read[r].pc = "authorized"
  /\ read' = [read EXCEPT ![r].pc =
       IF read[r].target \in letters THEN "delivered" ELSE "missing"]
  /\ UNCHANGED Unread

(* Each of the three statements may fail.                                  *)
FailRead(r) ==
  /\ read[r].pc \in {"located", "authorized"}
  /\ read' = [read EXCEPT ![r].pc = "failed"]
  /\ UNCHANGED Unread

-----------------------------------------------------------------------------
SubmitStep(s) ==
  \/ ReadConfig(s) \/ ReadQuestion(s)
  \/ \E verdict \in Verdicts : InsertAttempt(s, verdict)
  \/ InsertUnlock(s) \/ FindUnlock(s)
  \/ \E pc \in {"unlocked", "failed"} : Commit(s, pc)
  \/ Fail(s)

Next ==
  \/ \E u \in Users : Onboard(u) \/ DeleteUser(u)
  \/ \E q \in Questions : SeedQuestion(q) \/ SeedConfig(q)
  \/ SeedLetters
  \/ \E s \in Submits, v, t \in Users : FindTarget(s, v, t)
  \/ \E s \in Submits : SubmitStep(s)
  \/ \E r \in Reads, v, t \in Users : LocateProfile(r, v, t)
  \/ \E r \in Reads : CheckUnlock(r) \/ FetchPrivate(r) \/ FailRead(r)

Spec == Init /\ [][Next]_vars

-----------------------------------------------------------------------------
(* The pairs of the passing attempts in the audit trail.                   *)
Passed == {Pair(s) : s \in {a \in attempts : submit[a].verdict = "PASS"}}

(* The audit trail and the unlocks agree: whoever holds an unlock has a    *)
(* passing attempt on record, and every passing attempt on record has its  *)
(* unlock, through failures, lost acknowledgements and deletions; nobody   *)
(* unlocks the own profile (the transaction of submitDbUnlockAnswer).      *)
UnlocksAreEarned ==
  /\ unlocks = Passed
  /\ \A pair \in unlocks : pair[1] # pair[2]

(* Of the submissions of one viewer for one profile at most one is told    *)
(* that it made the unlock (idempotent: !created.inserted).                *)
UnlockedOnce ==
  \A s, q \in Submits :
    submit[s].pc = "unlocked" /\ submit[q].pc = "unlocked" /\ Pair(s) = Pair(q) => s = q

(* The DUPLICATE answer of createUnlock, which fails a passing submission, *)
(* never happens: the row in the way cannot be deleted before it is found. *)
NeverDuplicate == \A s \in Submits : submit[s].pc # "duplicate"

(* The private part of a profile is delivered only to another member whose *)
(* own passing answer to that profile was stored (getDbPrivateProfile).    *)
PrivateIsEarned ==
  \A r \in Reads : read[r].pc = "delivered" =>
    /\ read[r].viewer # read[r].target
    /\ \E s \in Submits :
         /\ submit[s].stored /\ submit[s].verdict = "PASS"
         /\ Pair(s) = <<read[r].viewer, read[r].target>>

(* Once a question has been configured, replacing it by a further seed     *)
(* never makes a submission fail with QUESTION_NOT_CONFIGURED.             *)
QuestionStaysConfigured ==
  \A s \in Submits : submit[s].seeded => submit[s].pc # "unconfigured"
=============================================================================
