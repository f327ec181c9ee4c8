----------------------------- MODULE Onboarding -----------------------------
(***************************************************************************)
(* saveOnboardingAnswer: one member submits the onboarding form, perhaps   *)
(* several times at once (double clicks, two tabs, retries after an error).*)
(* The repository uses no transaction: every statement commits by itself,  *)
(* so requests interleave between statements and a failed statement leaves *)
(* everything before it in place.                                          *)
(***************************************************************************)
EXTENDS Naturals, FiniteSets

CONSTANTS
  Requests,  \* submissions, each with a nickname and an answer of its own
  None,
  Faulty     \* TRUE when a statement may fail

(* What the proofs need of the constants.                                  *)
OnboardingAssumption == None \notin Requests /\ Faulty \in BOOLEAN

VARIABLES
  gone,        \* the member has deleted the account
  nickname,    \* profiles.nickname, by the request that set it
  onboarded,   \* profiles.onboarded_at is set
  answer,      \* the answers row, by the request whose text it holds
  evaluation,  \* the depth_evaluations row, by the request whose text was judged
  req,
  failed       \* history: some statement has failed

vars == <<gone, nickname, onboarded, answer, evaluation, req, failed>>

Running == {"describing", "locating", "inserting", "rechecking",
            "checking", "evaluating", "marking"}

Ended == {"created", "duplicate", "setup_required", "db_error", "thrown"}

Request ==
  [pc: {"idle"} \cup Running \cup Ended,
   existing: BOOLEAN,  \* completing an answer row found in the database
   alone: BOOLEAN]     \* history: ran undisturbed by faults, requests, deletion

(* Types; an evaluation never outlives its answer, and nothing is stored   *)
(* for an account that is gone.                                            *)
TypeOK ==
  /\ gone \in BOOLEAN
  /\ nickname \in Requests \cup {None}
  /\ onboarded \in BOOLEAN
  /\ answer \in Requests \cup {None}
  /\ evaluation \in Requests \cup {None}
  /\ req \in [Requests -> Request]
  /\ failed \in BOOLEAN
  /\ evaluation # None => answer # None
  /\ gone => nickname = None /\ answer = None /\ ~ onboarded

InFlight == {r \in Requests : req[r].pc \in Running}

-----------------------------------------------------------------------------
(* The authenticated member has a profile: getAuthenticatedUser makes one. *)
Init ==
  /\ gone = FALSE
  /\ nickname = None /\ onboarded = FALSE
  /\ answer = None /\ evaluation = None
  /\ req = [r \in Requests |-> [pc |-> "idle", existing |-> FALSE, alone |-> TRUE]]
  /\ failed = FALSE

Goto(r, pc) ==
  /\ req' = [req EXCEPT ![r].pc = pc]
  /\ UNCHANGED failed

(* A statement of r raised: insertDepthEvaluation and the inner catch turn *)
(* it into a result, but completeExistingOnboardingAnswer is returned      *)
(* without await, so that what it raises escapes the outer catch.          *)
Raised(r) == IF req[r].existing THEN "thrown" ELSE "db_error"

(* findExistingOnboardingAnswer, the first statement of a request.         *)
Find(r) ==
  /\ req[r].pc = "idle"
  /\ ~ gone
  /\ req' = [q \in Requests |->
       IF q = r
       THEN [pc |-> "describing", existing |-> answer # None, alone |-> InFlight = {}]
       ELSE [req[q] EXCEPT !.alone = @ /\ q \notin InFlight]]
  /\ UNCHANGED <<gone, nickname, onboarded, answer, evaluation, failed>>

(* upsertProfileMetadata: the profile of a deleted account can be neither  *)
(* updated nor inserted again.                                             *)
Describe(r) ==
  /\ req[r].pc = "describing"
  /\ IF gone
     THEN Goto(r, Raised(r)) /\ UNCHANGED nickname
     ELSE /\ Goto(r, IF req[r].existing THEN "checking" ELSE "locating")
          /\ nickname' = r
  /\ UNCHANGED <<gone, onboarded, answer, evaluation>>

(* getProfileIdForUser *)
LocateProfile(r) ==
  /\ req[r].pc = "locating"
  /\ Goto(r, IF gone THEN "setup_required" ELSE "inserting")
  /\ UNCHANGED <<gone, nickname, onboarded, answer, evaluation>>

(* The insert of the answer row.  On a violated constraint the handler     *)
(* reads error.code, where the driver's SQLSTATE may or may not be: the    *)
(* query builder wraps it in error.cause.                                  *)
InsertAnswer(r) ==
  /\ req[r].pc = "inserting"
  /\ \/ /\ ~ gone /\ answer = None
        /\ answer' = r
        /\ Goto(r, "evaluating")
     \/ /\ ~ gone /\ answer # None
        /\ Goto(r, "rechecking") \/ Goto(r, "db_error")
        /\ UNCHANGED answer
     \/ /\ gone
        /\ Goto(r, "setup_required") \/ Goto(r, "db_error")
        /\ UNCHANGED answer
  /\ UNCHANGED <<gone, nickname, onboarded, evaluation>>

(* After a recognized unique violation: complete the row that won.         *)
Recheck(r) ==
  /\ req[r].pc = "rechecking"
  /\ IF answer # None
     THEN /\ req' = [req EXCEPT ![r] = [@ EXCEPT !.pc = "describing", !.existing = TRUE]]
          /\ UNCHANGED failed
     ELSE Goto(r, "db_error")
  /\ UNCHANGED <<gone, nickname, onboarded, answer, evaluation>>

(* Mutant: an answer found in the database is taken to be complete.        *)
AssumeEvaluated(r) ==
  /\ req[r].pc = "checking"
  /\ Goto(r, "marking")
  /\ UNCHANGED <<gone, nickname, onboarded, answer, evaluation>>

(* Mutant: an incomplete answer is refused rather than completed.          *)
RefuseIncomplete(r) ==
  /\ req[r].pc = "checking"
  /\ Goto(r, IF evaluation # None THEN "marking" ELSE "setup_required")
  /\ UNCHANGED <<gone, nickname, onboarded, answer, evaluation>>

(* hasDepthEvaluation, when completing an existing answer.                 *)
CheckEvaluation(r) ==
  /\ req[r].pc = "checking"
  /\ Goto(r, IF evaluation # None THEN "marking" ELSE "evaluating")
  /\ UNCHANGED <<gone, nickname, onboarded, answer, evaluation>>

(* Mutant: the evaluation row has no foreign keys.                         *)
EvaluateUnchecked(r) ==
  /\ req[r].pc = "evaluating"
  /\ IF evaluation = None
     THEN evaluation' = r /\ Goto(r, "marking")
     ELSE Goto(r, "db_error") /\ UNCHANGED evaluation
  /\ UNCHANGED <<gone, nickname, onboarded, answer>>

(* insertDepthEvaluation: one evaluation per answer row, which must exist. *)
Evaluate(r) ==
  /\ req[r].pc = "evaluating"
  /\ IF evaluation = None /\ answer # None
     THEN evaluation' = r /\ Goto(r, "marking")
     ELSE Goto(r, "db_error") /\ UNCHANGED evaluation
  /\ UNCHANGED <<gone, nickname, onboarded, answer>>

Succeeded(r) == IF req[r].existing THEN "duplicate" ELSE "created"

(* Mutant: completing an existing answer forgets to mark the profile.      *)
MarkFreshOnly(r) ==
  /\ req[r].pc = "marking"
  /\ IF gone
     THEN Goto(r, "setup_required") /\ UNCHANGED <<nickname, onboarded>>
     ELSE /\ Goto(r, Succeeded(r))
          /\ nickname' = r
          /\ onboarded' = (onboarded \/ ~ req[r].existing)
  /\ UNCHANGED <<gone, answer, evaluation>>

(* markProfileOnboarded; canMarkProfileOnboarded holds by now.             *)
Mark(r) ==
  /\ req[r].pc = "marking"
  /\ IF gone
     THEN Goto(r, "setup_required") /\ UNCHANGED <<nickname, onboarded>>
     ELSE Goto(r, Succeeded(r)) /\ nickname' = r /\ onboarded' = TRUE
  /\ UNCHANGED <<gone, answer, evaluation>>

(* A statement fails: the request ends where it is.                        *)
StatementFails(r) ==
  /\ Faulty
  /\ req[r].pc \in Running
  /\ req' = [req EXCEPT ![r] =
       [@ EXCEPT !.pc = IF @ = "evaluating" THEN "db_error" ELSE Raised(r),
                 !.alone = FALSE]]
  /\ failed' = TRUE
  /\ UNCHANGED <<gone, nickname, onboarded, answer, evaluation>>

(* The member deletes the account: profile, answer and evaluation cascade. *)
DeleteAccount ==
  /\ ~ gone
  /\ gone' = TRUE
  /\ nickname' = None /\ onboarded' = FALSE
  /\ answer' = None /\ evaluation' = None
  /\ req' = [r \in Requests |-> [req[r] EXCEPT !.alone = FALSE]]
  /\ UNCHANGED failed

-----------------------------------------------------------------------------
RequestStep(r) ==
  \/ Describe(r)
  \/ LocateProfile(r)
  \/ InsertAnswer(r)
  \/ Recheck(r)
  \/ CheckEvaluation(r)
  \/ Evaluate(r)
  \/ Mark(r)

Next ==
  \/ \E r \in Requests : Find(r) \/ RequestStep(r) \/ StatementFails(r)
  \/ DeleteAccount

Spec == Init /\ [][Next]_vars

-----------------------------------------------------------------------------
(* Properties *)

(* A profile is onboarded only when the answer and its evaluation are both *)
(* stored, and a successful response means that it is: for any mix of      *)
(* double submissions and of statements failing half-way                   *)
(* (canMarkProfileOnboarded).                                              *)
OnboardedIsComplete ==
  /\ onboarded => answer # None /\ evaluation # None
  /\ ~ gone /\ (\E r \in Requests : req[r].pc \in {"created", "duplicate"}) => onboarded

(* Whatever earlier requests left behind when they failed, a submission    *)
(* that runs undisturbed succeeds: there is no partial state from which    *)
(* the member cannot retry.                                                *)
UndisturbedRetrySucceeds ==
  \A r \in Requests :
    req[r].alone /\ req[r].pc \in Ended => req[r].pc \in {"created", "duplicate"}

(* When no statement fails, however many submissions race (for the answer  *)
(* row, or for its evaluation), one of them completes the onboarding.      *)
SomebodyCompletes ==
  /\ InFlight = {} /\ \E r \in Requests : req[r].pc # "idle"
  /\ ~ failed /\ ~ gone
  => onboarded

(* A submission that loses the race for the answer row is reconciled with  *)
(* the row that won it.                                                    *)
LoserIsReconciled ==
  [][\A r \in Requests :
       /\ req[r].pc = "inserting" /\ req'[r].pc # "inserting"
       /\ ~ gone /\ answer # None
       => req'[r].pc = "rechecking"]_vars
=============================================================================
