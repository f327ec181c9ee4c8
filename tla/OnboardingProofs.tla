-------------------------- MODULE OnboardingProofs --------------------------
(***************************************************************************)
(* The onboarding gate, for any number of racing and failing submissions.  *)
(***************************************************************************)
EXTENDS Onboarding, TLAPS

(* What a submission knows of the rows when it gets this far: rows only go *)
(* away with the account.                                                  *)
RowsSeen ==
  \A r \in Requests :
    ~ gone =>
      /\ req[r].pc = "checking" => answer # None
      /\ req[r].pc = "marking" => answer # None /\ evaluation # None
      /\ req[r].pc = "describing" /\ req[r].existing => answer # None

GateInv == OnboardingAssumption /\ TypeOK /\ RowsSeen /\ OnboardedIsComplete

LEMMA InitGate == OnboardingAssumption /\ Init => GateInv
<1> SUFFICES ASSUME OnboardingAssumption, Init
             PROVE  GateInv
  OBVIOUS
<1>1. \A r \in Requests : req[r].pc = "idle"
  BY DEF Init
<1>2. req \in [Requests -> Request]
  BY DEF Init, Request
<1>3. TypeOK
  BY <1>2 DEF Init, TypeOK
<1> QED
  BY <1>1, <1>3 DEF Init, GateInv, RowsSeen, OnboardedIsComplete

(* Moving one request on changes nothing about the others.                 *)
LEMMA GotoFrame ==
  ASSUME TypeOK, NEW r \in Requests, NEW pc \in Running \cup Ended, Goto(r, pc)
  PROVE  /\ req' \in [Requests -> Request]
         /\ req'[r].pc = pc /\ req'[r].existing = req[r].existing
         /\ failed' = failed
         /\ \A q \in Requests : q # r => req'[q] = req[q]
  BY DEF Goto, TypeOK, Request

LEMMA NextGate == GateInv /\ [Next]_vars => GateInv'
<1> SUFFICES ASSUME GateInv, [Next]_vars
             PROVE  GateInv'
  OBVIOUS
<1>0. OnboardingAssumption /\ TypeOK /\ RowsSeen /\ OnboardedIsComplete
  BY DEF GateInv
<1>1. ASSUME NEW r \in Requests,
             NEW pc \in {"setup_required", "db_error", "thrown", "locating",
                        "inserting", "rechecking", "evaluating"},
             Goto(r, pc),
             UNCHANGED <<gone, onboarded, evaluation>>,
             nickname' \in Requests \cup {None}, nickname' # nickname => ~ gone,
             answer' = answer \/ (answer = None /\ ~ gone /\ answer' \in Requests)
      PROVE  GateInv'
  <2>1. /\ req' \in [Requests -> Request] /\ req'[r].pc = pc /\ failed' = failed
        /\ \A q \in Requests : q # r => req'[q] = req[q]
    <3>1. pc \in Running \cup Ended
      BY DEF Running, Ended
    <3> QED
      BY <1>0, <1>1, <3>1, GotoFrame
  <2>2. TypeOK'
    BY <1>0, <1>1, <2>1 DEF OnboardingAssumption, TypeOK
  <2>3. RowsSeen' /\ OnboardedIsComplete'
    BY <1>0, <1>1, <2>1 DEF OnboardingAssumption, RowsSeen, OnboardedIsComplete
  <2> QED
    BY <2>2, <2>3 DEF GateInv
<1>2. ASSUME NEW r \in Requests, NEW pc \in {"marking", "checking"}, Goto(r, pc),
             UNCHANGED <<gone, onboarded, answer>>,
             nickname' \in Requests \cup {None}, nickname' # nickname => ~ gone,
             evaluation' = evaluation \/ (answer # None /\ evaluation' \in Requests),
             ~ gone => answer # None,
             ~ gone /\ pc = "marking" => evaluation' # None
      PROVE  GateInv'
  <2>1. /\ req' \in [Requests -> Request] /\ req'[r].pc = pc /\ failed' = failed
        /\ \A q \in Requests : q # r => req'[q] = req[q]
    <3>1. pc \in Running \cup Ended
      BY DEF Running
    <3> QED
      BY <1>0, <1>2, <3>1, GotoFrame
  <2>2. TypeOK'
    BY <1>0, <1>2, <2>1 DEF OnboardingAssumption, TypeOK
  <2>3. RowsSeen' /\ OnboardedIsComplete'
    BY <1>0, <1>2, <2>1 DEF OnboardingAssumption, RowsSeen, OnboardedIsComplete
  <2> QED
    BY <2>2, <2>3 DEF GateInv
<1>3. ASSUME NEW r \in Requests, Find(r)
      PROVE  GateInv'
  <2>1. req' \in [Requests -> Request]
    BY <1>0, <1>3 DEF Find, TypeOK, Request, Running
  <2>2. /\ req'[r].pc = "describing" /\ (req'[r].existing => answer # None)
        /\ \A q \in Requests : q # r =>
             req'[q].pc = req[q].pc /\ req'[q].existing = req[q].existing
    BY <1>0, <1>3 DEF Find, TypeOK, Request
  <2> QED
    BY <1>0, <1>3, <2>1, <2>2 DEF Find, GateInv, TypeOK, RowsSeen, OnboardedIsComplete
<1>4. ASSUME NEW r \in Requests, LocateProfile(r) \/ InsertAnswer(r)
      PROVE  GateInv'
  <2>1. PICK pc \in {"setup_required", "db_error", "inserting", "rechecking", "evaluating"} :
          /\ Goto(r, pc)
          /\ answer' = answer \/ (answer = None /\ ~ gone /\ answer' \in Requests)
    BY <1>4 DEF LocateProfile, InsertAnswer
  <2>2. UNCHANGED <<gone, onboarded, evaluation, nickname>>
    BY <1>4 DEF LocateProfile, InsertAnswer
  <2> QED
    BY <1>0, <1>1, <2>1, <2>2 DEF TypeOK
<1>5. ASSUME NEW r \in Requests, Describe(r)
      PROVE  GateInv'
  <2>1. CASE gone
    <3>1. PICK pc \in {"db_error", "thrown"} : Goto(r, pc)
      BY <1>5, <2>1 DEF Describe, Raised
    <3>2. UNCHANGED <<gone, onboarded, answer, evaluation, nickname>>
      BY <1>5, <2>1 DEF Describe
    <3> QED
      BY <1>0, <1>1, <3>1, <3>2 DEF TypeOK
  <2>2. CASE ~ gone /\ req[r].existing
    <3>1. /\ Goto(r, "checking") /\ nickname' = r /\ answer # None
          /\ UNCHANGED <<gone, onboarded, answer, evaluation>>
      BY <1>0, <1>5, <2>2 DEF Describe, RowsSeen
    <3> QED
      BY <1>2, <2>2, <3>1
  <2>3. CASE ~ gone /\ ~ req[r].existing
    <3>1. /\ Goto(r, "locating") /\ nickname' = r
          /\ UNCHANGED <<gone, onboarded, answer, evaluation>>
      BY <1>5, <2>3 DEF Describe
    <3> QED
      BY <1>1, <2>3, <3>1
  <2> QED
    BY <2>1, <2>2, <2>3
<1>6. ASSUME NEW r \in Requests, CheckEvaluation(r)
      PROVE  GateInv'
  <2>1. CASE evaluation # None
    BY <1>0, <1>2, <1>6, <2>1 DEF CheckEvaluation, TypeOK, RowsSeen
  <2>2. CASE evaluation = None
    <3>1. /\ Goto(r, "evaluating")
          /\ UNCHANGED <<gone, nickname, onboarded, answer, evaluation>>
      BY <1>6, <2>2 DEF CheckEvaluation
    <3> QED
      BY <1>0, <1>1, <3>1 DEF TypeOK
  <2> QED
    BY <2>1, <2>2
<1>7. ASSUME NEW r \in Requests, Evaluate(r)
      PROVE  GateInv'
  <2>1. CASE evaluation = None /\ answer # None
    BY <1>0, <1>2, <1>7, <2>1 DEF OnboardingAssumption, Evaluate, TypeOK
  <2>2. CASE ~ (evaluation = None /\ answer # None)
    <3>1. /\ Goto(r, "db_error")
          /\ UNCHANGED <<gone, nickname, onboarded, answer, evaluation>>
      BY <1>7, <2>2 DEF Evaluate
    <3> QED
      BY <1>0, <1>1, <3>1 DEF TypeOK
  <2> QED
    BY <2>1, <2>2
<1>8. ASSUME NEW r \in Requests, Recheck(r)
      PROVE  GateInv'
  <2>1. CASE answer # None
    <3>1. /\ req' = [req EXCEPT ![r] = [@ EXCEPT !.pc = "describing", !.existing = TRUE]]
          /\ UNCHANGED <<gone, nickname, onboarded, answer, evaluation, failed>>
      BY <1>8, <2>1 DEF Recheck
    <3>2. [req[r] EXCEPT !.pc = "describing", !.existing = TRUE] \in Request
      BY <1>0 DEF TypeOK, Request, Running
    <3>3. /\ req' \in [Requests -> Request] /\ req'[r].pc = "describing"
          /\ \A q \in Requests : q # r => req'[q] = req[q]
      BY <1>0, <3>1, <3>2 DEF TypeOK, Request
    <3> QED
      BY <1>0, <2>1, <3>1, <3>3 DEF GateInv, TypeOK, RowsSeen, OnboardedIsComplete
  <2>2. CASE answer = None
    <3>1. /\ Goto(r, "db_error")
          /\ UNCHANGED <<gone, nickname, onboarded, answer, evaluation>>
      BY <1>8, <2>2 DEF Recheck
    <3> QED
      BY <1>0, <1>1, <3>1 DEF TypeOK
  <2> QED
    BY <2>1, <2>2
<1>9. ASSUME NEW r \in Requests, Mark(r)
      PROVE  GateInv'
  <2>1. CASE gone
    <3>1. /\ Goto(r, "setup_required")
          /\ UNCHANGED <<gone, nickname, onboarded, answer, evaluation>>
      BY <1>9, <2>1 DEF Mark
    <3> QED
      BY <1>0, <1>1, <3>1 DEF TypeOK
  <2>2. CASE ~ gone
    <3>1. /\ Goto(r, Succeeded(r)) /\ nickname' = r /\ onboarded' = TRUE
          /\ UNCHANGED <<gone, answer, evaluation>> /\ req[r].pc = "marking"
      BY <1>9, <2>2 DEF Mark
    <3>2. /\ req' \in [Requests -> Request] /\ failed' = failed
          /\ req'[r].pc \in {"created", "duplicate"}
          /\ \A q \in Requests : q # r => req'[q] = req[q]
      BY <1>0, <3>1, GotoFrame DEF Succeeded, Ended
    <3> QED
      BY <1>0, <2>2, <3>1, <3>2 DEF GateInv, TypeOK, RowsSeen, OnboardedIsComplete
  <2> QED
    BY <2>1, <2>2
<1>10. ASSUME NEW r \in Requests, StatementFails(r)
       PROVE  GateInv'
  <2>1. PICK pc \in {"db_error", "thrown"} :
          failed' = TRUE /\
          req' = [req EXCEPT ![r] = [@ EXCEPT !.pc = pc, !.alone = FALSE]]
    BY <1>10 DEF StatementFails, Raised
  <2>2. [req[r] EXCEPT !.pc = pc, !.alone = FALSE] \in Request
    BY <1>0 DEF TypeOK, Request, Ended
  <2>3. /\ req' \in [Requests -> Request] /\ req'[r].pc = pc
        /\ \A q \in Requests : q # r => req'[q] = req[q]
    BY <1>0, <2>1, <2>2 DEF TypeOK, Request
  <2> QED
    BY <1>0, <1>10, <2>3 DEF StatementFails, GateInv, TypeOK, RowsSeen, OnboardedIsComplete
<1>11. CASE DeleteAccount
  BY <1>0, <1>11 DEF DeleteAccount, GateInv, TypeOK, Request, RowsSeen, OnboardedIsComplete
<1>12. CASE UNCHANGED vars
  BY <1>0, <1>12 DEF vars, GateInv, TypeOK, RowsSeen, OnboardedIsComplete
<1> QED
  BY <1>3, <1>4, <1>5, <1>6, <1>7, <1>8, <1>9, <1>10, <1>11, <1>12 DEF Next, RequestStep

(* Onboarded means complete, and a successful answer means onboarded, for  *)
(* any number of racing, failing and retried submissions                   *)
(* (canMarkProfileOnboarded, saveOnboardingAnswer).                        *)
THEOREM GateHolds ==
  ASSUME OnboardingAssumption PROVE Spec => []OnboardedIsComplete
<1>1. Spec => []GateInv
  BY InitGate, NextGate, PTL DEF Spec
<1>2. GateInv => OnboardedIsComplete
  BY DEF GateInv
<1> QED
  BY <1>1, <1>2, PTL

-----------------------------------------------------------------------------
(* A submission that runs undisturbed succeeds.                            *)

(* An undisturbed submission has the rows to itself: what it found when it *)
(* began is still what is there.                                           *)
Undisturbed(r) ==
  req[r].alone =>
    /\ req[r].pc \in Running =>
         ~ gone /\ \A q \in Requests : q # r => req[q].pc \notin Running
    /\ req[r].pc # "rechecking"
    /\ req[r].pc = "describing" => (req[r].existing <=> answer # None)
    /\ req[r].pc \in {"locating", "inserting"} => answer = None
    /\ req[r].pc = "evaluating" => answer # None /\ evaluation = None
    /\ req[r].pc \in Ended => req[r].pc \in {"created", "duplicate"}

(* A step is taken by a submission in flight, for itself.                  *)
LEMMA StepFrame ==
  ASSUME GateInv, NEW r \in Requests, RequestStep(r)
  PROVE  /\ req[r].pc \in Running
         /\ req'[r].alone = req[r].alone
         /\ \A q \in Requests : q # r => req'[q] = req[q]
         /\ UNCHANGED <<gone, failed>>
<1>1. req \in [Requests -> Request] /\ req[r] \in Request
  BY DEF GateInv, TypeOK
<1>2. UNCHANGED gone
  BY DEF RequestStep, Describe, LocateProfile, InsertAnswer, Recheck, CheckEvaluation,
         Evaluate, Mark
<1>3. req[r].pc \in Running
  BY DEF RequestStep, Describe, LocateProfile, InsertAnswer, Recheck, CheckEvaluation,
         Evaluate, Mark, Running
<1>4. \/ \E pc \in Running \cup Ended : Goto(r, pc)
      \/ /\ req' = [req EXCEPT ![r] = [@ EXCEPT !.pc = "describing", !.existing = TRUE]]
         /\ UNCHANGED failed
  BY DEF RequestStep, Describe, LocateProfile, InsertAnswer, Recheck, CheckEvaluation,
         Evaluate, Mark, Running, Ended, Raised, Succeeded
<1>5. CASE \E pc \in Running \cup Ended : Goto(r, pc)
  BY <1>1, <1>2, <1>3, <1>5 DEF Goto, Request
<1>6. CASE /\ req' = [req EXCEPT ![r] = [@ EXCEPT !.pc = "describing", !.existing = TRUE]]
           /\ UNCHANGED failed
  BY <1>1, <1>2, <1>3, <1>6 DEF Request
<1> QED
  BY <1>4, <1>5, <1>6

(* The submission that takes the step.                                     *)
LEMMA StepUndisturbed ==
  ASSUME GateInv, NEW r \in Requests, Undisturbed(r), RequestStep(r)
  PROVE  Undisturbed(r)'
<1> SUFFICES ASSUME req[r].alone
             PROVE  Undisturbed(r)'
  BY StepFrame DEF Undisturbed
<1>1. /\ TypeOK /\ RowsSeen /\ req \in [Requests -> Request] /\ req[r] \in Request
      /\ OnboardingAssumption
  BY DEF GateInv, TypeOK
<1>2. /\ req[r].pc \in Running /\ ~ gone /\ ~ gone'
      /\ \A q \in Requests : q # r => req'[q].pc \notin Running
  BY StepFrame DEF Undisturbed
<1>3. CASE Describe(r)
  <2>1. req'[r].pc = (IF req[r].existing THEN "checking" ELSE "locating")
    BY <1>1, <1>2, <1>3 DEF Describe, Goto, Request
  <2>2. UNCHANGED answer /\ (req[r].existing <=> answer # None)
    BY <1>3 DEF Describe, Undisturbed
  <2> QED
    BY <1>2, <2>1, <2>2 DEF Undisturbed, Ended
<1>4. CASE LocateProfile(r)
  <2>1. req'[r].pc = "inserting" /\ UNCHANGED answer /\ answer = None
    BY <1>1, <1>2, <1>4 DEF LocateProfile, Goto, Request, Undisturbed
  <2> QED
    BY <1>2, <2>1 DEF Undisturbed, Ended
<1>5. CASE InsertAnswer(r)
  <2>1. answer = None
    BY <1>5 DEF InsertAnswer, Undisturbed
  <2>2. evaluation = None
    BY <1>1, <2>1 DEF TypeOK
  <2>3. /\ req'[r].pc = "evaluating" /\ answer' = r
        /\ UNCHANGED evaluation
    BY <1>1, <1>2, <1>5, <2>1 DEF InsertAnswer, Goto, Request
  <2> QED
    BY <1>1, <1>2, <2>2, <2>3 DEF Undisturbed, Ended, OnboardingAssumption
<1>6. CASE CheckEvaluation(r)
  <2>1. answer # None /\ UNCHANGED <<answer, evaluation>>
    BY <1>1, <1>2, <1>6 DEF CheckEvaluation, RowsSeen
  <2>2. req'[r].pc = (IF evaluation # None THEN "marking" ELSE "evaluating")
    BY <1>1, <1>6 DEF CheckEvaluation, Goto, Request
  <2> QED
    BY <1>2, <2>1, <2>2 DEF Undisturbed, Ended
<1>7. CASE Evaluate(r)
  <2>1. req'[r].pc = "marking"
    BY <1>1, <1>7 DEF Evaluate, Goto, Request, Undisturbed
  <2> QED
    BY <1>2, <2>1 DEF Undisturbed, Ended
<1>8. CASE Mark(r)
  <2>1. req'[r].pc \in {"created", "duplicate"}
    BY <1>1, <1>2, <1>8 DEF Mark, Goto, Request, Succeeded
  <2> QED
    BY <1>2, <2>1 DEF Undisturbed, Running
<1>9. CASE Recheck(r)
  BY <1>9 DEF Recheck, Undisturbed
<1> QED
  BY <1>3, <1>4, <1>5, <1>6, <1>7, <1>8, <1>9 DEF RequestStep

LEMMA NextUndisturbed ==
  GateInv /\ (\A r \in Requests : Undisturbed(r)) /\ [Next]_vars
    => (\A r \in Requests : Undisturbed(r))'
<1> SUFFICES ASSUME GateInv, \A r \in Requests : Undisturbed(r), [Next]_vars,
                    NEW q \in Requests
             PROVE  Undisturbed(q)'
  OBVIOUS
<1>0. req \in [Requests -> Request]
  BY DEF GateInv, TypeOK
<1>1. ASSUME NEW r \in Requests, Find(r)
      PROVE  Undisturbed(q)'
  <2>1. CASE q = r
    <3>1. /\ req'[r].pc = "describing" /\ (req'[r].existing <=> answer # None)
          /\ req'[r].alone = (InFlight = {})
          /\ ~ gone /\ UNCHANGED <<gone, answer>>
          /\ \A j \in Requests : j # r => req'[j].pc = req[j].pc
      BY <1>0, <1>1 DEF Find, Request
    <3> QED
      BY <2>1, <3>1 DEF Undisturbed, InFlight, Ended
  <2>2. CASE q # r
    <3>1. req'[q].pc = req[q].pc /\ (req'[q].alone => req[q].alone /\ q \notin InFlight)
      BY <1>0, <1>1, <2>2 DEF Find, Request
    <3> QED
      BY <3>1 DEF Undisturbed, InFlight, Running
  <2> QED
    BY <2>1, <2>2
<1>2. ASSUME NEW r \in Requests, RequestStep(r)
      PROVE  Undisturbed(q)'
  <2>1. CASE q = r
    BY <1>2, <2>1, StepUndisturbed
  <2>2. CASE q # r
    BY <1>2, <2>2, StepFrame DEF Undisturbed, Running
  <2> QED
    BY <2>1, <2>2
<1>3. ASSUME NEW r \in Requests, StatementFails(r)
      PROVE  Undisturbed(q)'
  <2>1. CASE q = r
    BY <1>0, <1>3, <2>1 DEF StatementFails, Undisturbed, Request
  <2>2. CASE q # r
    BY <1>0, <1>3, <2>2 DEF StatementFails, Undisturbed, Running
  <2> QED
    BY <2>1, <2>2
<1>4. CASE DeleteAccount
  BY <1>0, <1>4 DEF DeleteAccount, Undisturbed, Request
<1>5. CASE UNCHANGED vars
  BY <1>5 DEF vars, Undisturbed
<1> QED
  BY <1>1, <1>2, <1>3, <1>4, <1>5 DEF Next

(* Whatever earlier submissions left behind, one that runs undisturbed by  *)
(* faults, other submissions and a deletion ends with the onboarding done  *)
(* (completeExistingOnboardingAnswer).                                     *)
THEOREM RetrySucceeds ==
  ASSUME OnboardingAssumption PROVE Spec => []UndisturbedRetrySucceeds
<1> DEFINE Alone == \A r \in Requests : Undisturbed(r)
<1>1. Init => Alone
  BY DEF Init, Undisturbed, Running, Ended
<1>2. GateInv /\ Alone /\ [Next]_vars => Alone'
  BY NextUndisturbed
<1>3. Alone => UndisturbedRetrySucceeds
  BY DEF Undisturbed, UndisturbedRetrySucceeds
<1> HIDE DEF Alone
<1> QED
  BY <1>1, <1>2, <1>3, InitGate, NextGate, PTL DEF Spec

-----------------------------------------------------------------------------
(* Without a failing statement, somebody completes the onboarding.         *)

(* Until the profile is onboarded, some submission is on the way to insert *)
(* the answer that is missing, to evaluate it, or to mark the profile.     *)
SomebodyLeads ==
  ~ failed /\ ~ gone /\ ~ onboarded =>
    \/ /\ answer = None /\ evaluation = None
       /\ \A r \in Requests : req[r].pc = "idle"
    \/ /\ answer = None /\ evaluation = None
       /\ \E r \in Requests : req[r].pc \in {"describing", "locating", "inserting"}
    \/ /\ answer # None /\ evaluation = None
       /\ \E r \in Requests : req[r].pc = "evaluating"
    \/ /\ evaluation # None
       /\ \E r \in Requests : req[r].pc = "marking"

(* A step that leaves the rows as they are and does not take the lead from *)
(* its own submission, or hands it on.                                     *)
LEMMA LeadKept ==
  ASSUME GateInv, SomebodyLeads, NEW r \in Requests, RequestStep(r),
         UNCHANGED <<answer, evaluation, onboarded>>,
         \/ /\ req[r].pc \in {"describing", "locating", "inserting"}
            /\ answer = None => req'[r].pc \in {"locating", "inserting"}
         \/ req[r].pc \notin {"describing", "locating", "inserting", "evaluating", "marking"}
         \/ evaluation # None /\ req[r].pc # "marking"
  PROVE  SomebodyLeads'
<1>1. /\ req[r].pc # "idle" /\ UNCHANGED <<gone, failed>>
      /\ \A q \in Requests : q # r => req'[q] = req[q]
  BY StepFrame DEF Running
<1> QED
  BY <1>1 DEF SomebodyLeads

LEMMA StepLeads ==
  ASSUME GateInv, SomebodyLeads, NEW r \in Requests, RequestStep(r)
  PROVE  SomebodyLeads'
<1> SUFFICES ASSUME ~ failed, ~ gone, ~ onboarded'
             PROVE  SomebodyLeads'
  BY StepFrame DEF SomebodyLeads
<1>1. /\ TypeOK /\ RowsSeen /\ req \in [Requests -> Request] /\ req[r] \in Request
      /\ OnboardingAssumption
  BY DEF GateInv, TypeOK
<1>2. /\ req[r].pc \in Running /\ UNCHANGED <<gone, failed>>
      /\ \A q \in Requests : q # r => req'[q] = req[q]
  BY StepFrame
<1>3. CASE Describe(r)
  <2>1. /\ UNCHANGED <<answer, evaluation, onboarded>> /\ req[r].pc = "describing"
        /\ req'[r].pc = (IF req[r].existing THEN "checking" ELSE "locating")
    BY <1>1, <1>3 DEF Describe, Goto, Request
  <2>2. answer = None => ~ req[r].existing
    BY <1>1, <2>1 DEF RowsSeen
  <2> QED
    BY <2>1, <2>2, LeadKept
<1>4. CASE LocateProfile(r)
  <2>1. /\ UNCHANGED <<answer, evaluation, onboarded>> /\ req[r].pc = "locating"
        /\ req'[r].pc = "inserting"
    BY <1>1, <1>4 DEF LocateProfile, Goto, Request
  <2> QED
    BY <2>1, LeadKept
<1>5. CASE InsertAnswer(r)
  <2>1. CASE answer = None
    <3>1. /\ req'[r].pc = "evaluating" /\ answer' = r
          /\ UNCHANGED <<evaluation, onboarded>>
      BY <1>1, <1>5, <2>1 DEF InsertAnswer, Goto, Request
    <3>2. evaluation = None
      BY <1>1, <2>1 DEF TypeOK
    <3> QED
      BY <1>1, <3>1, <3>2 DEF SomebodyLeads, OnboardingAssumption
  <2>2. CASE answer # None
    <3>1. req[r].pc = "inserting" /\ UNCHANGED <<answer, evaluation, onboarded>>
      BY <1>5, <2>2 DEF InsertAnswer
    <3> QED
      BY <2>2, <3>1, LeadKept
  <2> QED
    BY <2>1, <2>2
<1>6. CASE Recheck(r) \/ CheckEvaluation(r)
  <2>1. /\ req[r].pc \in {"rechecking", "checking"}
        /\ UNCHANGED <<answer, evaluation, onboarded>>
    BY <1>6 DEF Recheck, CheckEvaluation
  <2> QED
    BY <2>1, LeadKept
<1>7. CASE Evaluate(r)
  <2>1. CASE evaluation = None /\ answer # None
    <3>1. req'[r].pc = "marking" /\ evaluation' = r
      BY <1>1, <1>7, <2>1 DEF Evaluate, Goto, Request
    <3> QED
      BY <1>1, <3>1 DEF SomebodyLeads, OnboardingAssumption
  <2>2. CASE evaluation # None
    <3>1. req[r].pc = "evaluating" /\ UNCHANGED <<answer, evaluation, onboarded>>
      BY <1>7, <2>2 DEF Evaluate
    <3> QED
      BY <2>2, <3>1, LeadKept
  <2>3. CASE evaluation = None /\ answer = None
    <3>1. req[r].pc = "evaluating" /\ UNCHANGED <<answer, evaluation, onboarded>>
      BY <1>7, <2>3 DEF Evaluate
    <3> QED
      BY <1>2, <2>3, <3>1 DEF SomebodyLeads
  <2> QED
    BY <2>1, <2>2, <2>3
<1>8. CASE Mark(r)
  BY <1>8 DEF Mark
<1> QED
  BY <1>3, <1>4, <1>5, <1>6, <1>7, <1>8 DEF RequestStep

LEMMA NextLeads == GateInv /\ SomebodyLeads /\ [Next]_vars => SomebodyLeads'
<1> SUFFICES ASSUME GateInv, SomebodyLeads, [Next]_vars
             PROVE  SomebodyLeads'
  OBVIOUS
<1>1. ASSUME NEW r \in Requests, Find(r)
      PROVE  SomebodyLeads'
  <2>1. /\ req'[r].pc = "describing" /\ req[r].pc = "idle"
        /\ \A q \in Requests : q # r => req'[q].pc = req[q].pc
        /\ UNCHANGED <<gone, failed, onboarded, answer, evaluation>>
    BY <1>1 DEF Find, GateInv, TypeOK, Request
  <2> QED
    BY <2>1 DEF SomebodyLeads
<1>2. ASSUME NEW r \in Requests, RequestStep(r)
      PROVE  SomebodyLeads'
  BY <1>2, StepLeads
<1>3. CASE failed' \/ gone'
  BY <1>3 DEF SomebodyLeads
<1>4. CASE UNCHANGED vars
  BY <1>4 DEF vars, SomebodyLeads
<1> QED
  BY <1>1, <1>2, <1>3, <1>4 DEF Next, StatementFails, DeleteAccount

(* However many submissions race for the answer and for its evaluation,    *)
(* when all have ended and no statement has failed the member is onboarded *)
(* (saveOnboardingAnswer).                                                 *)
THEOREM OneCompletes ==
  ASSUME OnboardingAssumption PROVE Spec => []SomebodyCompletes
<1>1. Init => SomebodyLeads
  BY DEF Init, SomebodyLeads
<1>2. SomebodyLeads => SomebodyCompletes
  BY DEF SomebodyLeads, SomebodyCompletes, InFlight, Running
<1> QED
  BY <1>1, <1>2, InitGate, NextGate, NextLeads, PTL DEF Spec
=============================================================================
