------------------------------ MODULE Reports ------------------------------
(***************************************************************************)
(* POST /api/reports: a member reports the profile of another one, while   *)
(* accounts are deleted.                                                   *)
(*                                                                         *)
(* Every statement of createOrGetOpenReport commits by itself.  The partial*)
(* unique index admits one OPEN report of a reporter and a target; nothing *)
(* in the code closes a report, so every row is OPEN.  The reporter is a   *)
(* foreign key; the target is text, and only the trigger that runs before  *)
(* the deletion of a user knows whom it names.                             *)
(***************************************************************************)
EXTENDS FiniteSets

CONSTANTS
  Users,
  Submits,   \* POST /api/reports; also the report row it inserts
  None

VARIABLES
  account,   \* users: live, in a transaction that deletes them, or gone
  profile,   \* users that have a profile row
  doomed,    \* reports deleted by the trigger of an open deletion
  reports,   \* reports on file
  submit,    \* submissions
  late,      \* history: reports whose target was going or gone when filed
  disturbed  \* history: submissions that met a failure or a deletion

vars == <<account, profile, doomed, reports, submit, late, disturbed>>

Working == {"sent", "unprofiled", "rechecking", "identified", "absent", "conflicted"}

(* Answers: 201 or 200, 400, 409, 500.                                     *)
Ended == {"created", "duplicate", "invalid", "refused", "failed"}

Submission ==
  [pc : {"idle"} \cup Working \cup Ended,
   reporter : Users \cup {None}, target : Users \cup {None},
   report : Submits \cup {None}]   \* the id answered

(* Types; a deletion dooms reports on file that name the deleted account.  *)
TypeOK ==
  /\ account \in [Users -> {"live", "deleting", "gone"}]
  /\ profile \subseteq {u \in Users : account[u] # "gone"}
  /\ reports \subseteq Submits /\ late \subseteq Submits /\ disturbed \subseteq Submits
  /\ submit \in [Submits -> Submission]
  /\ doomed \in [Users -> SUBSET Submits]
  /\ \A u \in Users : \A s \in doomed[u] :
       account[u] = "deleting" /\ s \in reports /\ submit[s].target = u

Init ==
  /\ account = [u \in Users |-> "live"]
  /\ profile \in SUBSET Users
  /\ doomed = [u \in Users |-> {}]
  /\ reports = {}
  /\ submit = [s \in Submits |-> [pc |-> "idle", reporter |-> None, target |-> None,
                                  report |-> None]]
  /\ late = {} /\ disturbed = {}

SameReport(s, t) ==
  /\ submit[s].reporter = submit[t].reporter
  /\ submit[s].target = submit[t].target

(* The reports on file that the unique index holds against s.              *)
OnFile(s) == {t \in reports : SameReport(s, t)}

(* Reports a transaction has deleted and not committed: visible to reads,  *)
(* in the way of an insert until the transaction ends.                     *)
InDeletion == UNION {doomed[u] : u \in Users}

Go(s, pc) ==
  /\ submit' = [submit EXCEPT ![s].pc = pc]
  /\ UNCHANGED <<account, profile, doomed, reports, late, disturbed>>

Answer(s, pc, t) ==
  /\ submit' = [submit EXCEPT ![s].pc = pc, ![s].report = t]
  /\ UNCHANGED <<account, profile, doomed, reports, late, disturbed>>

(* A member with a session sends a report of a profile whose id was once   *)
(* shown, or of themselves.                                                *)
Send(s, u, v) ==
  /\ submit[s].pc = "idle"
  /\ account[u] # "gone"
  /\ v \in profile \cup {u} \/ account[v] = "gone"
  /\ submit' = [submit EXCEPT ![s].pc = "sent", ![s].reporter = u, ![s].target = v]
  /\ disturbed' = IF account[u] = "live" /\ account[v] = "live" THEN disturbed
                  ELSE disturbed \cup {s}
  /\ UNCHANGED <<account, profile, doomed, reports, late>>

(* validateReportForUser, once the reporter's profile is known.            *)
Identified(s) ==
  Go(s, IF submit[s].target = submit[s].reporter THEN "invalid" ELSE "identified")

(* ensureProfileForUser: select; insert unless another request did; select *)
(* again.                                                                  *)
FindProfile(s) ==
  /\ submit[s].pc = "sent"
  /\ \/ submit[s].reporter \in profile /\ Identified(s)
     \/ submit[s].reporter \notin profile /\ Go(s, "unprofiled")

InsertProfile(s) ==
  LET u == submit[s].reporter IN
  /\ submit[s].pc = "unprofiled"
  /\ \/ account[u] = "gone" /\ Go(s, "refused")
     \/ account[u] # "gone" /\ u \in profile /\ Go(s, "rechecking")
     \/ /\ account[u] = "live" /\ u \notin profile
        /\ profile' = profile \cup {u}
        /\ submit' = [submit EXCEPT ![s].pc = IF submit[s].target = u THEN "invalid"
                                              ELSE "identified"]
        /\ UNCHANGED <<account, doomed, reports, late, disturbed>>

RecheckProfile(s) ==
  /\ submit[s].pc = "rechecking"
  /\ \/ submit[s].reporter \in profile /\ Identified(s)
     \/ submit[s].reporter \notin profile /\ Go(s, "refused")

(* findOpenDuplicateReport, before the insert.                             *)
Find(s) ==
  /\ submit[s].pc = "identified"
  /\ \/ \E t \in OnFile(s) : Answer(s, "duplicate", t)
     \/ OnFile(s) = {} /\ Go(s, "absent")

(* Mutant: the conflict is reported as any other database error.           *)
InsertConflictFails(s) ==
  /\ submit[s].pc = "absent"
  /\ \/ account[submit[s].reporter] = "gone" /\ Go(s, "refused")
     \/ OnFile(s) \ InDeletion # {} /\ Go(s, "failed")
     \/ /\ account[submit[s].reporter] = "live" /\ OnFile(s) = {}
        /\ reports' = reports \cup {s}
        /\ late' = IF account[submit[s].target] = "live" THEN late ELSE late \cup {s}
        /\ submit' = [submit EXCEPT ![s].pc = "created", ![s].report = s]
        /\ UNCHANGED <<account, profile, doomed, disturbed>>

(* Mutant: no unique index.                                                *)
InsertAlways(s) ==
  /\ submit[s].pc = "absent"
  /\ \/ account[submit[s].reporter] = "gone" /\ Go(s, "refused")
     \/ /\ account[submit[s].reporter] = "live"
        /\ reports' = reports \cup {s}
        /\ late' = IF account[submit[s].target] = "live" THEN late ELSE late \cup {s}
        /\ submit' = [submit EXCEPT ![s].pc = "created", ![s].report = s]
        /\ UNCHANGED <<account, profile, doomed, disturbed>>

(* insertReport: the foreign key of the reporter waits for a deletion of   *)
(* the account, the unique index for a deletion of the row.                *)
Insert(s) ==
  /\ submit[s].pc = "absent"
  /\ \/ account[submit[s].reporter] = "gone" /\ Go(s, "refused")
     \/ OnFile(s) \ InDeletion # {} /\ Go(s, "conflicted")
     \/ /\ account[submit[s].reporter] = "live" /\ OnFile(s) = {}
        /\ reports' = reports \cup {s}
        /\ late' = IF account[submit[s].target] = "live" THEN late ELSE late \cup {s}
        /\ submit' = [submit EXCEPT ![s].pc = "created", ![s].report = s]
        /\ UNCHANGED <<account, profile, doomed, disturbed>>

(* After UNIQUE_VIOLATION the row of the other submission is looked up.    *)
Reconcile(s) ==
  /\ submit[s].pc = "conflicted"
  /\ \/ \E t \in OnFile(s) : Answer(s, "duplicate", t)
     \/ OnFile(s) = {} /\ Go(s, "failed")

(* A statement fails: 409 while the profile is sought, 500 after.  With    *)
(* "stored" the insert has committed and its acknowledgement is lost.      *)
Fail(s, stored) ==
  /\ submit[s].pc \in Working
  /\ stored => /\ submit[s].pc = "absent" /\ OnFile(s) = {}
               /\ account[submit[s].reporter] = "live"
  /\ reports' = IF stored THEN reports \cup {s} ELSE reports
  /\ late' = IF stored /\ account[submit[s].target] # "live" THEN late \cup {s} ELSE late
  /\ submit' = [submit EXCEPT ![s].pc =
                  IF @ \in {"sent", "unprofiled", "rechecking"} THEN "refused"
                  ELSE "failed"]
  /\ disturbed' = disturbed \cup {s}
  /\ UNCHANGED <<account, profile, doomed>>

Touches(s, u) == u \in {submit[s].reporter, submit[s].target}

(* Mutant: only the foreign key, no trigger.                               *)
NothingAbout(u) == {}

(* The reports the trigger finds: those on file that name u.               *)
About(u) == {s \in reports : submit[s].target = u}

(* DELETE FROM users: the row is locked and its trigger runs.              *)
BeginDelete(u) ==
  /\ account[u] = "live"
  /\ account' = [account EXCEPT ![u] = "deleting"]
  /\ doomed' = [doomed EXCEPT ![u] = About(u)]
  /\ disturbed' = disturbed \cup {s \in Submits : Touches(s, u)}
  /\ UNCHANGED <<profile, reports, submit, late>>

FiledBy(u) == {s \in reports : submit[s].reporter = u}

(* The cascade takes what u has filed, once no other deletion holds it.    *)
CommitDelete(u) ==
  /\ account[u] = "deleting"
  /\ FiledBy(u) \cap UNION {doomed[v] : v \in Users \ {u}} = {}
  /\ account' = [account EXCEPT ![u] = "gone"]
  /\ profile' = profile \ {u}
  /\ reports' = reports \ (doomed[u] \cup FiledBy(u))
  /\ doomed' = [doomed EXCEPT ![u] = {}]
  /\ UNCHANGED <<submit, late, disturbed>>

(* The deletion fails, or is aborted to break a deadlock with another one. *)
AbortDelete(u) ==
  /\ account[u] = "deleting"
  /\ account' = [account EXCEPT ![u] = "live"]
  /\ doomed' = [doomed EXCEPT ![u] = {}]
  /\ UNCHANGED <<profile, reports, submit, late, disturbed>>

Next ==
  \/ \E s \in Submits :
       \/ \E u, v \in Users : Send(s, u, v)
       \/ FindProfile(s) \/ InsertProfile(s) \/ RecheckProfile(s)
       \/ Find(s) \/ Insert(s) \/ Reconcile(s)
       \/ \E stored \in BOOLEAN : Fail(s, stored)
  \/ \E u \in Users : BeginDelete(u) \/ CommitDelete(u) \/ AbortDelete(u)

Spec == Init /\ [][Next]_vars

(* A submission that meets no failing statement and no deletion of its     *)
(* reporter or target is answered with a report or rejected as invalid:    *)
(* losing the race for the row, or for the profile, is not an error        *)
(* (createOrGetOpenReport, ensureProfileForUser).                          *)
UndisturbedReportSucceeds ==
  \A s \in Submits : submit[s].pc \in {"refused", "failed"} => s \in disturbed

(* Every answered submission names a report of its own reporter and target,*)
(* the same for all of them, which stays on file as long as both accounts  *)
(* do (findOpenDuplicateReport, reports_open_dedup_unique).                *)
OneReportOnFile ==
  \A s \in Submits :
    submit[s].report # None /\ account[submit[s].reporter] # "gone"
                            /\ account[submit[s].target] # "gone" =>
      OnFile(s) = {submit[s].report}

(* A deleted account leaves no report it filed, and of the reports about   *)
(* it only those filed after its deletion had begun                        *)
(* (delete_user_linked_residuals).                                         *)
DeletionSweepsReports ==
  \A s \in reports :
    /\ account[submit[s].reporter] # "gone"
    /\ account[submit[s].target] = "gone" => s \in late
=============================================================================
