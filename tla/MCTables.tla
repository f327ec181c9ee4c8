------------------------------ MODULE MCTables ------------------------------
(***************************************************************************)
(* Small instances of RateLimit, Reports, Waitlist and Smoke for TLC, in   *)
(* one run.  They do not meet: each behavior runs one of them, the focus,  *)
(* so that the state spaces add up.  All but RateLimit share the variables *)
(* v1 to v7.                                                               *)
(***************************************************************************)
EXTENDS RateLimit, TLC

CONSTANTS
  Users, Submits,                            \* Reports
  Browsers, Emails, Calls, Tokens, MaxDay,   \* Waitlist
  Runs, MaxEpoch                             \* Smoke

VARIABLES focus, v1, v2, v3, v4, v5, v6, v7

slots == <<v1, v2, v3, v4, v5, v6, v7>>

Rep == INSTANCE Reports WITH
  account <- v1, profile <- v2, doomed <- v3, reports <- v4, submit <- v5, late <- v6,
  disturbed <- v7

Wait == INSTANCE Waitlist WITH
  day <- v1, entries <- v2, visits <- v3, cookie <- v4, call <- v5, joined <- v6, seen <- v7

Smo == INSTANCE Smoke WITH
  epoch <- v1, report <- v2, unlocks <- v3, messages <- v4, spent <- v5, run <- v6

ASSUME TablesAssumption == Wait!WaitlistAssumption /\ Smo!SmokeAssumption

(* The limited scopes have windows of different lengths, and the longest is*)
(* half the retention time, as in RATE_LIMIT_POLICIES.                     *)
MCPolicy == [k \in Keys |-> [limit |-> 1, window |-> IF k = "long" THEN 2 ELSE 1]]

MCSkew == [s \in Servers |-> IF s = "ahead" THEN 1 ELSE 0]

TablesInit ==
  /\ Init
  /\ \/ /\ focus = "limits" /\ v1 = None /\ v2 = None /\ v3 = None /\ v4 = None
        /\ v5 = None /\ v6 = None /\ v7 = None
     \/ focus = "reports" /\ Rep!Init
     \/ focus = "waitlist" /\ Wait!Init
     \/ focus = "smoke" /\ Smo!Init /\ v7 = None

TablesNext ==
  \/ focus = "limits" /\ Next /\ UNCHANGED <<focus, slots>>
  \/ focus = "reports" /\ Rep!Next /\ UNCHANGED <<focus, vars>>
  \/ focus = "waitlist" /\ Wait!Next /\ UNCHANGED <<focus, vars>>
  \/ focus = "smoke" /\ Smo!Next /\ UNCHANGED <<focus, vars, v7>>

TablesSpec == TablesInit /\ [][TablesNext]_<<focus, vars, slots>>

(* The types of the four components.                                       *)
TablesTypeOK ==
  /\ focus = "limits" => TypeOK
  /\ focus = "reports" => Rep!TypeOK
  /\ focus = "waitlist" => Wait!TypeOK
  /\ focus = "smoke" => Smo!TypeOK

-----------------------------------------------------------------------------
(* Losing a race for the row of a report, or for the reporter's profile, is*)
(* not an error (createOrGetOpenReport).                                   *)
UndisturbedReportSucceeds == focus = "reports" => Rep!UndisturbedReportSucceeds

(* Submissions of the same report are answered with the one row on file    *)
(* (createOrGetOpenReport).                                                *)
OneReportOnFile == focus = "reports" => Rep!OneReportOnFile

(* The deletion of an account takes the reports it filed and those about it*)
(* (delete_user_linked_residuals).                                         *)
DeletionSweepsReports == focus = "reports" => Rep!DeletionSweepsReports

(* Nobody else takes an entry off the list (joinWaitlist).                 *)
OnlyTheRegistrantWithdraws ==
  [][focus = "waitlist" => Wait!RegistrantWithdraws]_<<focus, slots>>

(* The revisit metric counts days on which the registrant called, and a    *)
(* visit racing a withdrawal leaves nothing behind (recordWaitlistVisit,   *)
(* deleteWaitlistEntry).                                                   *)
VisitDaysSound == focus = "waitlist" => Wait!VisitDaysSound

(* Overlapping smokes do not both pass on one preparation of the accounts  *)
(* (authorization-adversarial.ts).                                         *)
OnePassPerReset == focus = "smoke" => Smo!OnePassPerReset

(* A smoke that nothing disturbs does not fail                             *)
(* (authorization-adversarial.ts).                                         *)
UndisturbedSmokePasses == focus = "smoke" => Smo!UndisturbedSmokePasses

Symmetry == Permutations(Submits)
=============================================================================
