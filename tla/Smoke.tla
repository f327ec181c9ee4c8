-------------------------------- MODULE Smoke --------------------------------
(***************************************************************************)
(* The authorization smoke (smoke:authorization) against a deployment: runs*)
(* that share the two accounts A and B, the rows these accounts have on the*)
(* server, and the operator who prepares them.                             *)
(*                                                                         *)
(* A run is one client that sends the requests of Script one after the     *)
(* other; a request is one step of the server.  Consecutive requests about *)
(* rows that only the run itself knows (its waitlist entry, its sessions)  *)
(* are taken together: nobody can tell them apart.  ok is the conjunction  *)
(* of the cases so far.                                                    *)
(***************************************************************************)
EXTENDS Integers, Sequences

CONSTANTS
  Runs,
  MaxEpoch,   \* bound: how often the operator prepares the accounts
  None

(* What the proofs need of the constants.                                  *)
SmokeAssumption == MaxEpoch \in Nat /\ None \notin 0 .. MaxEpoch

VARIABLES
  epoch,      \* how often the operator has prepared the accounts
  report,     \* the open report of A about B: the epoch it was filed in
  unlocks,    \* unlocks rows, as <<viewer, target>>
  messages,   \* the runs whose message from A to B is stored
  spent,      \* reportCreate requests that count against A
  run

server == <<report, unlocks, messages, spent>>
vars == <<epoch, server, run>>

Script ==
  << "public", "loginA", "loginB", "mapping",
     "forgedReport", "selfReport", "firstReport", "duplicateReport",
     "initialA", "initialB", "beforePrivate",
     "unlockPass", "unlockStatus", "afterPrivate", "sentMessage", "recipientConversation",
     "unlockAgain", "statusAfterDuplicate", "bBeforeOwnUnlock", "forgedCookie",
     "bUnlockPass", "bUnlockStatus", "bAfterPrivate", "finalA", "finalB",
     "logout", "cleared", "revoked" >>

Jars == {"A", "B", "cleared"}

AtoB == <<"A", "B">>
BtoA == <<"B", "A">>

(* reportCreate of RATE_LIMIT_POLICIES, in an hour.                        *)
ReportLimit == 5

Results == {"idle", "running", "pass", "fail", "blocked"}

Run ==
  [result : Results,
   at : 1 .. Len(Script) + 1,
   ok : BOOLEAN,
   filed : 0 .. MaxEpoch \cup {None},   \* the report the first request was answered with
   live : SUBSET Jars,                  \* its sessions that the server knows
   alone : BOOLEAN]                     \* history: see Begin

TypeOK ==
  /\ epoch \in 0 .. MaxEpoch
  /\ report \in 0 .. MaxEpoch \cup {None}
  /\ unlocks \subseteq {AtoB, BtoA}
  /\ messages \subseteq Runs
  /\ spent \in 0 .. ReportLimit
  /\ run \in [Runs -> Run]

-----------------------------------------------------------------------------
Init ==
  /\ epoch = 0
  /\ report = None /\ unlocks = {} /\ messages = {}
  /\ spent = 0
  /\ run = [r \in Runs |-> [result |-> "idle", at |-> 1, ok |-> TRUE,
                             filed |-> None, live |-> {}, alone |-> FALSE]]

(* r moves on, and no other run is alone any more.                         *)
Becomes(r, record) ==
  run' = [q \in Runs |-> IF q = r THEN record ELSE [run[q] EXCEPT !.alone = FALSE]]

(* main, before its first case: a missing or wrong setting, a checkout     *)
(* other than the deployed commit, or a deployment out of reach end it.    *)
(* A run is alone while nobody else acts on accounts that were prepared and*)
(* idle when it began, and none of its requests has failed.                *)
Begin(r) ==
  /\ run[r].result = "idle"
  /\ LET prepared == /\ report = None /\ unlocks = {} /\ messages = {} /\ spent = 0
                     /\ \A q \in Runs : run[q].result # "running"
     IN \/ Becomes(r, [run[r] EXCEPT !.result = "running", !.alone = prepared])
        \/ Becomes(r, [run[r] EXCEPT !.result = "blocked"])
  /\ UNCHANGED <<epoch, server>>

At(r, request) ==
  run[r].result = "running" /\ run[r].at <= Len(Script) /\ Script[run[r].at] = request

Advanced(record, pass) == [record EXCEPT !.at = @ + 1, !.ok = @ /\ pass]

(* pushCase, for the case a request decides.                               *)
Case(r, pass) == Becomes(r, Advanced(run[r], pass))

(* The process exits; of its sessions nobody knows the cookies any more.   *)
Exited(record, result) ==
  [record EXCEPT !.result = result, !.at = 1, !.ok = TRUE, !.live = {}]

(* The anonymous requests, and the waitlist entry under an address of the  *)
(* run's own, joined, read, withdrawn and read again: waitlistJoin lets a  *)
(* machine do so in five runs a day, more than Runs has.                   *)
Public(r) ==
  /\ At(r, "public")
  /\ Case(r, TRUE)
  /\ UNCHANGED <<epoch, server>>

(* signIn and the session that follows.                                    *)
Login(r) ==
  /\ \E jar \in {"A", "B"} :
       /\ At(r, IF jar = "A" THEN "loginA" ELSE "loginB")
       /\ Becomes(r, [Advanced(run[r], TRUE) EXCEPT !.live = @ \cup {jar}])
  /\ UNCHANGED <<epoch, server>>

(* credentialsOwnExpectedProfiles: each must be offered the other's profile*)
(* and not its own.                                                        *)
Mapping(r) ==
  /\ At(r, "mapping")
  /\ Case(r, TRUE)
  /\ UNCHANGED <<epoch, server>>

(* POST /api/reports: every request counts before it is looked at.         *)
Counted(r) == spent' = IF spent < ReportLimit THEN spent + 1 ELSE spent

InvalidReport(r) ==
  /\ At(r, "forgedReport") \/ At(r, "selfReport")
  /\ Counted(r)
  /\ Case(r, spent < ReportLimit)
  /\ UNCHANGED <<epoch, report, unlocks, messages>>

(* Mutant: the first report may already be on file.                        *)
FirstReportAny(r) ==
  /\ At(r, "firstReport")
  /\ Counted(r)
  /\ IF spent = ReportLimit THEN Case(r, FALSE) /\ UNCHANGED report
     ELSE /\ report' = IF report = None THEN epoch ELSE report
          /\ Becomes(r, [Advanced(run[r], TRUE) EXCEPT !.filed = report'])
  /\ UNCHANGED <<epoch, unlocks, messages>>

(* It must create the row: 201 and not 200.                                *)
FirstReport(r) ==
  /\ At(r, "firstReport")
  /\ Counted(r)
  /\ IF spent = ReportLimit THEN Case(r, FALSE) /\ UNCHANGED report
     ELSE /\ report' = IF report = None THEN epoch ELSE report
          /\ Becomes(r, [Advanced(run[r], report = None) EXCEPT !.filed = report'])
  /\ UNCHANGED <<epoch, unlocks, messages>>

(* 200, with the id that the first one was answered with.                  *)
DuplicateReport(r) ==
  /\ At(r, "duplicateReport")
  /\ Counted(r)
  /\ IF spent = ReportLimit THEN Case(r, FALSE) /\ UNCHANGED report
     ELSE /\ report' = IF report = None THEN epoch ELSE report
          /\ Case(r, report # None /\ report = run[r].filed)
  /\ UNCHANGED <<epoch, unlocks, messages>>

(* GET /api/unlock and GET /api/profile/.../private: unlocked exactly when *)
(* the row exists.  A forged cookie does not count.                        *)
Look(r) ==
  /\ \/ At(r, "initialA") /\ Case(r, AtoB \notin unlocks)
     \/ At(r, "initialB") /\ Case(r, BtoA \notin unlocks)
     \/ At(r, "beforePrivate") /\ Case(r, AtoB \notin unlocks)
     \/ At(r, "bBeforeOwnUnlock") /\ Case(r, BtoA \notin unlocks)
     \/ At(r, "forgedCookie") /\ Case(r, BtoA \notin unlocks)
     \/ /\ \E request \in {"unlockStatus", "afterPrivate", "statusAfterDuplicate", "finalA"} :
             At(r, request)
        /\ Case(r, AtoB \in unlocks)
     \/ /\ \E request \in {"bUnlockStatus", "bAfterPrivate", "finalB"} : At(r, request)
        /\ Case(r, BtoA \in unlocks)
  /\ UNCHANGED <<epoch, server>>

(* POST /api/answers/unlock with an answer that passes: only the repeated  *)
(* request must be answered as idempotent.                                 *)
Unlock(r) ==
  /\ \/ At(r, "unlockPass") /\ Case(r, TRUE) /\ unlocks' = unlocks \cup {AtoB}
     \/ At(r, "unlockAgain") /\ Case(r, AtoB \in unlocks) /\ unlocks' = unlocks \cup {AtoB}
     \/ At(r, "bUnlockPass") /\ Case(r, TRUE) /\ unlocks' = unlocks \cup {BtoA}
  /\ UNCHANGED <<epoch, report, messages, spent>>

(* Mutant: only the unlock of the reader opens a conversation.             *)
ConversesWhoUnlocked(viewer) == <<viewer, IF viewer = "A" THEN "B" ELSE "A">> \in unlocks

(* authorizeConversation: an unlock in either direction.                   *)
Converses(viewer) == unlocks # {}

SendMessage(r) ==
  /\ At(r, "sentMessage")
  /\ messages' = IF Converses("A") THEN messages \cup {r} ELSE messages
  /\ Case(r, Converses("A"))
  /\ UNCHANGED <<epoch, report, unlocks, spent>>

ReadMessage(r) ==
  /\ At(r, "recipientConversation")
  /\ Case(r, Converses("B") /\ r \in messages)
  /\ UNCHANGED <<epoch, server>>

(* proveLogoutInvalidatesSession.                                          *)
ProveLogout(r) ==
  /\ At(r, "logout")
  /\ Becomes(r, [Advanced(run[r], "A" \in run[r].live) EXCEPT !.live = @ \ {"A"}])
  /\ UNCHANGED <<epoch, server>>

(* proveClearedCookieDenied, in a session of its own: the jar forgets its  *)
(* cookie, the server nothing.                                             *)
ProveCleared(r) ==
  /\ At(r, "cleared")
  /\ Becomes(r, [Advanced(run[r], TRUE) EXCEPT !.live = @ \cup {"cleared"}])
  /\ UNCHANGED <<epoch, server>>

(* proveRevokedSessionRejected: a third session comes and goes, and the    *)
(* clone of the jar, which kept the cookie, is refused.                    *)
ProveRevoked(r) ==
  /\ At(r, "revoked")
  /\ Case(r, TRUE)
  /\ UNCHANGED <<epoch, server>>

(* The verdict, over all required cases.                                   *)
Verdict(r) ==
  /\ run[r].result = "running" /\ run[r].at = Len(Script) + 1
  /\ Becomes(r, Exited(run[r], IF run[r].ok THEN "pass" ELSE "fail"))
  /\ UNCHANGED <<epoch, server>>

(* A request is answered with an error of the server: its case fails, and  *)
(* so does the run when it was a first login; without the candidates, or   *)
(* with the other one missing among the 50 they are cut to, it is blocked. *)
Refused(r) ==
  /\ run[r].result = "running" /\ run[r].at <= Len(Script)
  /\ LET record == [run[r] EXCEPT !.alone = FALSE]
     IN Becomes(r, CASE At(r, "loginA") \/ At(r, "loginB") -> Exited(record, "fail")
                     [] At(r, "mapping") -> Exited(record, "blocked")
                     [] OTHER -> Advanced(record, FALSE))
  /\ UNCHANGED <<epoch, server>>

(* fetch rejects, before or after the server acted, or the process dies.   *)
Dies(r) ==
  /\ run[r].result = "running"
  /\ Becomes(r, Exited([run[r] EXCEPT !.alone = FALSE], "fail"))
  /\ UNCHANGED <<epoch, server>>

Disturbed == run' = [q \in Runs |-> [run[q] EXCEPT !.alone = FALSE]]

(* "Pair state must be cleaned by the operator before this run."           *)
Prepare ==
  /\ epoch < MaxEpoch
  /\ epoch' = epoch + 1
  /\ report' = None /\ unlocks' = {} /\ messages' = {}
  /\ Disturbed
  /\ UNCHANGED spent

(* An hour without a request to /api/reports.                              *)
HourPasses ==
  /\ spent > 0
  /\ \A r \in Runs : run[r].result # "running"
  /\ spent' = 0
  /\ UNCHANGED <<epoch, report, unlocks, messages, run>>

Next ==
  \/ \E r \in Runs :
       \/ Begin(r) \/ Public(r) \/ Login(r) \/ Mapping(r)
       \/ InvalidReport(r) \/ FirstReport(r) \/ DuplicateReport(r)
       \/ Look(r) \/ Unlock(r) \/ SendMessage(r) \/ ReadMessage(r)
       \/ ProveLogout(r) \/ ProveCleared(r) \/ ProveRevoked(r) \/ Verdict(r) \/ Refused(r) \/ Dies(r)
  \/ Prepare \/ HourPasses

Spec == Init /\ [][Next]_vars

-----------------------------------------------------------------------------
(* Runs that overlap, or follow each other without the operator, cannot    *)
(* pass on the rows of another: of the runs that began with the same report*)
(* on file, and so since the same preparation, one passes at most          *)
(* (duplicate_open_report_is_idempotent requires 201, then 200 and the same*)
(* id).                                                                    *)
OnePassPerReset ==
  \A r, q \in Runs :
    run[r].result = "pass" /\ run[q].result = "pass" /\ r # q => run[r].filed # run[q].filed

(* The script is satisfiable: a run on prepared accounts that nobody       *)
(* disturbs, and whose requests are all answered, does not fail - neither  *)
(* for the order of its own requests nor for the limit on reports.         *)
UndisturbedSmokePasses ==
  \A r \in Runs : run[r].result \in {"fail", "blocked"} => ~ run[r].alone
=============================================================================
