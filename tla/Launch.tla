------------------------------- MODULE Launch -------------------------------
(***************************************************************************)
(* The gate of a closed alpha launch: the readiness endpoint of production *)
(* reports on the release and its database, a script of the operator turns *)
(* the report into evidence, and another combines that with an attestation *)
(* of the operator into the launch artifact.                               *)
(*                                                                         *)
(* The operator's machine keeps the time; the server's clock is Ahead of   *)
(* it.  The digests an artifact carries stand for what they digest.  An    *)
(* attestation whose answers are not as required, or whose exception is not*)
(* of the approved form, never passes and is left out: what is left of it  *)
(* is its subject and its dates.                                           *)
(***************************************************************************)
EXTENDS Integers

CONSTANTS
  Shas,
  Facts,          \* what the queries of observeProductionDatabase look at
  Ahead,
  Tolerance,      \* how far in the future a timestamp may be
  MaxReport,      \* PRODUCTION_READINESS_MAX_AGE_MS
  MaxTechnical,   \* CLOSED_ALPHA_TECHNICAL_MAX_AGE_MS
  MaxReview,      \* CLOSED_ALPHA_ATTESTATION_MAX_AGE_MS
  MaxException,   \* FREE_PLAN_EXCEPTION_MAX_AGE_MS
  MaxTime,        \* bound: the clock stops here
  None

(* What the proofs need of the constants.                                  *)
LaunchAssumption ==
  {Ahead, Tolerance, MaxReport, MaxTechnical, MaxReview, MaxException, MaxTime} \subseteq Nat

VARIABLES
  now,
  deployed,     \* the production release
  holds,        \* the facts that hold in the production database
  answer,       \* a request of the endpoint, from its arrival to its verification
  evidence,     \* the file of verify-production-readiness
  gate,         \* what closed-alpha-gate has read and found to pass
  launch,       \* the file of closed-alpha-gate
  lastRan,      \* history: when a release last ran in production, configured well
  lastHeld      \* history: when a fact last held

vars == <<now, deployed, holds, answer, evidence, gate, launch, lastRan, lastHeld>>

Times == 0 .. MaxTime
Never == -1 - MaxTime

(* None: the gates that look at the environment of the release fail.       *)
Releases == Shas \cup {None}

(* A report whose gates pass so far: of another no more is heard.          *)
Report ==
  [pc : {"querying", "reported"}, sha : Shas,
   left : SUBSET Facts,   \* the queries that are not answered yet
   at : Int]              \* generatedAt

(* verifiedAt.                                                             *)
VerifiedReport == [sha : Shas, at : Times]

(* oldest: of the dates that may be MaxReview old (reviewedAt, of the drill*)
(* and the domain, of the exception and the triggers that go with it).     *)
(* expires: of the exception, or None on a protected branch.               *)
Attested == [sha : Shas, oldest : Times, expires : Nat \cup {None}]

Inputs == [evidence : VerifiedReport, attestation : Attested]

TypeOK ==
  /\ now \in Times /\ deployed \in Releases /\ holds \subseteq Facts
  /\ answer \in Report \cup {None}
  /\ evidence \in VerifiedReport \cup {None}
  /\ gate \in Inputs \cup {None}
  /\ launch \in [input : Inputs, at : Times] \cup {None}
  /\ lastRan \in [Shas -> Times \cup {Never}]
  /\ lastHeld \in [Facts -> Times \cup {Never}]

(* The history variables, brought up to date with the next state.          *)
Remember ==
  /\ lastRan' = [s \in Shas |-> IF deployed' = s THEN now' ELSE lastRan[s]]
  /\ lastHeld' = [f \in Facts |-> IF f \in holds' THEN now' ELSE lastHeld[f]]

Init ==
  /\ now = 0
  /\ deployed \in Releases
  /\ holds \in SUBSET Facts
  /\ answer = None /\ evidence = None
  /\ gate = None /\ launch = None
  /\ lastRan = [s \in Shas |-> IF deployed = s THEN 0 ELSE Never]
  /\ lastHeld = [f \in Facts |-> IF f \in holds THEN 0 ELSE Never]

-----------------------------------------------------------------------------
(* The endpoint.  A release serves a request to its end, even if another   *)
(* one is deployed meanwhile.                                              *)
Ask ==
  /\ answer = None /\ deployed # None
  /\ answer' = [pc |-> "querying", sha |-> deployed, left |-> Facts, at |-> 0]
  /\ UNCHANGED <<now, deployed, holds, evidence, gate, launch, lastRan, lastHeld>>

(* Mutant: the endpoint reports what it observed, whatever that is.        *)
QueryAnyway(f) ==
  /\ answer # None
  /\ answer.pc = "querying" /\ f \in answer.left
  /\ answer' = [answer EXCEPT !.left = @ \ {f}]
  /\ UNCHANGED <<now, deployed, holds, evidence, gate, launch, lastRan, lastHeld>>

(* observeProductionDatabase: the queries run side by side, and not in one *)
(* transaction.  One that fails makes the report fail too (Lose).          *)
Query(f) ==
  /\ answer # None
  /\ answer.pc = "querying" /\ f \in answer.left
  /\ answer' = IF f \in holds THEN [answer EXCEPT !.left = @ \ {f}] ELSE None
  /\ UNCHANGED <<now, deployed, holds, evidence, gate, launch, lastRan, lastHeld>>

(* buildProductionReadinessReport.                                         *)
Generate ==
  /\ answer # None
  /\ answer.pc = "querying" /\ answer.left = {}
  /\ answer' = [answer EXCEPT !.pc = "reported", !.at = now + Ahead]
  /\ UNCHANGED <<now, deployed, holds, evidence, gate, launch, lastRan, lastHeld>>

-----------------------------------------------------------------------------
Fresh(at, maxAge) == at <= now + Tolerance /\ now - at <= maxAge

(* verifyProductionReadinessReport, for the expected commit and the host   *)
(* that was asked; the evidence is written to a file that is not there yet.*)
Verify(expected) ==
  /\ answer # None
  /\ answer.pc = "reported"
  /\ answer' = None
  /\ evidence' = IF /\ answer.sha = expected
                    /\ Fresh(answer.at, MaxReport)
                    /\ evidence = None
                 THEN [sha |-> expected, at |-> now]
                 ELSE evidence
  /\ UNCHANGED <<now, deployed, holds, gate, launch, lastRan, lastHeld>>

(* A query fails, the connection is lost, or the script is stopped.        *)
Lose ==
  /\ answer # None
  /\ answer' = None
  /\ UNCHANGED <<now, deployed, holds, evidence, gate, launch, lastRan, lastHeld>>

-----------------------------------------------------------------------------
(* evaluateClosedAlphaLaunch, at this moment.                              *)
Passes(input) ==
  /\ input.evidence.sha = input.attestation.sha
  /\ Fresh(input.evidence.at, MaxTechnical)
  /\ Fresh(input.attestation.oldest, MaxReview)
  /\ input.attestation.expires # None => input.attestation.expires > now

(* closed-alpha-gate reads both files and evaluates them at once.  The     *)
(* attestation may be of any moment so far.                                *)
Evaluate(attested) ==
  LET input == [evidence |-> evidence, attestation |-> attested]
  IN /\ gate = None /\ evidence # None
     /\ attested.oldest <= now
     /\ attested.expires # None => attested.expires <= attested.oldest + MaxException
     /\ Passes(input)
     /\ gate' = input
     /\ UNCHANGED <<now, deployed, holds, answer, evidence, launch, lastRan, lastHeld>>

(* Mutant: what passed a moment ago need not be evaluated again.           *)
BuildUnchecked ==
  /\ gate # None
  /\ gate' = None
  /\ launch' = [input |-> gate, at |-> now]
  /\ UNCHANGED <<now, deployed, holds, answer, evidence, lastRan, lastHeld>>

(* buildClosedAlphaLaunchArtifact evaluates again, at the time it puts into*)
(* the artifact, which is written to a file that is not there yet.         *)
Build ==
  /\ gate # None
  /\ gate' = None
  /\ launch' = IF Passes(gate) THEN [input |-> gate, at |-> now] ELSE None
  /\ UNCHANGED <<now, deployed, holds, answer, evidence, lastRan, lastHeld>>

(* The operator names another file for the evidence, or starts anew.       *)
Rename ==
  /\ evidence # None /\ evidence' = None
  /\ UNCHANGED <<now, deployed, holds, answer, gate, launch, lastRan, lastHeld>>

-----------------------------------------------------------------------------
Deploy(release) ==
  /\ release # deployed
  /\ deployed' = release
  /\ UNCHANGED <<now, holds, answer, evidence, gate, launch>>
  /\ Remember

(* A migration, a change of app_config.                                    *)
Change(f) ==
  /\ holds' = IF f \in holds THEN holds \ {f} ELSE holds \cup {f}
  /\ UNCHANGED <<now, deployed, answer, evidence, gate, launch>>
  /\ Remember

(* The endpoint takes no time worth counting; the way back may.            *)
Tick ==
  /\ now < MaxTime
  /\ answer # None => answer.pc = "reported"
  /\ now' = now + 1
  /\ UNCHANGED <<deployed, holds, answer, evidence, gate, launch>>
  /\ Remember

(* The model ends when there is a launch: the file is not written again.   *)
Next ==
  /\ launch = None
  /\ \/ Ask \/ Generate \/ Lose \/ \E f \in Facts : Query(f)
     \/ \E sha \in Shas : Verify(sha)
     \/ \E attested \in [sha : Shas, oldest : Times,
                        expires : {None} \cup 1 .. MaxTime + MaxException] :
          Evaluate(attested)
     \/ Build \/ Rename
     \/ \E release \in Releases : Deploy(release)
     \/ \E f \in Facts : Change(f)
     \/ Tick

Spec == Init /\ [][Next]_vars

-----------------------------------------------------------------------------
(* When the launch artifact is generated, its commit ran in production and *)
(* each fact held no longer ago than the ages of a report and of the       *)
(* evidence allow, nothing attested is too old, and an exception           *)
(* has not expired: however long answers travel, scripts pause and files   *)
(* lie about (verifyProductionReadinessReport, evaluateClosedAlphaLaunch). *)
LaunchIsCurrent ==
  launch # None =>
    LET attested == launch.input.attestation
        earliest == launch.at - MaxTechnical - MaxReport - Ahead
    IN /\ lastRan[attested.sha] >= earliest
       /\ \A f \in Facts : lastHeld[f] >= earliest
       /\ launch.at - attested.oldest <= MaxReview
       /\ attested.expires # None => attested.expires > launch.at

-----------------------------------------------------------------------------
(* Why LaunchIsCurrent holds: the inductive invariant of its proof.        *)

LaunchTypes == LaunchAssumption /\ TypeOK

(* The histories are up to date.                                           *)
Remembered ==
  /\ \A s \in Shas : lastRan[s] <= now /\ (deployed = s => lastRan[s] = now)
  /\ \A f \in Facts : lastHeld[f] <= now /\ (f \in holds => lastHeld[f] = now)

(* Since the time t the release has run in production, and each fact held. *)
Since(sha, t, ran, held) == ran[sha] >= t /\ \A f \in Facts : held[f] >= t

(* No time passes while the queries run, so that what each has found holds *)
(* at the time of the report.                                              *)
AnswerCurrent ==
  answer # None =>
    /\ answer.pc = "querying" =>
         /\ lastRan[answer.sha] = now
         /\ \A f \in Facts : f \notin answer.left => lastHeld[f] = now
    /\ answer.pc = "reported" => Since(answer.sha, answer.at - Ahead, lastRan, lastHeld)

(* Evidence is as old as a report may be when it is made.                  *)
EvidenceCurrent ==
  evidence # None =>
    Since(evidence.sha, evidence.at - MaxReport - Ahead, lastRan, lastHeld)

GateCurrent ==
  gate # None =>
    /\ gate.evidence.sha = gate.attestation.sha
    /\ Since(gate.evidence.sha, gate.evidence.at - MaxReport - Ahead, lastRan, lastHeld)

LaunchInv ==
  /\ LaunchTypes
  /\ Remembered /\ AnswerCurrent /\ EvidenceCurrent /\ GateCurrent
  /\ LaunchIsCurrent
=============================================================================
