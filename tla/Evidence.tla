------------------------------ MODULE Evidence ------------------------------
(***************************************************************************)
(* How a commit gets ready for the closed alpha: test:integration and      *)
(* smoke:authorization write a proof artifact each,                        *)
(* readiness:evidence:build combines the two, and readiness:alpha accepts  *)
(* the combination for the commit that is checked out.  All of them run in *)
(* one working directory, where other commits may be checked out meanwhile.*)
(*                                                                         *)
(* One process of each kind runs at a time; all read one clock.  A file    *)
(* holds an artifact whose shape, digest, host and PASS verdict are in     *)
(* order: the parsers refuse anything else, and nothing else is written.   *)
(***************************************************************************)
EXTENDS Integers

CONSTANTS
  Shas,
  Checksum,   \* migrationSetChecksum of each commit
  Cases,      \* REQUIRED_INTEGRATION_CASES
  MaxAge,     \* PROOF_MAX_AGE_MS
  Careful,    \* the checkout is left alone while test:integration runs
  MaxTime,    \* bound: the clock stops here
  None

(* What the proofs need of the constants.                                  *)
EvidenceAssumption == MaxAge \in Nat /\ MaxTime \in Nat

VARIABLES
  now,
  head,         \* git rev-parse HEAD
  file,         \* the artifact at the output path of a kind
  proc,         \* the process that makes artifacts of a kind
  lastTested,   \* history: when the suite last passed at this commit
  lastSmoked    \* history: when a smoke begun at this commit last passed

vars == <<now, head, file, proc, lastTested, lastSmoked>>

Kinds == {"integration", "smoke", "combined"}

Times == 0 .. MaxTime
Sums == {Checksum[s] : s \in Shas}

(* sources: the timestamps of the artifacts a combination was made of.     *)
Artifact ==
  [sha : Shas, checksum : Sums, at : Times,
   sources : [integration : Times, smoke : Times]]

Process ==
  [pc : {"idle", "running", "ran", "named", "writing"},
   log : SUBSET Cases,          \* the cases logged once, as PASS
   under : Shas \cup {None},   \* history: the commit whose suite runs
   sha : Shas \cup {None},
   artifact : Artifact \cup {None}]

TypeOK ==
  /\ now \in Times /\ head \in Shas
  /\ file \in [Kinds -> Artifact \cup {None}]
  /\ proc \in [Kinds -> Process]
  /\ lastTested \in [Shas -> Times \cup {-1 - MaxAge}]
  /\ lastSmoked \in [Shas -> Times \cup {-1 - MaxAge}]

Idle ==
  [pc |-> "idle", log |-> {}, under |-> None, sha |-> None,
   artifact |-> None]

Never == [s \in Shas |-> -1 - MaxAge]

Init ==
  /\ now = 0 /\ head \in Shas
  /\ file = [k \in Kinds |-> None]
  /\ proc = [k \in Kinds |-> Idle]
  /\ lastTested = Never /\ lastSmoked = Never

-----------------------------------------------------------------------------
(* runIntegrationProofCore: preconditions, the baseline of the fixtures and*)
(* an empty log of its own.                                                *)
StartSuite ==
  /\ proc["integration"].pc = "idle"
  /\ proc' = [proc EXCEPT !["integration"] = [Idle EXCEPT !.pc = "running", !.under = head]]
  /\ UNCHANGED <<now, head, file, lastTested, lastSmoked>>

(* The suite exits with status 0 and restores the fixtures.  That says     *)
(* nothing of cases that were skipped or recorded more than once.          *)
SuiteEnds ==
  /\ proc["integration"].pc = "running"
  /\ \E log \in SUBSET Cases :
       /\ proc' = [proc EXCEPT !["integration"].pc = "ran", !["integration"].log = log]
       /\ lastTested' = IF log = Cases
                        THEN [lastTested EXCEPT ![proc["integration"].under] = now]
                        ELSE lastTested
  /\ UNCHANGED <<now, head, file, lastSmoked>>

(* Mutant: the status of the suite is enough.                              *)
AggregatedAnyway(log) == log \subseteq Cases

(* aggregateIntegrationObservations.                                       *)
Aggregated(log) == log = Cases

(* getGitSha(), after the suite.                                           *)
NameCommit ==
  /\ proc["integration"].pc = "ran"
  /\ Aggregated(proc["integration"].log)
  /\ proc' = [proc EXCEPT !["integration"] = [Idle EXCEPT !.pc = "named", !.sha = head]]
  /\ UNCHANGED <<now, head, file, lastTested, lastSmoked>>

Writing(artifact) == [Idle EXCEPT !.pc = "writing", !.artifact = artifact]

(* A source artifact: the checksum is read now, and so is the clock.       *)
Source(sha) ==
  [sha |-> sha, checksum |-> Checksum[head], at |-> now,
   sources |-> [integration |-> now, smoke |-> now]]

BuildIntegrationArtifact ==
  /\ proc["integration"].pc = "named"
  /\ proc' = [proc EXCEPT !["integration"] = Writing(Source(@.sha))]
  /\ UNCHANGED <<now, head, file, lastTested, lastSmoked>>

(* The smoke names its commit first, which must be the deployed one.       *)
StartSmoke ==
  /\ proc["smoke"].pc = "idle"
  /\ proc' = [proc EXCEPT !["smoke"] = [Idle EXCEPT !.pc = "running", !.sha = head]]
  /\ UNCHANGED <<now, head, file, lastTested, lastSmoked>>

(* All required cases pass.                                                *)
SmokePasses ==
  LET sha == proc["smoke"].sha IN
  /\ proc["smoke"].pc = "running"
  /\ lastSmoked' = [lastSmoked EXCEPT ![sha] = now]
  /\ proc' = [proc EXCEPT !["smoke"] = Writing(Source(sha))]
  /\ UNCHANGED <<now, head, file, lastTested>>

(* validateTimestampBounds.                                                *)
Fresh(at) == now - at <= MaxAge

(* Mutant: the artifacts may be of different commits.                      *)
CombinedOfAny(integration, smoke) ==
  /\ integration # None /\ smoke # None
  /\ Fresh(integration.at) /\ Fresh(smoke.at)
  /\ integration.checksum = smoke.checksum

(* combineSourceArtifacts.                                                 *)
Combinable(integration, smoke) ==
  /\ integration # None /\ smoke # None
  /\ Fresh(integration.at) /\ Fresh(smoke.at)
  /\ integration.sha = smoke.sha
  /\ integration.checksum = smoke.checksum

Combine ==
  LET integration == file["integration"]
      smoke == file["smoke"]
  IN /\ proc["combined"].pc = "idle"
     /\ Combinable(integration, smoke)
     /\ proc' = [proc EXCEPT !["combined"] =
                   Writing([sha |-> integration.sha, checksum |-> integration.checksum,
                            at |-> now,
                            sources |-> [integration |-> integration.at,
                                         smoke |-> smoke.at]])]
     /\ UNCHANGED <<now, head, file, lastTested, lastSmoked>>

(* writeProofArtifactAtomically: the rename publishes a file that is       *)
(* complete and on disk.  That a PASS artifact of another commit is kept,  *)
(* unless the operator allows to overwrite it, leaves both to be expected. *)
Publish(k) ==
  /\ proc[k].pc = "writing"
  /\ file' = [file EXCEPT ![k] = proc[k].artifact]
  /\ proc' = [proc EXCEPT ![k] = Idle]
  /\ UNCHANGED <<now, head, lastTested, lastSmoked>>

(* A failing suite or case, a refused overwrite, a full disk, a crash: the *)
(* destination stays as it was.                                            *)
Abandon(k) ==
  /\ proc[k].pc # "idle"
  /\ proc' = [proc EXCEPT ![k] = Idle]
  /\ UNCHANGED <<now, head, file, lastTested, lastSmoked>>

(* Anybody who works in the directory.                                     *)
Checkout(sha) ==
  /\ sha # head
  /\ Careful => proc["integration"].pc \notin {"running", "ran", "named"}
  /\ head' = sha
  /\ UNCHANGED <<now, file, proc, lastTested, lastSmoked>>

(* The history drops what is too old to count.                             *)
Recent(last) == [s \in Shas |-> IF now' - last[s] <= MaxAge THEN last[s] ELSE Never[s]]

(* Hours pass, but none worth counting between the end of a suite and the  *)
(* artifact, or while one is written.  A file that is too old to be        *)
(* accepted is as good as none: whether it is overwritten is open anyway.  *)
Tick ==
  /\ now < MaxTime
  /\ \A k \in Kinds : proc[k].pc \in {"idle", "running"}
  /\ now' = now + 1
  /\ lastTested' = Recent(lastTested) /\ lastSmoked' = Recent(lastSmoked)
  /\ file' = [k \in Kinds |-> IF file[k] # None /\ now' - file[k].at > MaxAge
                              THEN None ELSE file[k]]
  /\ UNCHANGED <<head, proc>>

Next ==
  \/ StartSuite \/ SuiteEnds \/ NameCommit \/ BuildIntegrationArtifact
  \/ StartSmoke \/ SmokePasses
  \/ Combine
  \/ \E k \in Kinds : Publish(k) \/ Abandon(k)
  \/ \E sha \in Shas : Checkout(sha)
  \/ Tick

Spec == Init /\ [][Next]_vars

-----------------------------------------------------------------------------
(* Mutant: the age of the combination counts, not that of its sources.     *)
ReadyByItsOwnAge(evidence) ==
  /\ evidence # None
  /\ Fresh(evidence.at)
  /\ evidence.sha = head /\ evidence.checksum = Checksum[head]

(* validateReadinessEvidence, as readiness:alpha would run it now.         *)
Ready(evidence) ==
  /\ evidence # None
  /\ Fresh(evidence.at) /\ Fresh(evidence.sources.integration) /\ Fresh(evidence.sources.smoke)
  /\ evidence.sha = head /\ evidence.checksum = Checksum[head]

(* readiness:alpha passes only for a commit whose smoke passed, and for    *)
(* which the suite passed with every case, within the last MaxAge, however *)
(* files were overwritten and commits checked out between the steps        *)
(* (combineSourceArtifacts, validateReadinessEvidence).                    *)
ReadinessMeansTested ==
  Ready(file["combined"]) => Fresh(lastTested[head]) /\ Fresh(lastSmoked[head])

-----------------------------------------------------------------------------
(* Why ReadinessMeansTested holds as long as the checkout is left alone    *)
(* while the suite runs: the inductive invariant of its proof.             *)

(* Who needs the name of a commit has one, and who writes an artifact has  *)
(* a complete one.                                                         *)
CommitNamed ==
  /\ proc["smoke"].pc = "running" => proc["smoke"].sha \in Shas
  /\ proc["integration"].pc = "named" => proc["integration"].sha \in Shas
  /\ \A k \in Kinds : proc[k].pc = "writing" => proc[k].artifact \in Artifact

EvidenceTypes == EvidenceAssumption /\ TypeOK /\ CommitNamed

(* An artifact of the time at is backed by the history: unless it is too   *)
(* old to count, the commit passed then or later.                          *)
Vouched(sha, at, time, last) == at <= time /\ (time - at <= MaxAge => last[sha] >= at)

VouchedFor(k, a, time, tested, smoked) ==
  /\ k = "integration" => Vouched(a.sha, a.at, time, tested)
  /\ k = "smoke" => Vouched(a.sha, a.at, time, smoked)
  /\ k = "combined" => /\ Vouched(a.sha, a.sources.integration, time, tested)
                       /\ Vouched(a.sha, a.sources.smoke, time, smoked)

(* What is on file is backed, and so is what is about to be.               *)
FilesVouched ==
  \A k \in Kinds :
    file[k] # None => VouchedFor(k, file[k], now, lastTested, lastSmoked)

WritesVouched ==
  \A k \in Kinds :
    proc[k].pc = "writing" =>
      VouchedFor(k, proc[k].artifact, now, lastTested, lastSmoked)

(* The suite runs at the commit that it will name.                         *)
SuiteVouched ==
  LET p == proc["integration"] IN
  /\ p.pc \in {"running", "ran"} => p.under = head
  /\ p.pc = "ran" /\ p.log = Cases => lastTested[head] = now
  /\ p.pc = "named" => lastTested[p.sha] = now

(* Passes lie in the past.                                                 *)
HistoryPast == \A s \in Shas : lastTested[s] <= now /\ lastSmoked[s] <= now

EvidenceInv ==
  /\ EvidenceTypes
  /\ HistoryPast /\ FilesVouched /\ WritesVouched /\ SuiteVouched
=============================================================================
