---------------------------- MODULE MCSideBySide ----------------------------
(***************************************************************************)
(* Small instances of Unlock, Onboarding, DepthService, Evidence, Launch   *)
(* and Measurement for TLC, in one run.  They do not meet: each behavior   *)
(* runs one of them, the focus, so that the state spaces add up.  All but  *)
(* Unlock share the variables v1 to v10.                                   *)
(***************************************************************************)
EXTENDS Unlock, TLC

CONSTANTS
  Onboardings, Faulty,                              \* Onboarding: its Requests
  Evaluations, Answers, Ttl, DepthTime,             \* DepthService: its Requests, MaxTime
  Commits, Checksum, Cases, MaxAge, Careful, EvidenceTime,  \* Evidence: its Shas, MaxTime
  Facts, Ahead, Tolerance, MaxReport, MaxTechnical,         \* Launch: its Shas are Commits
  MaxReview, MaxException, LaunchTime,
  Members, CohortOf, ChannelOf, RoleOf, Entries, Seconds, Lengths,  \* Measurement
  Week, MinSample, GroupMin, MinDays, Others, MaxDay,
  A, B                                              \* two members

(* Evidence: the commits have the same migrations, as most have.           *)
SameChecksum == [c \in Commits |-> "same"]

(* Measurement: two members of two cohorts, who came by the same channel.  *)
Both == {A, B}
OwnCohort == [m \in Both |-> m]
SameChannel == [m \in Both |-> "organic"]
OwnRole == [m \in Both |-> IF m = A THEN "bucket_a" ELSE "bucket_b"]

VARIABLES focus, v1, v2, v3, v4, v5, v6, v7, v8, v9, v10

slots == <<v1, v2, v3, v4, v5, v6, v7, v8, v9, v10>>

Onb == INSTANCE Onboarding WITH
  Requests <- Onboardings,
  gone <- v1, nickname <- v2, onboarded <- v3, answer <- v4, evaluation <- v5,
  req <- v6, failed <- v7

Dep == INSTANCE DepthService WITH
  Requests <- Evaluations, MaxTime <- DepthTime,
  now <- v1, pooled <- v2, enabled <- v3, cached <- v4, cachedAt <- v5,
  embedding <- v6, evaluations <- v7, lockedBy <- v8, req <- v9, lastOn <- v10

Evi == INSTANCE Evidence WITH
  Shas <- Commits, MaxTime <- EvidenceTime,
  now <- v1, head <- v2, file <- v3, proc <- v4, lastTested <- v5, lastSmoked <- v6

Lau == INSTANCE Launch WITH
  Shas <- Commits, MaxTime <- LaunchTime,
  now <- v1, deployed <- v2, holds <- v3, answer <- v4, evidence <- v5, gate <- v6,
  launch <- v7, lastRan <- v8, lastHeld <- v9

Mea == INSTANCE Measurement WITH
  today <- v1, invite <- v2, person <- v3, entry <- v4, snapshot <- v5

ASSUME SideBySideAssumption ==
  /\ UnlockAssumption /\ Onb!OnboardingAssumption /\ Dep!DepthAssumption
  /\ Evi!EvidenceAssumption /\ Lau!LaunchAssumption /\ Mea!MeasurementAssumption

-----------------------------------------------------------------------------
AllInit ==
  /\ Init
  /\ \/ /\ focus = "unlock" /\ v1 = None /\ v2 = None /\ v3 = None /\ v4 = None
        /\ v5 = None /\ v6 = None /\ v7 = None /\ v8 = None /\ v9 = None /\ v10 = None
     \/ focus = "onboarding" /\ Onb!Init /\ v8 = None /\ v9 = None /\ v10 = None
     \/ focus = "depth" /\ Dep!Init
     \/ focus = "evidence" /\ Evi!Init /\ v7 = None /\ v8 = None /\ v9 = None /\ v10 = None
     \/ focus = "launch" /\ Lau!Init /\ v10 = None
     \/ /\ focus = "measurement" /\ Mea!Init
        /\ v6 = None /\ v7 = None /\ v8 = None /\ v9 = None /\ v10 = None

AllNext ==
  \/ focus = "unlock" /\ Next /\ UNCHANGED <<focus, slots>>
  \/ focus = "onboarding" /\ Onb!Next /\ UNCHANGED <<focus, vars, v8, v9, v10>>
  \/ focus = "depth" /\ Dep!Next /\ UNCHANGED <<focus, vars>>
  \/ focus = "evidence" /\ Evi!Next /\ UNCHANGED <<focus, vars, v7, v8, v9, v10>>
  \/ focus = "launch" /\ Lau!Next /\ UNCHANGED <<focus, vars, v10>>
  \/ focus = "measurement" /\ Mea!Next /\ UNCHANGED <<focus, vars, v6, v7, v8, v9, v10>>

AllSpec == AllInit /\ [][AllNext]_<<focus, vars, slots>>

(* The types of the six components.                                        *)
AllTypeOK ==
  /\ focus = "unlock" => TypeOK
  /\ focus = "onboarding" => Onb!TypeOK
  /\ focus = "depth" => Dep!TypeOK
  /\ focus = "evidence" => Evi!TypeOK
  /\ focus = "launch" => Lau!TypeOK
  /\ focus = "measurement" => Mea!TypeOK

-----------------------------------------------------------------------------
(* A profile is onboarded only with an evaluated answer                    *)
(* (saveOnboardingAnswer).                                                 *)
OnboardedIsComplete == focus = "onboarding" => Onb!OnboardedIsComplete

(* What a failed submission leaves behind never stops the next one         *)
(* (saveOnboardingAnswer).                                                 *)
UndisturbedRetrySucceeds == focus = "onboarding" => Onb!UndisturbedRetrySucceeds

(* Submissions that race each other do not all fail                        *)
(* (saveOnboardingAnswer).                                                 *)
SomebodyCompletes == focus = "onboarding" => Onb!SomebodyCompletes

(* Switching scoring off takes effect within the time to live of the cache *)
(* (AppConfigProvider.get).                                                *)
ScoringStopsWithinTtl == focus = "depth" => Dep!ScoringStopsWithinTtl

(* The embedding on file is that of the latest evaluation                  *)
(* (persist_evaluation).                                                   *)
EmbeddingOfLastEvaluation == focus = "depth" => Dep!EmbeddingOfLastEvaluation

(* readiness:alpha passes only for a commit that was tested and smoked     *)
(* lately (validateReadinessEvidence).                                     *)
ReadinessMeansTested == focus = "evidence" => Evi!ReadinessMeansTested

(* A launch artifact stands for the present state of production            *)
(* (evaluateClosedAlphaLaunch).                                            *)
LaunchIsCurrent == focus = "launch" => Lau!LaunchIsCurrent

(* Evidence in favour never turns the decision for the worse               *)
(* (evaluateFounderExperimentDecision).                                    *)
BetterEvidenceNeverHurts ==
  [][focus = "measurement" => Mea!NotWorse]_<<focus, vars, slots>>

(* The components that run in turn use the same model values: fewer        *)
(* permutations to try.                                                    *)
Symmetry == Permutations(Submits) \cup Permutations(Questions)
=============================================================================
