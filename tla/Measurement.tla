---------------------------- MODULE Measurement ----------------------------
(***************************************************************************)
(* The supply of a Stage 1 experiment and what is measured of it: the      *)
(* balance gate of createStage1Invite, the rows that members leave behind, *)
(* and the decision that alpha:metrics derives from them.                  *)
(*                                                                         *)
(* The ten queries of a snapshot are taken at one moment here.  Times of   *)
(* day are left out: days are UTC days.  Capacity, expiry and the claim of *)
(* an invitation are in InviteRegistration, the waitlist is in Waitlist.   *)
(***************************************************************************)
EXTENDS Integers, FiniteSets, Folds, Functions

CONSTANTS
  Members,     \* those who may be invited, and then register
  CohortOf,    \* recruitment_cohort of each
  ChannelOf,   \* acquisition_channel of each
  RoleOf,      \* the bucket each would be counted in, or not_counted
  Entries,     \* of the waitlist
  Seconds,     \* from registration to the first unlock
  Lengths,     \* of a first message
  Week,        \* 7
  MinSample,   \* ALPHA_METRIC_MIN_SAMPLE
  GroupMin,    \* ALPHA_GROUP_MIN_SAMPLE
  MinDays,     \* 7, of the balance
  Others,      \* others than createStage1Invite insert invitations
  None,
  MaxDay       \* bound: the last day

VARIABLES
  today,
  invite,   \* alpha_invites
  person,   \* what the tables keep of a member
  entry,    \* waitlist_entries, with waitlist_visit_days
  snapshot  \* history: the decision of the last snapshot, as long as nothing but
            \* evidence in favour was added since

vars == <<today, invite, person, entry, snapshot>>

Counted == {"bucket_a", "bucket_b"}
Buckets == Counted \cup {"not_counted"}

(* day: of consumed_at, and of the creation of the account.                *)
Invite == [status : {"absent", "pending", "consumed"}, bucket : Buckets, day : 0 .. MaxDay]

(* seconds and length are 0 as long as there is no unlock and no message.  *)
Person ==
  [status : {"absent", "present"},
   onboarded : BOOLEAN, exposed : BOOLEAN, attempted : BOOLEAN,
   seconds : Seconds \cup {0}, length : Lengths \cup {0},
   returned : BOOLEAN]   \* alpha_activity_days has the day a Week after the first

Entry == [status : {"absent", "present"}, day : 0 .. MaxDay, revisited : BOOLEAN]

(* NO_GO_OR_REDESIGN, COLLECTING, CONDITIONAL_GO, GO: from the worst to the *)
(* best.                                                                   *)
Decisions == 0 .. 3

(* What the proofs need of the constants.                                  *)
MeasurementAssumption == RoleOf \in [Members -> Buckets] /\ MaxDay \in Nat

TypeOK ==
  /\ today \in 0 .. MaxDay
  /\ invite \in [Members -> Invite]
  /\ person \in [Members -> Person]
  /\ entry \in [Entries -> Entry]
  /\ snapshot \in Decisions \cup {None}

NoInvite == [status |-> "absent", bucket |-> "not_counted", day |-> 0]

Nobody ==
  [status |-> "absent", onboarded |-> FALSE, exposed |-> FALSE, attempted |-> FALSE,
   seconds |-> 0, length |-> 0, returned |-> FALSE]

NoEntry == [status |-> "absent", day |-> 0, revisited |-> FALSE]

Init ==
  /\ today = 0
  /\ invite = [m \in Members |-> NoInvite]
  /\ person = [m \in Members |-> Nobody]
  /\ entry = [e \in Entries |-> NoEntry]
  /\ snapshot = None

-----------------------------------------------------------------------------
(* evaluateBalanceGate.                                                    *)
Majority(a, b) == IF a >= b THEN a ELSE b

Gate(a, b) ==
  LET AtLeast(percent) == 100 * Majority(a, b) >= percent * (a + b)
  IN CASE a + b > 0 /\ AtLeast(70)                   -> "HARD_GATE"
       [] AtLeast(65) /\ ~ AtLeast(70)               -> "SOFT_WAITLIST"
       [] 10 * Majority(a, b) > 6 * (a + b) /\ ~ AtLeast(65) -> "BOOST_MINORITY"
       [] OTHER                                      -> "OPEN"

Seated(bucket) ==
  Cardinality({m \in Members : invite[m].status # "absent" /\ invite[m].bucket = bucket})

(* The refusals of createStage1Invite: the gate is that of the counts with *)
(* the invitation.                                                         *)
Admits(bucket) ==
  LET a == Seated("bucket_a") + IF bucket = "bucket_a" THEN 1 ELSE 0
      b == Seated("bucket_b") + IF bucket = "bucket_b" THEN 1 ELSE 0
      addsToMajority == \/ bucket = "bucket_a" /\ a > b
                        \/ bucket = "bucket_b" /\ b > a
  IN addsToMajority => Gate(a, b) \notin {"HARD_GATE", "SOFT_WAITLIST"}

Forget == snapshot' = None

(* The constraints of the table know of no gate.                           *)
Issue(m, bucket) ==
  /\ invite[m].status = "absent" /\ person[m].status = "absent"
  /\ Others \/ Admits(bucket)
  /\ invite' = [invite EXCEPT ![m] = [NoInvite EXCEPT !.status = "pending", !.bucket = bucket]]
  /\ UNCHANGED <<today, person, entry>> /\ Forget

(* It expires, or is revoked.                                              *)
Lapse(m) ==
  /\ invite[m].status = "pending"
  /\ invite' = [invite EXCEPT ![m] = NoInvite]
  /\ UNCHANGED <<today, person, entry>> /\ Forget

(* Registration, as far as the finalization.                               *)
Register(m) ==
  /\ invite[m].status = "pending"
  /\ invite' = [invite EXCEPT ![m].status = "consumed", ![m].day = today]
  /\ person' = [person EXCEPT ![m] = [Nobody EXCEPT !.status = "present"]]
  /\ UNCHANGED <<today, entry>> /\ Forget

(* Every call with a session leaves the day of activity (auth/server.ts).  *)
Active(m, record) ==
  /\ person[m].status = "present"
  /\ person' = [person EXCEPT ![m] =
                  [record EXCEPT !.returned = @ \/ today = invite[m].day + Week]]
  /\ UNCHANGED <<today, invite, entry>>

Visit(m) == Active(m, person[m]) /\ UNCHANGED snapshot

Onboard(m) == Active(m, [person[m] EXCEPT !.onboarded = TRUE]) /\ UNCHANGED snapshot

(* GET /api/profile/[id]: recordProfileExposure.                           *)
Expose(m) == Active(m, [person[m] EXCEPT !.exposed = TRUE]) /\ Forget

(* POST /api/answers/unlock, with an answer that fails.                    *)
Attempt(m) == Active(m, [person[m] EXCEPT !.attempted = TRUE]) /\ UNCHANGED snapshot

(* With one that unlocks the profile.                                      *)
Unlock(m, seconds) ==
  /\ person[m].seconds = 0
  /\ Active(m, [person[m] EXCEPT !.attempted = TRUE, !.seconds = seconds])
  /\ IF seconds <= 180 THEN UNCHANGED snapshot ELSE Forget

Write(m, length) ==
  /\ person[m].seconds # 0 /\ person[m].length = 0
  /\ Active(m, [person[m] EXCEPT !.length = length])
  /\ IF length >= 25 THEN UNCHANGED snapshot ELSE Forget

(* The account goes with all its rows, and the trigger takes the invitation*)
(* along.                                                                  *)
DeleteAccount(m) ==
  /\ person[m].status = "present"
  /\ person' = [person EXCEPT ![m] = Nobody]
  /\ invite' = [invite EXCEPT ![m] = NoInvite]
  /\ UNCHANGED <<today, entry>> /\ Forget

Join(e) ==
  /\ entry[e].status = "absent"
  /\ entry' = [entry EXCEPT ![e] = [NoEntry EXCEPT !.status = "present", !.day = today]]
  /\ UNCHANGED <<today, invite, person>> /\ Forget

Revisit(e) ==
  /\ entry[e].status = "present" /\ today > entry[e].day
  /\ entry' = [entry EXCEPT ![e].revisited = TRUE]
  /\ UNCHANGED <<today, invite, person>> /\ UNCHANGED snapshot

Withdraw(e) ==
  /\ entry[e].status = "present"
  /\ entry' = [entry EXCEPT ![e] = NoEntry]
  /\ UNCHANGED <<today, invite, person>> /\ Forget

Midnight ==
  /\ today < MaxDay
  /\ today' = today + 1
  /\ UNCHANGED <<invite, person, entry>> /\ Forget

-----------------------------------------------------------------------------
(* evaluateMetric and ratioMetric.                                         *)
Judge(size, minimum, passes) ==
  IF size < minimum \/ size = 0 THEN "INSUFFICIENT_DATA"
  ELSE IF passes THEN "PASS" ELSE "FAIL"

(* Mutant: the comparator of a ratio.                                      *)
RatioAtMost(part, whole, percent, minimum) ==
  LET n == Cardinality(part)  d == Cardinality(whole)
  IN Judge(d, minimum, 100 * n <= percent * d)

Ratio(part, whole, percent, minimum) ==
  LET n == Cardinality(part)  d == Cardinality(whole)
  IN Judge(d, minimum, 100 * n >= percent * d)

(* populationSql.                                                          *)
Population == {m \in Members : person[m].status = "present"}

Onboarding ==
  Ratio({m \in Population : person[m].onboarded}, Population, 75, MinSample)

(* percentile_cont(0.5): half the sum of the two values in the middle.     *)
FirstBlur ==
  LET unlockers == {m \in Population : person[m].seconds # 0}
      d == Cardinality(unlockers)
      AtMost(s) == Cardinality({m \in unlockers : person[m].seconds <= s})
      Ranked(k) == CHOOSE s \in Seconds :   \* the value at place k
                     AtMost(s) >= k /\ \A t \in Seconds : AtMost(t) >= k => s <= t
  IN Judge(d, MinSample,
           d > 0 /\ Ranked((d + 1) \div 2) + Ranked(d \div 2 + 1) <= 2 * 180)

QuestionResponse ==
  LET exposed == {m \in Population : person[m].exposed}
  IN Ratio({m \in exposed : person[m].attempted}, exposed, 55, MinSample)

FirstMessage ==
  LET senders == {m \in Population : person[m].length # 0}
      total == FoldFunctionOnSet(+, 0, [m \in Members |-> person[m].length], senders)
  IN Judge(Cardinality(senders), MinSample, total >= 25 * Cardinality(senders))

(* The groups are those with an eligible member.                           *)
Eligible == {m \in Population : invite[m].day + Week <= today}

D7(group) == Ratio({m \in group : person[m].returned}, group, 45, GroupMin)

ChannelD7 == {D7({m \in Eligible : ChannelOf[m] = c}) : c \in {ChannelOf[m] : m \in Eligible}}

CohortD7(cohort) == D7({m \in Eligible : CohortOf[m] = cohort})

WaitlistRevisit ==
  LET entries == {e \in Entries : entry[e].status = "present"}
  IN Ratio({e \in entries : entry[e].revisited}, entries, 25, MinSample)

(* supplyMaintenance: the query returns the counted buckets alone, so that *)
(* they cover all it returns.                                              *)
Balance ==
  LET Until(bucket, day) ==
        Cardinality({m \in Members : /\ invite[m].status = "consumed"
                                     /\ invite[m].bucket = bucket /\ invite[m].day <= day})
      Total(day) == Until("bucket_a", day) + Until("bucket_b", day)
      observed == {day \in 0 .. today : Total(day) > 0}
      balanced == {day \in observed :
                     10 * Majority(Until("bucket_a", day), Until("bucket_b", day))
                       <= 6 * Total(day)}
  IN Ratio(balanced, observed, 80, MinDays)

(* evaluateFounderExperimentDecision, from the worst to the best.          *)
Decision ==
  LET product == [onboarding |-> Onboarding, blur |-> FirstBlur,
                  response |-> QuestionResponse, message |-> FirstMessage]
      passed == {k \in DOMAIN product : product[k] = "PASS"}
      balance == Balance
      core == [onboarding |-> product.onboarding, response |-> product.response,
               balance |-> balance]
      stops == {k \in DOMAIN core : core[k] = "FAIL"}
      cohorts == Range(CohortOf)
      hopeless == \A c \in cohorts : CohortD7(c) = "FAIL"
      channels == ChannelD7
      waitlist == WaitlistRevisit
      immature == "INSUFFICIENT_DATA" \in
                    Range(product) \cup channels \cup {waitlist, balance}
  IN IF Cardinality(stops) >= 2 \/ hopeless THEN 0                   \* NO_GO_OR_REDESIGN
     ELSE IF Cardinality(passed) >= 3 /\ "PASS" \in channels /\ waitlist = "PASS"
          THEN 3                                                     \* GO
     ELSE IF Cardinality(passed) < 3 /\ immature THEN 1              \* COLLECTING
     ELSE 2                                                          \* CONDITIONAL_GO

-----------------------------------------------------------------------------
(* alpha:metrics.                                                          *)
Snapshot ==
  /\ snapshot' = Decision
  /\ UNCHANGED <<today, invite, person, entry>>

Next ==
  \/ \E m \in Members :
       \/ \E bucket \in {RoleOf[m], "not_counted"} : Issue(m, bucket)
       \/ Lapse(m) \/ Register(m)
       \/ Visit(m) \/ Onboard(m) \/ Expose(m) \/ Attempt(m)
       \/ \E s \in Seconds : Unlock(m, s)
       \/ \E l \in Lengths : Write(m, l)
       \/ DeleteAccount(m)
  \/ \E e \in Entries : Join(e) \/ Revisit(e) \/ Withdraw(e)
  \/ Midnight \/ Snapshot

Spec == Init /\ [][Next]_vars

-----------------------------------------------------------------------------
(* The later of two decisions is not the lower one.                        *)
NotWorse == snapshot # None /\ snapshot' # None => snapshot' >= snapshot

(* Evidence in favour never turns the decision for the worse: whoever comes*)
(* back, completes the onboarding, answers, unlocks soon or writes at      *)
(* length between two snapshots, no sample that becomes large enough by it *)
(* and no rule that comes before another makes the later decision a lower  *)
(* one (evaluateFounderExperimentDecision).                                *)
BetterEvidenceNeverHurts == [][NotWorse]_vars

(* While the gate is OPEN, invitations go out as normal: at least those   *)
(* who would be counted in one of the buckets can be invited.              *)
OpenGateAdmits ==
  Gate(Seated("bucket_a"), Seated("bucket_b")) = "OPEN" => \E b \in Counted : Admits(b)
=============================================================================
