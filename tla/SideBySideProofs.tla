-------------------------- MODULE SideBySideProofs --------------------------
(***************************************************************************)
(* Unlocks are earned once; a commit passes the readiness check only when  *)
(* it was tested and smoked lately; and a launch artifact stands for the   *)
(* present state of production: for any number of members, questions,      *)
(* submissions, reads, commits and facts, and for any ages.  The last part *)
(* carries these, and what OnboardingProofs and DepthServiceProofs prove,  *)
(* over to the behaviors of MCSideBySide.                                  *)
(***************************************************************************)
EXTENDS MCSideBySide, Integers, TLAPS

-----------------------------------------------------------------------------
(* Unlock.                                                                 *)

(* A configured question is always an active one.                          *)
ConfigIsActive == config # None => config \in active

(* What a submission has found out or done so far still holds.             *)
SubmissionOK(s) ==
  LET pc == submit[s].pc IN
  /\ pc # "idle" => Sides(s) \subseteq Users
  /\ pc \notin {"idle", "refused"} => submit[s].viewer # submit[s].target
  /\ submit[s].seeded => config # None
  /\ pc \in {"configured", "asked"} => submit[s].question \in active
  /\ pc \in InTransaction \cup {"unlocked"} => submit[s].verdict = "PASS"
  /\ pc = "conflicted" => Pair(s) \in unlocks
  /\ pc = "unlocked" /\ (\A u \in Sides(s) : Live(u)) => Pair(s) \in unlocks
  /\ submit[s].stored => pc \in {"unlocked", "idempotent", "evaluated", "failed"}
  /\ s \in attempts => submit[s].stored

(* The reads that have passed the check rest on a passing answer.          *)
ReadOK(r) ==
  read[r].pc \in {"authorized", "delivered"} =>
    /\ read[r].viewer # read[r].target
    /\ \E s \in Submits :
         /\ submit[s].stored /\ submit[s].verdict = "PASS"
         /\ Pair(s) = <<read[r].viewer, read[r].target>>

IInv ==
  /\ UnlockAssumption
  /\ TypeOK
  /\ ConfigIsActive
  /\ \A s \in Submits : SubmissionOK(s)
  /\ UnlocksAreEarned
  /\ UnlockedOnce
  /\ NeverDuplicate
  /\ QuestionStaysConfigured
  /\ \A r \in Reads : ReadOK(r)

LEMMA InitHolds == UnlockAssumption /\ Init => IInv
  BY DEF UnlockAssumption, Init, IInv, TypeOK, ConfigIsActive, SubmissionOK, ReadOK, UnlocksAreEarned,
         UnlockedOnce, NeverDuplicate, QuestionStaysConfigured, Passed, Pair, Sides,
         Submission, PrivateRead, InTransaction, Ended, Live

(* An update of one submission leaves the others as they are.              *)
LEMMA OthersKept ==
  ASSUME submit \in [Submits -> Submission], NEW s \in Submits, NEW row \in Submission,
         submit' = [submit EXCEPT ![s] = row]
  PROVE  /\ submit' \in [Submits -> Submission]
         /\ submit'[s] = row
         /\ \A q \in Submits : q # s => submit'[q] = submit[q]
  OBVIOUS

(* A submission that changes in no way its unlock or its attempt depends   *)
(* on leaves everything about the unlocks true.                            *)
LEMMA EarnedKept ==
  ASSUME IInv, UNCHANGED <<attempts, unlocks>>, NEW s \in Submits,
         ~ submit[s].stored,
         \A q \in Submits : q # s => submit'[q] = submit[q]
  PROVE  UnlocksAreEarned'
<1>1. s \notin attempts
  BY DEF IInv, SubmissionOK
<1>2. \A q \in attempts : submit'[q] = submit[q]
  BY <1>1 DEF IInv, TypeOK
<1>3. Passed' = Passed
  BY <1>2 DEF Passed, Pair
<1> QED
  BY <1>3 DEF IInv, UnlocksAreEarned

(* Reads keep the answer they rest on.                                     *)
LEMMA ReadsKept ==
  ASSUME IInv, UNCHANGED read, NEW s \in Submits, ~ submit[s].stored,
         \A q \in Submits : q # s => submit'[q] = submit[q]
  PROVE  \A r \in Reads : ReadOK(r)'
  BY DEF IInv, ReadOK, Pair

-----------------------------------------------------------------------------
(* ------------------------- steps of submissions ------------------------- *)

LEMMA FindTargetHolds ==
  ASSUME IInv, NEW s \in Submits, NEW v \in Users, NEW t \in Users, FindTarget(s, v, t)
  PROVE  IInv'
<1> DEFINE row == [submit[s] EXCEPT !.viewer = v, !.target = t, !.seeded = config # None,
              !.pc = IF member[t] = "onboarded" /\ v # t THEN "found" ELSE "refused"]
<1>1. /\ submit[s] \in Submission /\ submit[s].pc = "idle" /\ ~ submit[s].stored
      /\ submit[s].question \in Questions \cup {None}
  BY DEF IInv, TypeOK, SubmissionOK, FindTarget, Submission
<1>2. row \in Submission /\ submit' = [submit EXCEPT ![s] = row]
  BY <1>1 DEF FindTarget, Submission, IInv, TypeOK
<1>3. /\ submit' \in [Submits -> Submission] /\ submit'[s] = row
      /\ \A q \in Submits : q # s => submit'[q] = submit[q]
  BY <1>2, OthersKept DEF IInv, TypeOK
<1>4. row.pc \in {"found", "refused"} /\ row.viewer = v /\ row.target = t
      /\ (row.pc = "found" => v # t) /\ ~ row.stored /\ row.seeded = (config # None)
  BY <1>1 DEF Submission
<1> HIDE DEF row
<1>5. TypeOK'
  BY <1>3, <1>4 DEF IInv, TypeOK, FindTarget, Live, Sides, Pair, InTransaction
<1>6. \A q \in Submits : SubmissionOK(q)'
  <2> UNCHANGED <<member, letters, active, config, attempts, unlocks, read>>
    BY DEF FindTarget
  <2>1. SubmissionOK(s)'
    <3>1. s \notin attempts
      BY <1>1 DEF IInv, SubmissionOK
    <3>2. Sides(s)' = {v, t}
      BY <1>3, <1>4 DEF Sides
    <3> QED
      BY <1>3, <1>4, <3>1, <3>2 DEF SubmissionOK, InTransaction
  <2>2. ASSUME NEW q \in Submits, q # s PROVE SubmissionOK(q)'
    <3>1. submit'[q] = submit[q] /\ Sides(q)' = Sides(q) /\ Pair(q)' = Pair(q)
      BY <1>3, <2>2 DEF Sides, Pair
    <3> QED
      BY <3>1 DEF IInv, SubmissionOK, Live
  <2> QED
    BY <2>1, <2>2
<1>7. UnlockedOnce' /\ NeverDuplicate' /\ QuestionStaysConfigured' /\ ConfigIsActive'
  BY <1>3, <1>4 DEF IInv, UnlockedOnce, NeverDuplicate, QuestionStaysConfigured,
                    ConfigIsActive, FindTarget, Pair
<1>8. UnlocksAreEarned' /\ \A r \in Reads : ReadOK(r)'
  BY <1>1, <1>3, EarnedKept, ReadsKept DEF FindTarget
<1> QED
  BY <1>5, <1>6, <1>7, <1>8 DEF IInv

(* A submission that moves on without storing anything: what each of the   *)
(* invariant's parts needs to know of the move.                            *)
LEMMA MoveHolds ==
  ASSUME IInv, NEW s \in Submits, NEW row \in Submission,
         submit' = [submit EXCEPT ![s] = row],
         UNCHANGED <<member, letters, active, config, attempts, unlocks, read>>,
         submit[s].pc \notin {"idle"} \cup Ended,
         row.viewer = submit[s].viewer, row.target = submit[s].target,
         row.seeded = submit[s].seeded, ~ row.stored,
         row.pc \notin {"idle", "refused", "unlocked", "duplicate"},
         row.pc = "unconfigured" => ~ submit[s].seeded,
         row.pc \in {"configured", "asked"} => row.question \in active,
         row.pc \in InTransaction =>
           row.verdict = "PASS" /\ (\A u \in Sides(s) : Live(u)),
         row.pc = "conflicted" => Pair(s) \in unlocks,
         row.pc = "inserted" => Pair(s) \notin unlocks /\ ~ Contended(s)
  PROVE  IInv'
<1>1. ~ submit[s].stored /\ s \notin attempts
  BY DEF IInv, SubmissionOK, Ended
<1>2. /\ submit' \in [Submits -> Submission] /\ submit'[s] = row
      /\ \A q \in Submits : q # s => submit'[q] = submit[q]
  BY OthersKept DEF IInv, TypeOK
<1>3. /\ Sides(s) \subseteq Users /\ submit[s].viewer # submit[s].target
      /\ \A q \in Submits : Sides(q)' = Sides(q) /\ Pair(q)' = Pair(q)
      /\ \A u \in Users : Live(u)' = Live(u)
  BY <1>2 DEF IInv, SubmissionOK, Sides, Pair, Ended, Live
<1>4. TypeOK'
  BY <1>2, <1>3 DEF IInv, TypeOK, Contended
<1>5. \A q \in Submits : SubmissionOK(q)'
  <2>1. SubmissionOK(s)'
    BY <1>1, <1>2, <1>3 DEF IInv, SubmissionOK
  <2>2. ASSUME NEW q \in Submits, q # s PROVE SubmissionOK(q)'
    BY <1>2, <1>3, <2>2 DEF IInv, SubmissionOK
  <2> QED
    BY <2>1, <2>2
<1>6. UnlockedOnce' /\ NeverDuplicate' /\ QuestionStaysConfigured' /\ ConfigIsActive'
  BY <1>2, <1>3 DEF IInv, UnlockedOnce, NeverDuplicate, QuestionStaysConfigured,
                    ConfigIsActive
<1>7. UnlocksAreEarned' /\ \A r \in Reads : ReadOK(r)'
  BY <1>1, <1>2, EarnedKept, ReadsKept
<1> QED
  BY <1>4, <1>5, <1>6, <1>7 DEF IInv

LEMMA ReadConfigHolds ==
  ASSUME IInv, NEW s \in Submits, ReadConfig(s)
  PROVE  IInv'
<1> DEFINE row == [submit[s] EXCEPT !.question = config,
              !.pc = IF config = None THEN "unconfigured" ELSE "configured"]
<1>1. submit[s] \in Submission /\ submit[s].pc = "found" /\ ~ submit[s].stored
  BY DEF IInv, TypeOK, SubmissionOK, ReadConfig, Submission
<1>2. row \in Submission /\ submit' = [submit EXCEPT ![s] = row]
  BY <1>1 DEF ReadConfig, Submission, IInv, TypeOK
<1>3. config = None => ~ submit[s].seeded
  BY DEF IInv, SubmissionOK
<1>4. config # None => config \in active
  BY DEF IInv, ConfigIsActive
<1> QED
  BY <1>1, <1>2, <1>3, <1>4, MoveHolds DEF ReadConfig, Submission, Ended, InTransaction

LEMMA ReadQuestionHolds ==
  ASSUME IInv, NEW s \in Submits, ReadQuestion(s)
  PROVE  IInv'
<1> DEFINE row == [submit[s] EXCEPT !.pc = "asked"]
<1>1. submit[s] \in Submission /\ submit[s].pc = "configured" /\ ~ submit[s].stored
      /\ submit[s].question \in active
  BY DEF IInv, TypeOK, SubmissionOK, ReadQuestion, Submission
<1>2. row \in Submission /\ submit' = [submit EXCEPT ![s] = row]
  BY <1>1 DEF ReadQuestion, Goto, Submission, IInv, TypeOK
<1> QED
  BY <1>1, <1>2, MoveHolds DEF ReadQuestion, Submission, Ended, InTransaction

LEMMA FailHolds ==
  ASSUME IInv, NEW s \in Submits, Fail(s)
  PROVE  IInv'
<1> DEFINE row == [submit[s] EXCEPT !.pc = "failed"]
<1>1. submit[s] \in Submission /\ ~ submit[s].stored
      /\ submit[s].pc \notin {"idle"} \cup Ended
  BY DEF IInv, TypeOK, SubmissionOK, Fail, Submission, InTransaction, Ended
<1>2. row \in Submission /\ submit' = [submit EXCEPT ![s] = row]
  BY <1>1 DEF Fail, Goto, Submission, IInv, TypeOK, Ended
<1> QED
  BY <1>1, <1>2, MoveHolds DEF Fail, Submission, Ended, InTransaction

LEMMA InsertUnlockHolds ==
  ASSUME IInv, NEW s \in Submits, InsertUnlock(s)
  PROVE  IInv'
<1> DEFINE row == [submit[s] EXCEPT
              !.pc = IF Pair(s) \in unlocks THEN "conflicted" ELSE "inserted"]
<1>1. submit[s] \in Submission /\ submit[s].pc = "attempted" /\ ~ submit[s].stored
      /\ submit[s].verdict = "PASS"
  BY DEF IInv, TypeOK, SubmissionOK, InsertUnlock, Submission, InTransaction
<1>2. row \in Submission /\ submit' = [submit EXCEPT ![s] = row]
  BY <1>1 DEF InsertUnlock, Goto, Submission, IInv, TypeOK, InTransaction
<1>3. \A u \in Sides(s) : Live(u)
  BY <1>1 DEF IInv, TypeOK, InTransaction
<1> QED
  BY <1>1, <1>2, <1>3, MoveHolds DEF InsertUnlock, Submission, Ended, InTransaction

(* An answer that passes opens the transaction; one that does not is the   *)
(* whole of it; a side that has left refuses either.                       *)
LEMMA InsertAttemptHolds ==
  ASSUME IInv, NEW s \in Submits, NEW verdict \in Verdicts, InsertAttempt(s, verdict)
  PROVE  IInv'
<1> DEFINE gone == \E u \in Sides(s) : ~ Live(u)
           pc == CASE gone                         -> "failed"
                   [] ~ gone /\ verdict = "PASS"  -> "attempted"
                   [] ~ gone /\ verdict # "PASS"  -> "evaluated"
           row == [submit[s] EXCEPT !.verdict = verdict, !.pc = pc,
                     !.stored = (pc = "evaluated")]
<1>1. submit[s] \in Submission /\ submit[s].pc = "asked" /\ ~ submit[s].stored
  BY DEF IInv, TypeOK, SubmissionOK, InsertAttempt, Submission
<1>2. pc \in {"failed", "attempted", "evaluated"}
  BY DEF Verdicts
<1>3. /\ submit' = [submit EXCEPT ![s].verdict = verdict, ![s].pc = pc,
                        ![s].stored = (pc = "evaluated")]
      /\ attempts' = IF pc = "evaluated" THEN attempts \cup {s} ELSE attempts
      /\ UNCHANGED <<member, letters, active, config, unlocks, read>>
  BY Zenon DEF InsertAttempt
<1>4. pc = "attempted" => verdict = "PASS" /\ ~ gone
  BY DEF Verdicts
<1>5. pc = "evaluated" => verdict # "PASS" /\ ~ gone
  BY DEF Verdicts
<1> HIDE DEF pc, gone
<1>6. /\ row \in Submission /\ submit' = [submit EXCEPT ![s] = row]
      /\ row.pc = pc /\ row.verdict = verdict /\ row.stored = (pc = "evaluated")
      /\ row.viewer = submit[s].viewer /\ row.target = submit[s].target
      /\ row.seeded = submit[s].seeded
  BY <1>1, <1>2, <1>3 DEF Submission, IInv, TypeOK, InTransaction, Ended
<1> HIDE DEF row
<1>7. CASE pc # "evaluated"
  <2>1. \A u \in Sides(s) : pc = "attempted" => Live(u)
    BY <1>4 DEF gone
  <2> QED
    BY <1>1, <1>2, <1>3, <1>4, <1>6, <1>7, <2>1, MoveHolds
       DEF InTransaction, Ended
<1>8. CASE pc = "evaluated"
  <2>1. /\ submit' \in [Submits -> Submission] /\ submit'[s] = row
        /\ \A q \in Submits : q # s => submit'[q] = submit[q]
    BY <1>6, OthersKept DEF IInv, TypeOK
  <2>2. /\ Sides(s) \subseteq Users /\ submit[s].viewer # submit[s].target
        /\ \A q \in Submits : Sides(q)' = Sides(q) /\ Pair(q)' = Pair(q)
        /\ \A u \in Users : Live(u)' = Live(u)
    BY <1>1, <1>3, <1>6, <2>1 DEF IInv, SubmissionOK, Sides, Pair, Live
  <2>3. TypeOK'
    BY <1>3, <1>6, <1>8, <2>1, <2>2 DEF IInv, TypeOK, InTransaction
  <2>4. \A q \in Submits : SubmissionOK(q)'
    <3>1. SubmissionOK(s)'
      BY <1>1, <1>3, <1>6, <1>8, <2>1, <2>2 DEF IInv, SubmissionOK, InTransaction
    <3>2. ASSUME NEW q \in Submits, q # s PROVE SubmissionOK(q)'
      BY <1>3, <2>1, <2>2, <3>2 DEF IInv, SubmissionOK
    <3> QED
      BY <3>1, <3>2
  <2>5. UnlockedOnce' /\ NeverDuplicate' /\ QuestionStaysConfigured' /\ ConfigIsActive'
    BY <1>3, <1>6, <1>8, <2>1, <2>2
       DEF IInv, UnlockedOnce, NeverDuplicate, QuestionStaysConfigured, ConfigIsActive
  <2>6. \A r \in Reads : ReadOK(r)'
    BY <1>1, <1>3, <2>1, ReadsKept
  <2>7. UnlocksAreEarned'
    <3>1. s \notin attempts
      BY <1>1 DEF IInv, SubmissionOK
    <3>2. attempts' = attempts \cup {s} /\ submit'[s].verdict # "PASS"
      BY <1>3, <1>5, <1>6, <1>8, <2>1
    <3>3. \A q \in attempts : submit'[q] = submit[q]
      BY <2>1, <3>1 DEF IInv, TypeOK
    <3>4. {a \in attempts' : submit'[a].verdict = "PASS"}
            = {a \in attempts : submit[a].verdict = "PASS"}
      BY <3>2, <3>3
    <3>5. Passed' = Passed
      BY <3>3, <3>4 DEF Passed, Pair
    <3> QED
      BY <1>3, <3>5 DEF IInv, UnlocksAreEarned
  <2> QED
    BY <2>3, <2>4, <2>5, <2>6, <2>7 DEF IInv
<1> QED
  BY <1>7, <1>8

(* What both ways to commit a passing transaction have in common: the row  *)
(* of the submission changes in its state only, and is stored.             *)
LEMMA StoredRow ==
  ASSUME IInv, NEW s \in Submits, NEW pc \in {"unlocked", "idempotent", "failed"},
         submit[s].pc \in InTransaction, Stored(s, pc),
         UNCHANGED <<member, letters, active, config, read>>
  PROVE  /\ submit' \in [Submits -> Submission]
         /\ submit'[s].pc = pc /\ submit'[s].stored /\ submit'[s].verdict = "PASS"
         /\ submit'[s].viewer # submit'[s].target
         /\ submit'[s].seeded = submit[s].seeded
         /\ \A q \in Submits : q # s => submit'[q] = submit[q]
         /\ \A q \in Submits : Sides(q)' = Sides(q) /\ Pair(q)' = Pair(q)
         /\ \A u \in Users : Live(u)' = Live(u)
         /\ Sides(s) \subseteq {u \in Users : Live(u)}
         /\ s \notin attempts
<1> DEFINE row == [submit[s] EXCEPT !.pc = pc, !.stored = TRUE]
<1>1. /\ submit[s] \in Submission /\ submit[s].verdict = "PASS" /\ s \notin attempts
      /\ submit[s].viewer # submit[s].target /\ Sides(s) \subseteq {u \in Users : Live(u)}
  BY DEF IInv, TypeOK, SubmissionOK, InTransaction
<1>2. row \in Submission /\ submit' = [submit EXCEPT ![s] = row]
  BY <1>1 DEF Stored, Submission, IInv, TypeOK, Ended
<1>3. /\ submit' \in [Submits -> Submission] /\ submit'[s] = row
      /\ \A q \in Submits : q # s => submit'[q] = submit[q]
  BY <1>2, OthersKept DEF IInv, TypeOK
<1>4. /\ row.pc = pc /\ row.stored /\ row.verdict = submit[s].verdict
      /\ row.viewer = submit[s].viewer /\ row.target = submit[s].target
      /\ row.seeded = submit[s].seeded
  BY <1>1 DEF Submission
<1> HIDE DEF row
<1>5. \A q \in Submits : Sides(q)' = Sides(q) /\ Pair(q)' = Pair(q)
  BY <1>3, <1>4 DEF Sides, Pair
<1> QED
  BY <1>1, <1>3, <1>4, <1>5 DEF Live

(* The audit trail gains the passing attempt of s.                         *)
LEMMA PassedGrows ==
  ASSUME IInv, NEW s \in Submits, s \notin attempts, attempts' = attempts \cup {s},
         submit'[s].verdict = "PASS", Pair(s)' = Pair(s),
         \A q \in Submits : q # s => submit'[q] = submit[q]
  PROVE  Passed' = Passed \cup {Pair(s)}
<1>1. \A q \in attempts : submit'[q] = submit[q] /\ Pair(q)' = Pair(q)
  BY DEF IInv, TypeOK, Pair
<1>2. {a \in attempts' : submit'[a].verdict = "PASS"}
        = {a \in attempts : submit[a].verdict = "PASS"} \cup {s}
  BY <1>1
<1> QED
  BY <1>1, <1>2 DEF Passed

LEMMA ReadsGrow ==
  ASSUME IInv, UNCHANGED read, NEW s \in Submits, s \notin attempts,
         submit'[s].stored, submit'[s].verdict = "PASS", Pair(s)' = Pair(s),
         submit[s].stored => submit[s].verdict = "PASS",
         \A q \in Submits : q # s => submit'[q] = submit[q]
  PROVE  \A r \in Reads : ReadOK(r)'
<1>1. \A q \in Submits : submit[q].stored /\ submit[q].verdict = "PASS" =>
        submit'[q].stored /\ submit'[q].verdict = "PASS" /\ Pair(q)' = Pair(q)
  BY DEF Pair
<1> QED
  BY <1>1 DEF IInv, ReadOK

LEMMA CommitHolds ==
  ASSUME IInv, NEW s \in Submits, NEW pc \in {"unlocked", "failed"}, Commit(s, pc)
  PROVE  IInv'
<1>1. /\ submit[s].pc = "inserted" /\ submit[s].pc \in InTransaction /\ Stored(s, pc)
      /\ UNCHANGED <<member, letters, active, config, read>>
      /\ attempts' = attempts \cup {s} /\ unlocks' = unlocks \cup {Pair(s)}
  BY DEF Commit, InTransaction
<1>2. /\ submit' \in [Submits -> Submission]
      /\ submit'[s].pc = pc /\ submit'[s].stored /\ submit'[s].verdict = "PASS"
      /\ submit'[s].viewer # submit'[s].target
      /\ submit'[s].seeded = submit[s].seeded
      /\ \A q \in Submits : q # s => submit'[q] = submit[q]
      /\ \A q \in Submits : Sides(q)' = Sides(q) /\ Pair(q)' = Pair(q)
      /\ \A u \in Users : Live(u)' = Live(u)
      /\ Sides(s) \subseteq {u \in Users : Live(u)}
      /\ s \notin attempts
  BY <1>1, StoredRow
<1>3. Pair(s) \notin unlocks
      /\ \A q \in Submits : submit[q].pc = "inserted" /\ Pair(q) = Pair(s) => q = s
  BY <1>1 DEF IInv, TypeOK
<1>4. Pair(s)[1] # Pair(s)[2] /\ Pair(s)' = Pair(s)
  BY <1>2 DEF Pair
<1>5. TypeOK'
  <2>1. unlocks' \subseteq {u \in Users : Live(u)'} \X {u \in Users : Live(u)'}
    BY <1>1, <1>2 DEF IInv, TypeOK, Sides, Pair
  <2>2. \A q \in Submits : submit'[q].pc \in InTransaction =>
          Sides(q)' \subseteq {u \in Users : Live(u)'}
    BY <1>1, <1>2 DEF IInv, TypeOK, InTransaction
  <2>3. \A q \in Submits : submit'[q].pc = "inserted" =>
          /\ Pair(q)' \notin unlocks'
          /\ \A p \in Submits : submit'[p].pc = "inserted" /\ Pair(p)' = Pair(q)' => p = q
    BY <1>1, <1>2, <1>3 DEF IInv, TypeOK
  <2> QED
    BY <1>1, <1>2, <2>1, <2>2, <2>3 DEF IInv, TypeOK
<1>6. \A q \in Submits : SubmissionOK(q)'
  <2>1. SubmissionOK(s)'
    BY <1>1, <1>2 DEF IInv, SubmissionOK, InTransaction
  <2>2. ASSUME NEW q \in Submits, q # s PROVE SubmissionOK(q)'
    <3>1. Sides(q)' = Sides(q) /\ Pair(q)' = Pair(q) /\ submit'[q] = submit[q]
          /\ SubmissionOK(q)
      BY <1>2, <2>2 DEF IInv
    <3>2. submit[q].pc # "idle" => Sides(q) \subseteq Users
      BY <3>1 DEF SubmissionOK
    <3>3. (\A u \in Sides(q)' : Live(u)') /\ submit[q].pc = "unlocked"
            => \A u \in Sides(q) : Live(u)
      BY <1>2, <3>1, <3>2
    <3> QED
      BY <1>1, <2>2, <3>1, <3>3 DEF SubmissionOK
  <2> QED
    BY <2>1, <2>2
<1>7. UnlockedOnce'
  <2>1. ASSUME NEW q \in Submits, q # s, submit[q].pc = "unlocked", Pair(q) = Pair(s)
        PROVE  FALSE
    <3>1. \A u \in Sides(q) : Live(u)
      BY <1>2, <2>1 DEF Sides, Pair
    <3> QED
      BY <1>3, <2>1, <3>1 DEF IInv, SubmissionOK
  <2> QED
    BY <1>2, <2>1 DEF IInv, UnlockedOnce
<1>8. NeverDuplicate' /\ QuestionStaysConfigured' /\ ConfigIsActive'
  BY <1>1, <1>2 DEF IInv, NeverDuplicate, QuestionStaysConfigured, ConfigIsActive
<1>9. UnlocksAreEarned'
  BY <1>1, <1>2, <1>4, PassedGrows DEF IInv, UnlocksAreEarned
<1>10. \A r \in Reads : ReadOK(r)'
  BY <1>1, <1>2, ReadsGrow DEF IInv, SubmissionOK
<1> QED
  BY <1>5, <1>6, <1>7, <1>8, <1>9, <1>10 DEF IInv

LEMMA FindUnlockHolds ==
  ASSUME IInv, NEW s \in Submits, FindUnlock(s)
  PROVE  IInv'
<1>1. /\ submit[s].pc = "conflicted" /\ submit[s].pc \in InTransaction
      /\ Pair(s) \in unlocks /\ Stored(s, "idempotent")
      /\ UNCHANGED <<member, letters, active, config, read, unlocks>>
      /\ attempts' = attempts \cup {s}
  BY DEF FindUnlock, InTransaction, IInv, SubmissionOK
<1>2. /\ submit' \in [Submits -> Submission]
      /\ submit'[s].pc = "idempotent" /\ submit'[s].stored /\ submit'[s].verdict = "PASS"
      /\ submit'[s].viewer # submit'[s].target
      /\ submit'[s].seeded = submit[s].seeded
      /\ \A q \in Submits : q # s => submit'[q] = submit[q]
      /\ \A q \in Submits : Sides(q)' = Sides(q) /\ Pair(q)' = Pair(q)
      /\ \A u \in Users : Live(u)' = Live(u)
      /\ Sides(s) \subseteq {u \in Users : Live(u)}
      /\ s \notin attempts
  BY <1>1, StoredRow
<1>3. TypeOK'
  <2>1. \A q \in Submits : submit'[q].pc \in InTransaction =>
          Sides(q)' \subseteq {u \in Users : Live(u)'}
    BY <1>1, <1>2 DEF IInv, TypeOK, InTransaction
  <2>2. \A q \in Submits : submit'[q].pc = "inserted" =>
          /\ Pair(q)' \notin unlocks'
          /\ \A p \in Submits : submit'[p].pc = "inserted" /\ Pair(p)' = Pair(q)' => p = q
    BY <1>1, <1>2 DEF IInv, TypeOK
  <2> QED
    BY <1>1, <1>2, <2>1, <2>2 DEF IInv, TypeOK
<1>4. \A q \in Submits : SubmissionOK(q)'
  <2>1. SubmissionOK(s)'
    BY <1>1, <1>2 DEF IInv, SubmissionOK, InTransaction
  <2>2. ASSUME NEW q \in Submits, q # s PROVE SubmissionOK(q)'
    <3>1. Sides(q)' = Sides(q) /\ Pair(q)' = Pair(q) /\ submit'[q] = submit[q]
          /\ SubmissionOK(q)
      BY <1>2, <2>2 DEF IInv
    <3>2. submit[q].pc # "idle" => Sides(q) \subseteq Users
      BY <3>1 DEF SubmissionOK
    <3>3. (\A u \in Sides(q)' : Live(u)') /\ submit[q].pc = "unlocked"
            => \A u \in Sides(q) : Live(u)
      BY <1>2, <3>1, <3>2
    <3> QED
      BY <1>1, <2>2, <3>1, <3>3 DEF SubmissionOK
  <2> QED
    BY <2>1, <2>2
<1>5. UnlockedOnce' /\ NeverDuplicate' /\ QuestionStaysConfigured' /\ ConfigIsActive'
  BY <1>1, <1>2 DEF IInv, UnlockedOnce, NeverDuplicate, QuestionStaysConfigured,
                    ConfigIsActive
<1>6. UnlocksAreEarned'
  BY <1>1, <1>2, PassedGrows DEF IInv, UnlocksAreEarned
<1>7. \A r \in Reads : ReadOK(r)'
  BY <1>1, <1>2, ReadsGrow DEF IInv, SubmissionOK
<1> QED
  BY <1>3, <1>4, <1>5, <1>6, <1>7 DEF IInv

-----------------------------------------------------------------------------
(* -------------------- members, seeds and reads -------------------------- *)

(* Deletion takes the attempts and the unlocks of a member together, and   *)
(* waits for the transactions that hold one of them in hand.               *)
LEMMA DeleteUserHolds ==
  ASSUME IInv, NEW u \in Users, DeleteUser(u)
  PROVE  IInv'
<1>1. /\ Live(u) /\ UNCHANGED <<active, config, submit, read>>
      /\ member' = [member EXCEPT ![u] = "deleted"]
      /\ letters' = letters \ {u}
      /\ attempts' = {s \in attempts : u \notin Sides(s)}
      /\ unlocks' = {pair \in unlocks : u \notin {pair[1], pair[2]}}
      /\ \A s \in Submits : submit[s].pc \in InTransaction => u \notin Sides(s)
  BY DEF DeleteUser, KeyShared
<1>2. \A w \in Users : Live(w)' <=> Live(w) /\ w # u
  BY <1>1 DEF IInv, TypeOK, Live
<1>3. \A s \in Submits : Sides(s)' = Sides(s) /\ Pair(s)' = Pair(s)
  BY <1>1 DEF Sides, Pair
<1>4. \A s \in Submits : u \notin Sides(s) <=> u \notin {Pair(s)[1], Pair(s)[2]}
  BY DEF Sides, Pair
<1>5. TypeOK'
  <2>1. letters' \subseteq {w \in Users : Live(w)'}
    BY <1>1, <1>2 DEF IInv, TypeOK
  <2>2. unlocks' \subseteq {w \in Users : Live(w)'} \X {w \in Users : Live(w)'}
    BY <1>1, <1>2 DEF IInv, TypeOK
  <2>3. member' \in [Users -> {"registered", "onboarded", "deleted"}]
    BY <1>1 DEF IInv, TypeOK
  <2>4. \A s \in Submits : submit'[s].pc \in InTransaction =>
          Sides(s)' \subseteq {w \in Users : Live(w)'}
    BY <1>1, <1>2, <1>3 DEF IInv, TypeOK
  <2> QED
    BY <1>1, <1>3, <2>1, <2>2, <2>3, <2>4 DEF IInv, TypeOK
<1>6. ASSUME NEW s \in Submits PROVE SubmissionOK(s)'
  <2>1. SubmissionOK(s) /\ Sides(s)' = Sides(s) /\ Pair(s)' = Pair(s)
    BY <1>3 DEF IInv
  <2>2. Pair(s) \in unlocks /\ u \notin Sides(s) => Pair(s) \in unlocks'
    BY <1>1, <1>4
  <2>3. submit[s].pc = "conflicted" => u \notin Sides(s)
    BY <1>1 DEF InTransaction
  <2>4. submit[s].pc = "unlocked" /\ (\A w \in Sides(s) : Live(w)')
          => u \notin Sides(s) /\ \A w \in Sides(s) : Live(w)
    BY <1>2, <2>1 DEF SubmissionOK
  <2> QED
    BY <1>1, <2>1, <2>2, <2>3, <2>4 DEF SubmissionOK
<1>7. UnlocksAreEarned'
  <2>1. Passed' = {Pair(s) : s \in {a \in attempts' : submit[a].verdict = "PASS"}}
    BY <1>1 DEF Passed, Pair
  <2>2. \A pair : pair \in Passed' <=> pair \in Passed /\ u \notin {pair[1], pair[2]}
    BY <1>1, <1>4, <2>1 DEF Passed, IInv, TypeOK
  <2> QED
    BY <1>1, <2>2 DEF IInv, UnlocksAreEarned
<1>8. UnlockedOnce' /\ NeverDuplicate' /\ QuestionStaysConfigured' /\ ConfigIsActive'
  BY <1>1, <1>3 DEF IInv, UnlockedOnce, NeverDuplicate, QuestionStaysConfigured,
                    ConfigIsActive
<1>9. \A r \in Reads : ReadOK(r)'
  BY <1>1, <1>3 DEF IInv, ReadOK
<1> QED
  BY <1>5, <1>6, <1>7, <1>8, <1>9 DEF IInv

(* A step that leaves accounts in being, and the submissions alone.        *)
LEMMA AsideHolds ==
  ASSUME IInv, UNCHANGED <<attempts, unlocks, submit, read>>,
         member' \in [Users -> {"registered", "onboarded", "deleted"}],
         \A u \in Users : Live(u)' = Live(u),
         letters' \subseteq {u \in Users : Live(u)},
         active \subseteq active', active' \subseteq Questions,
         config' \in active' \cup {None}, config' = None => config = None
  PROVE  IInv'
<1>1. \A s \in Submits : Sides(s)' = Sides(s) /\ Pair(s)' = Pair(s)
  BY DEF Sides, Pair
<1>2. Passed' = Passed
  BY DEF Passed, Pair
<1>3. TypeOK'
  BY <1>1 DEF IInv, TypeOK
<1>4. ASSUME NEW s \in Submits PROVE SubmissionOK(s)'
  BY <1>1 DEF IInv, SubmissionOK
<1>5. UnlocksAreEarned' /\ UnlockedOnce' /\ NeverDuplicate' /\ QuestionStaysConfigured'
      /\ ConfigIsActive' /\ \A r \in Reads : ReadOK(r)'
  BY <1>1, <1>2 DEF IInv, UnlocksAreEarned, UnlockedOnce, NeverDuplicate,
                    QuestionStaysConfigured, ConfigIsActive, ReadOK
<1> QED
  BY <1>3, <1>4, <1>5 DEF IInv

LEMMA OnboardHolds ==
  ASSUME IInv, NEW u \in Users, Onboard(u)
  PROVE  IInv'
<1>1. \A w \in Users : Live(w)' = Live(w)
  BY DEF Onboard, Live, IInv, TypeOK
<1> QED
  BY <1>1, AsideHolds DEF Onboard, IInv, TypeOK, ConfigIsActive

LEMMA SeedHolds ==
  ASSUME IInv, SeedLetters \/ \E q \in Questions : SeedQuestion(q) \/ SeedConfig(q)
  PROVE  IInv'
<1>1. CASE SeedLetters
  <2>1. \A w \in Users : Live(w)' = Live(w)
    BY <1>1 DEF SeedLetters, Live
  <2> QED
    BY <1>1, <2>1, AsideHolds DEF SeedLetters, IInv, TypeOK, ConfigIsActive, Live
<1>2. ASSUME NEW q \in Questions, SeedQuestion(q) PROVE IInv'
  <2>1. \A w \in Users : Live(w)' = Live(w)
    BY <1>2 DEF SeedQuestion, Live
  <2> QED
    BY <1>2, <2>1, AsideHolds DEF SeedQuestion, IInv, TypeOK, ConfigIsActive
<1>3. ASSUME NEW q \in Questions, SeedConfig(q) PROVE IInv'
  <2>1. \A w \in Users : Live(w)' = Live(w)
    BY <1>3 DEF SeedConfig, Live
  <2> QED
    BY <1>3, <2>1, AsideHolds DEF SeedConfig, IInv, UnlockAssumption, TypeOK, ConfigIsActive
<1> QED
  BY <1>1, <1>2, <1>3

(* Reading changes nothing else, so only the read itself is to be checked. *)
LEMMA ReadHolds ==
  ASSUME IInv, UNCHANGED Unread, read' \in [Reads -> PrivateRead],
         \A r \in Reads : ReadOK(r)'
  PROVE  IInv'
<1>1. \A s \in Submits : Sides(s)' = Sides(s) /\ Pair(s)' = Pair(s)
  BY DEF Unread, Sides, Pair
<1>2. Passed' = Passed
  BY DEF Unread, Passed, Pair
<1>3. \A u : Live(u)' = Live(u)
  BY DEF Unread, Live
<1>4. TypeOK'
  BY <1>1, <1>3 DEF Unread, IInv, TypeOK
<1>5. ASSUME NEW s \in Submits PROVE SubmissionOK(s)'
  BY <1>1, <1>3 DEF Unread, IInv, SubmissionOK
<1>6. UnlocksAreEarned' /\ UnlockedOnce' /\ NeverDuplicate' /\ QuestionStaysConfigured'
      /\ ConfigIsActive'
  BY <1>1, <1>2 DEF Unread, IInv, UnlocksAreEarned, UnlockedOnce, NeverDuplicate,
                    QuestionStaysConfigured, ConfigIsActive
<1> QED
  BY <1>4, <1>5, <1>6 DEF IInv

(* Whoever has an unlock has passed.                                       *)
LEMMA UnlockIsStored ==
  ASSUME IInv, NEW pair \in unlocks
  PROVE  /\ pair[1] # pair[2]
         /\ \E s \in Submits : submit[s].stored /\ submit[s].verdict = "PASS" /\ Pair(s) = pair
  BY DEF IInv, UnlocksAreEarned, Passed, TypeOK, SubmissionOK

LEMMA ReadStepHolds ==
  ASSUME IInv, NEW r \in Reads,
         \/ \E v, t \in Users : LocateProfile(r, v, t)
         \/ CheckUnlock(r) \/ FetchPrivate(r) \/ FailRead(r)
  PROVE  IInv'
<1>1. ASSUME NEW v \in Users, NEW t \in Users, LocateProfile(r, v, t) PROVE IInv'
  <2>1. UNCHANGED Unread /\ read' \in [Reads -> PrivateRead]
        /\ read'[r].pc \in {"located", "refused"}
        /\ \A q \in Reads : q # r => read'[q] = read[q]
    BY <1>1 DEF LocateProfile, IInv, TypeOK, PrivateRead
  <2>2. ASSUME NEW q \in Reads PROVE ReadOK(q)'
    BY <2>1 DEF IInv, ReadOK, Unread, Pair
  <2> QED
    BY <2>1, <2>2, ReadHolds
<1>2. CASE CheckUnlock(r)
  <2>1. /\ UNCHANGED Unread /\ read' \in [Reads -> PrivateRead]
        /\ read'[r].pc = "authorized" => <<read[r].viewer, read[r].target>> \in unlocks
        /\ read'[r].pc \in {"authorized", "refused"}
        /\ read'[r].viewer = read[r].viewer /\ read'[r].target = read[r].target
        /\ \A q \in Reads : q # r => read'[q] = read[q]
    BY <1>2 DEF CheckUnlock, IInv, TypeOK, PrivateRead
  <2>2. ASSUME NEW q \in Reads PROVE ReadOK(q)'
    <3>1. CASE q # r
      BY <2>1, <3>1 DEF IInv, ReadOK, Unread, Pair
    <3>2. CASE q = r
      BY <2>1, <3>2, UnlockIsStored DEF ReadOK, Unread, Pair
    <3> QED
      BY <3>1, <3>2
  <2> QED
    BY <2>1, <2>2, ReadHolds
<1>3. CASE FetchPrivate(r) \/ FailRead(r)
  <2>1. /\ UNCHANGED Unread /\ read' \in [Reads -> PrivateRead]
        /\ read'[r].pc = "delivered" => read[r].pc = "authorized"
        /\ read'[r].pc \in {"delivered", "missing", "failed"}
        /\ read'[r].viewer = read[r].viewer /\ read'[r].target = read[r].target
        /\ \A q \in Reads : q # r => read'[q] = read[q]
    BY <1>3 DEF FetchPrivate, FailRead, IInv, TypeOK, PrivateRead
  <2>2. ASSUME NEW q \in Reads PROVE ReadOK(q)'
    BY <2>1 DEF IInv, ReadOK, Unread, Pair
  <2> QED
    BY <2>1, <2>2, ReadHolds
<1> QED
  BY <1>1, <1>2, <1>3

-----------------------------------------------------------------------------
LEMMA NextHolds == IInv /\ [Next]_vars => IInv'
<1> SUFFICES ASSUME IInv, [Next]_vars PROVE IInv'
  OBVIOUS
<1>1. ASSUME NEW u \in Users, Onboard(u) \/ DeleteUser(u) PROVE IInv'
  BY <1>1, OnboardHolds, DeleteUserHolds
<1>2. CASE SeedLetters \/ \E q \in Questions : SeedQuestion(q) \/ SeedConfig(q)
  BY <1>2, SeedHolds
<1>3. ASSUME NEW s \in Submits, NEW v \in Users, NEW t \in Users, FindTarget(s, v, t)
      PROVE IInv'
  BY <1>3, FindTargetHolds
<1>4. ASSUME NEW s \in Submits, SubmitStep(s) PROVE IInv'
  BY <1>4, ReadConfigHolds, ReadQuestionHolds, InsertAttemptHolds, InsertUnlockHolds,
     FindUnlockHolds, CommitHolds, FailHolds DEF SubmitStep
<1>5. ASSUME NEW r \in Reads,
             \/ \E v, t \in Users : LocateProfile(r, v, t)
             \/ CheckUnlock(r) \/ FetchPrivate(r) \/ FailRead(r)
      PROVE IInv'
  BY <1>5, ReadStepHolds
<1>6. CASE UNCHANGED vars
  BY <1>6, AsideHolds DEF vars, IInv, TypeOK, ConfigIsActive, Live
<1> QED
  BY <1>1, <1>2, <1>3, <1>4, <1>5, <1>6 DEF Next

LEMMA Invariance ==
  ASSUME UnlockAssumption PROVE Spec => []IInv
  BY InitHolds, NextHolds, PTL DEF Spec

(* In every run of any number of members, questions, submissions and reads *)
(* the rows are well typed, the unique index admits one uncommitted unlock *)
(* of a pair, and an open transaction keeps both its sides.                *)
THEOREM TypeCorrect ==
  ASSUME UnlockAssumption PROVE Spec => []TypeOK
  BY Invariance, PTL DEF IInv

(* The unlocks are always exactly the pairs of the passing attempts on     *)
(* record (the transaction of submitDbUnlockAnswer).                       *)
THEOREM UnlocksEarned ==
  ASSUME UnlockAssumption PROVE Spec => []UnlocksAreEarned
  BY Invariance, PTL DEF IInv

(* At most one submission of a pair is told that it made the unlock        *)
(* (the unique index that createUnlock inserts against).                   *)
THEOREM UnlockedByOne ==
  ASSUME UnlockAssumption PROVE Spec => []UnlockedOnce
  BY Invariance, PTL DEF IInv

(* createUnlock never answers DUPLICATE: the unlock that was in the way of *)
(* its insert cannot go before it is looked up, since the attempt inserted *)
(* in the same transaction keeps both users from being deleted.            *)
THEOREM NeverDuplicates ==
  ASSUME UnlockAssumption PROVE Spec => []NeverDuplicate
  BY Invariance, PTL DEF IInv

(* The private part of a profile is delivered only on a passing answer of  *)
(* another member (getDbPrivateProfile).                                   *)
THEOREM PrivateEarned ==
  ASSUME UnlockAssumption PROVE Spec => []PrivateIsEarned
<1>1. IInv => PrivateIsEarned
  BY DEF IInv, ReadOK, PrivateIsEarned
<1> QED
  BY <1>1, Invariance, PTL

(* A configured question is never missed (getConfiguredUnlockQuestion).    *)
THEOREM QuestionConfigured ==
  ASSUME UnlockAssumption PROVE Spec => []QuestionStaysConfigured
  BY Invariance, PTL DEF IInv

-----------------------------------------------------------------------------
(* Evidence.  v1 is now, v2 head, v3 file, v4 proc, v5 lastTested, and v6  *)
(* lastSmoked.                                                             *)

LEMMA InitEvidence == Evi!EvidenceAssumption /\ Evi!Init => Evi!EvidenceInv
<1> SUFFICES ASSUME Evi!EvidenceAssumption, Evi!Init
             PROVE  Evi!EvidenceInv
  OBVIOUS
<1> USE DEF Evi!EvidenceAssumption
<1>1. v1 = 0 /\ MaxAge \in Nat /\ EvidenceTime \in Nat /\ v1 \in Evi!Times
  BY DEF Evi!Init, Evi!Times
<1>2. \A k \in Evi!Kinds : v4[k] = Evi!Idle /\ v3[k] = None
  BY DEF Evi!Init
<1>3. Evi!Idle \in Evi!Process
  BY DEF Evi!Idle, Evi!Process
<1>4. Evi!Idle.pc = "idle"
  BY DEF Evi!Idle
<1>5. Evi!TypeOK
  <2>1. -1 - MaxAge \in Evi!Times \cup {-1 - MaxAge}
    OBVIOUS
  <2>2. Evi!Never \in [Commits -> Evi!Times \cup {-1 - MaxAge}]
    BY <2>1 DEF Evi!Never
  <2>3. v3 \in [Evi!Kinds -> Evi!Artifact \cup {None}]
        /\ v4 \in [Evi!Kinds -> Evi!Process]
    BY <1>3 DEF Evi!Init
  <2> QED
    BY <1>1, <2>2, <2>3 DEF Evi!Init, Evi!TypeOK
<1>6. Evi!HistoryPast
  <2>1. -1 - MaxAge <= v1
    BY <1>1
  <2>2. \A s \in Commits : v5[s] = -1 - MaxAge /\ v6[s] = -1 - MaxAge
    BY DEF Evi!Init, Evi!Never
  <2> QED
    BY <2>1, <2>2 DEF Evi!HistoryPast
<1> QED
  BY <1>2, <1>4, <1>5, <1>6
     DEF Evi!EvidenceInv, Evi!EvidenceTypes, Evi!CommitNamed, Evi!FilesVouched,
         Evi!WritesVouched, Evi!SuiteVouched, Evi!Kinds

(* What the steps of a process have in common: they put one record in place*)
(* of another.                                                             *)
LEMMA ProcStep ==
  ASSUME Evi!EvidenceTypes, NEW k \in Evi!Kinds, NEW p \in Evi!Process,
         v4' = [v4 EXCEPT ![k] = p],
         UNCHANGED <<v1, v2>>,
         v3' \in [Evi!Kinds -> Evi!Artifact \cup {None}],
         v5' \in [Commits -> Evi!Times \cup {-1 - MaxAge}],
         v6' \in [Commits -> Evi!Times \cup {-1 - MaxAge}],
         k = "smoke" /\ p.pc = "running" => p.sha \in Commits,
         k = "integration" /\ p.pc = "named" => p.sha \in Commits,
         p.pc = "writing" => p.artifact \in Evi!Artifact
  PROVE  /\ Evi!EvidenceTypes'
         /\ v4'[k] = p
         /\ \A j \in Evi!Kinds : j # k => v4'[j] = v4[j]
<1>1. v4 \in [Evi!Kinds -> Evi!Process] /\ Evi!TypeOK /\ Evi!CommitNamed
      /\ Evi!EvidenceAssumption
  BY DEF Evi!EvidenceTypes, Evi!TypeOK
<1>2. /\ v4' \in [Evi!Kinds -> Evi!Process] /\ v4'[k] = p
      /\ \A j \in Evi!Kinds : j # k => v4'[j] = v4[j]
  BY <1>1
<1>3. Evi!TypeOK'
  BY <1>1, <1>2 DEF Evi!TypeOK
<1>4. Evi!CommitNamed'
  <2>1. "smoke" \in Evi!Kinds /\ "integration" \in Evi!Kinds
    BY DEF Evi!Kinds
  <2> QED
    BY <1>1, <1>2, <2>1 DEF Evi!CommitNamed
<1> QED
  BY <1>1, <1>2, <1>3, <1>4 DEF Evi!EvidenceTypes, Evi!EvidenceAssumption

LEMMA IdleFacts ==
  /\ Evi!Idle \in Evi!Process /\ Evi!Idle.pc = "idle"
  /\ \A sha \in Commits :
       /\ [Evi!Idle EXCEPT !.pc = "running", !.under = sha] \in Evi!Process
       /\ [Evi!Idle EXCEPT !.pc = "running", !.under = sha].pc = "running"
       /\ [Evi!Idle EXCEPT !.pc = "running", !.under = sha].under = sha
       /\ \A pc \in {"named", "running"} :
            /\ [Evi!Idle EXCEPT !.pc = pc, !.sha = sha] \in Evi!Process
            /\ [Evi!Idle EXCEPT !.pc = pc, !.sha = sha].pc = pc
            /\ [Evi!Idle EXCEPT !.pc = pc, !.sha = sha].sha = sha
  /\ \A a \in Evi!Artifact :
       /\ Evi!Writing(a) \in Evi!Process
       /\ Evi!Writing(a).pc = "writing" /\ Evi!Writing(a).artifact = a
  BY DEF Evi!Idle, Evi!Process, Evi!Writing

LEMMA SourceFacts ==
  ASSUME Evi!EvidenceTypes, NEW sha \in Commits
  PROVE  /\ Evi!Source(sha) \in Evi!Artifact
         /\ Evi!Source(sha).sha = sha /\ Evi!Source(sha).at = v1
<1>1. v1 \in Evi!Times /\ Checksum[v2] \in Evi!Sums
  BY DEF Evi!EvidenceTypes, Evi!TypeOK, Evi!Sums
<1> QED
  BY <1>1 DEF Evi!Source, Evi!Artifact

LEMMA NextEvidenceTypes == Evi!EvidenceTypes
/\ [Evi!Next]_(Evi!vars) => Evi!EvidenceTypes'
<1> SUFFICES ASSUME Evi!EvidenceTypes, [Evi!Next]_(Evi!vars)
             PROVE  Evi!EvidenceTypes'
  OBVIOUS
<1>0. /\ Evi!TypeOK /\ Evi!CommitNamed /\ Evi!EvidenceAssumption
      /\ v1 \in Evi!Times /\ v2 \in Commits
      /\ v3 \in [Evi!Kinds -> Evi!Artifact \cup {None}]
      /\ v4 \in [Evi!Kinds -> Evi!Process]
      /\ v5 \in [Commits -> Evi!Times \cup {-1 - MaxAge}]
      /\ v6 \in [Commits -> Evi!Times \cup {-1 - MaxAge}]
      /\ {"integration", "smoke", "combined"} \subseteq Evi!Kinds
  BY DEF Evi!EvidenceTypes, Evi!TypeOK, Evi!Kinds
<1>1. ASSUME NEW k \in Evi!Kinds, NEW p \in Evi!Process, v4' = [v4 EXCEPT ![k] = p],
             UNCHANGED <<v1, v2, v3, v5, v6>>,
             \/ p.pc \notin {"named", "running", "writing"}
             \/ p.pc = "writing" /\ p.artifact \in Evi!Artifact
             \/ p.pc = "running" /\ k # "smoke"
             \/ p.pc \in {"named", "running"} /\ p.sha \in Commits
      PROVE  Evi!EvidenceTypes'
  BY <1>0, <1>1, ProcStep
<1>2. CASE Evi!StartSuite
  <2> DEFINE p == [Evi!Idle EXCEPT !.pc = "running", !.under = v2]
  <2>1. p \in Evi!Process /\ p.pc = "running"
    BY <1>0, IdleFacts
  <2>2. /\ v4' = [v4 EXCEPT !["integration"] = p]
        /\ UNCHANGED <<v1, v2, v3, v5, v6>>
    BY <1>2 DEF Evi!StartSuite
  <2> HIDE DEF p
  <2> QED
    BY <1>0, <1>1, <2>1, <2>2
<1>3. CASE Evi!SuiteEnds
  <2>1. PICK log \in SUBSET Cases :
          /\ v4' = [v4 EXCEPT !["integration"] =
                        [v4["integration"] EXCEPT !.pc = "ran", !.log = log]]
          /\ v5' = IF log = Cases
                           THEN [v5 EXCEPT ![v4["integration"].under] = v1]
                           ELSE v5
    BY <1>0, <1>3 DEF Evi!SuiteEnds
  <2> DEFINE p == [v4["integration"] EXCEPT !.pc = "ran", !.log = log]
  <2>2. p \in Evi!Process /\ p.pc = "ran"
    BY <1>0 DEF Evi!Process
  <2>3. v4' = [v4 EXCEPT !["integration"] = p]
    BY <2>1
  <2>4. v5' \in [Commits -> Evi!Times \cup {-1 - MaxAge}]
    BY <1>0, <2>1
  <2>5. UNCHANGED <<v1, v2, v3, v6>>
    BY <1>3 DEF Evi!SuiteEnds
  <2> HIDE DEF p
  <2> QED
    BY <1>0, <2>2, <2>3, <2>4, <2>5, ProcStep
<1>4. CASE Evi!NameCommit \/ Evi!StartSmoke
  <2>1. PICK k \in {"integration", "smoke"}, pc \in {"named", "running"} :
          /\ v4' = [v4 EXCEPT ![k] = [Evi!Idle EXCEPT !.pc = pc, !.sha = v2]]
          /\ UNCHANGED <<v1, v2, v3, v5, v6>>
    BY <1>4 DEF Evi!NameCommit, Evi!StartSmoke
  <2> DEFINE p == [Evi!Idle EXCEPT !.pc = pc, !.sha = v2]
  <2>2. p \in Evi!Process /\ p.pc = pc /\ p.sha = v2
    BY <1>0 DEF Evi!Idle, Evi!Process
  <2>3. v4' = [v4 EXCEPT ![k] = p]
    BY <2>1
  <2>4. k \in Evi!Kinds
    BY DEF Evi!Kinds
  <2> HIDE DEF p
  <2> QED
    BY <1>1, <2>1, <2>2, <2>3, <2>4, <1>0
<1>5. CASE Evi!BuildIntegrationArtifact \/ Evi!SmokePasses
  <2>1. PICK k \in {"integration", "smoke"} :
          /\ v4[k].pc = IF k = "integration" THEN "named" ELSE "running"
          /\ v4' = [v4 EXCEPT ![k] = Evi!Writing(Evi!Source(v4[k].sha))]
          /\ v6' = v6 \/ v6' = [v6 EXCEPT ![v4[k].sha] = v1]
          /\ UNCHANGED <<v1, v2, v3, v5>>
    BY <1>0, <1>5 DEF Evi!BuildIntegrationArtifact, Evi!SmokePasses
  <2> DEFINE sha == v4[k].sha
             p == Evi!Writing(Evi!Source(sha))
  <2>2. sha \in Commits
    BY <1>0, <2>1 DEF Evi!CommitNamed
  <2> HIDE DEF sha
  <2>3. p \in Evi!Process /\ p.pc = "writing" /\ p.artifact \in Evi!Artifact
    <3> DEFINE a == Evi!Source(sha)
    <3>1. a \in Evi!Artifact
      BY <2>2, SourceFacts
    <3> HIDE DEF a
    <3>2. Evi!Writing(a) \in Evi!Process /\ Evi!Writing(a).pc = "writing"
          /\ Evi!Writing(a).artifact = a
      BY <3>1, IdleFacts
    <3> QED
      BY <3>1, <3>2 DEF a
  <2>4. v4' = [v4 EXCEPT ![k] = p]
    BY <2>1 DEF sha
  <2>5. v6' \in [Commits -> Evi!Times \cup {-1 - MaxAge}]
    BY <1>0, <2>1
  <2> HIDE DEF p
  <2> QED
    BY <1>0, <2>1, <2>3, <2>4, <2>5, ProcStep
<1>6. CASE Evi!Combine
  <2> DEFINE integration == v3["integration"]
             smoke == v3["smoke"]
             a == [sha |-> integration.sha, checksum |-> integration.checksum, at |-> v1,
                   sources |-> [integration |-> integration.at, smoke |-> smoke.at]]
             p == Evi!Writing(a)
  <2>1. /\ integration # None /\ smoke # None
        /\ v4' = [v4 EXCEPT !["combined"] = p]
        /\ UNCHANGED <<v1, v2, v3, v5, v6>>
    BY <1>6 DEF Evi!Combine, Evi!Combinable
  <2>2. integration \in Evi!Artifact /\ smoke \in Evi!Artifact
    BY <1>0, <2>1
  <2>3. a \in Evi!Artifact
    BY <1>0, <2>2 DEF Evi!Artifact
  <2> HIDE DEF a
  <2>4. p \in Evi!Process /\ p.pc = "writing" /\ p.artifact \in Evi!Artifact
    BY <2>3, IdleFacts
  <2> HIDE DEF p
  <2> QED
    BY <1>0, <1>1, <2>1, <2>4
<1>7. ASSUME NEW k \in Evi!Kinds, Evi!Publish(k) \/ Evi!Abandon(k)
      PROVE  Evi!EvidenceTypes'
  <2>1. /\ v4' = [v4 EXCEPT ![k] = Evi!Idle]
        /\ v3' = v3 \/ (v4[k].pc = "writing"
           /\ v3' = [v3 EXCEPT ![k] = v4[k].artifact])
        /\ UNCHANGED <<v1, v2, v5, v6>>
    BY <1>7 DEF Evi!Publish, Evi!Abandon
  <2>2. v3' \in [Evi!Kinds -> Evi!Artifact \cup {None}]
    BY <1>0, <2>1 DEF Evi!CommitNamed
  <2> QED
    BY <1>0, <2>1, <2>2, IdleFacts, ProcStep
<1>8. ASSUME NEW sha \in Commits, Evi!Checkout(sha)
      PROVE  Evi!EvidenceTypes'
  BY <1>0, <1>8
     DEF Evi!Checkout, Evi!EvidenceTypes, Evi!EvidenceAssumption, Evi!TypeOK,
         Evi!CommitNamed
<1>9. CASE Evi!Tick
  <2>1. /\ v1' = v1 + 1 /\ v1 < EvidenceTime
        /\ v5' = Evi!Recent(v5) /\ v6' = Evi!Recent(v6)
        /\ v3' = [k \in Evi!Kinds |-> IF v3[k] # None /\ v1' - v3[k].at > MaxAge
                                    THEN None ELSE v3[k]]
        /\ UNCHANGED <<v2, v4>>
    BY <1>9 DEF Evi!Tick
  <2>2. v1' \in Evi!Times
    BY <1>0, <2>1 DEF Evi!EvidenceAssumption, Evi!Times
  <2>3. v3' \in [Evi!Kinds -> Evi!Artifact \cup {None}]
    BY <1>0, <2>1
  <2>4. ASSUME NEW last \in [Commits -> Evi!Times \cup {-1 - MaxAge}]
        PROVE  Evi!Recent(last) \in [Commits -> Evi!Times \cup {-1 - MaxAge}]
    <3>1. \A s \in Commits : Evi!Never[s] \in Evi!Times \cup {-1 - MaxAge}
      BY DEF Evi!Never
    <3> QED
      BY <3>1 DEF Evi!Recent
  <2> QED
    BY <1>0, <2>1, <2>2, <2>3, <2>4
       DEF Evi!EvidenceTypes, Evi!EvidenceAssumption, Evi!TypeOK, Evi!CommitNamed
<1>10. CASE UNCHANGED Evi!vars
  BY <1>0, <1>10
     DEF Evi!vars, Evi!EvidenceTypes, Evi!EvidenceAssumption, Evi!TypeOK,
         Evi!CommitNamed
<1> QED
  BY <1>2, <1>3, <1>4, <1>5, <1>6, <1>7, <1>8, <1>9, <1>10 DEF Evi!Next

(* Nothing that was vouched for is forgotten while the clock stands still. *)
LEMMA VouchedKept ==
  ASSUME Evi!EvidenceTypes,
         v5' \in [Commits -> Evi!Times \cup {-1 - MaxAge}],
         v6' \in [Commits -> Evi!Times \cup {-1 - MaxAge}],
         \A s \in Commits : v5'[s] >= v5[s] /\ v6'[s] >= v6[s],
         NEW k \in Evi!Kinds, NEW a \in Evi!Artifact, Evi!VouchedFor(k, a, v1, v5, v6)
  PROVE  Evi!VouchedFor(k, a, v1, v5', v6')
<1>1. /\ v5 \in [Commits -> Evi!Times \cup {-1 - MaxAge}]
      /\ v6 \in [Commits -> Evi!Times \cup {-1 - MaxAge}]
      /\ Evi!Times \subseteq Int /\ -1 - MaxAge \in Int /\ v1 \in Int
  BY DEF Evi!EvidenceTypes, Evi!TypeOK, Evi!Times, Evi!EvidenceAssumption
<1>2. a.sha \in Commits /\ a.at \in Int /\ a.sources.integration \in Int
      /\ a.sources.smoke \in Int
  BY <1>1 DEF Evi!Artifact
<1>3. \A s \in Commits : /\ v5[s] \in Int /\ v5'[s] \in Int
                      /\ v6[s] \in Int /\ v6'[s] \in Int
  BY <1>1
<1>4. ASSUME NEW at \in Int, NEW s \in Commits
      PROVE  /\ Evi!Vouched(s, at, v1, v5) => Evi!Vouched(s, at, v1, v5')
             /\ Evi!Vouched(s, at, v1, v6) => Evi!Vouched(s, at, v1, v6')
  BY <1>1, <1>3 DEF Evi!Vouched
<1> QED
  BY <1>2, <1>4 DEF Evi!VouchedFor

(* A step of a process that leaves the clock alone.                        *)
LEMMA StepVouched ==
  ASSUME Evi!EvidenceInv, Evi!EvidenceTypes', Evi!HistoryPast', Evi!SuiteVouched',
         UNCHANGED v1,
         \A s \in Commits : v5'[s] >= v5[s] /\ v6'[s] >= v6[s],
         NEW k \in Evi!Kinds,
         \A j \in Evi!Kinds : j # k => v4'[j] = v4[j],
         v4'[k].pc = "writing" =>
           Evi!VouchedFor(k, v4'[k].artifact, v1, v5', v6'),
         \A j \in Evi!Kinds :
           v3'[j] = v3[j] \/ (v4[j].pc = "writing" /\ v3'[j] = v4[j].artifact)
  PROVE  Evi!EvidenceInv'
<1>1. /\ Evi!EvidenceTypes /\ Evi!TypeOK /\ Evi!CommitNamed /\ Evi!FilesVouched
         /\ Evi!WritesVouched
      /\ v3 \in [Evi!Kinds -> Evi!Artifact \cup {None}]
      /\ v5' \in [Commits -> Evi!Times \cup {-1 - MaxAge}]
      /\ v6' \in [Commits -> Evi!Times \cup {-1 - MaxAge}]
  BY DEF Evi!EvidenceInv, Evi!EvidenceTypes, Evi!TypeOK, Evi!EvidenceAssumption
<1>2. \A j \in Evi!Kinds, a \in Evi!Artifact :
        Evi!VouchedFor(j, a, v1, v5, v6)
          => Evi!VouchedFor(j, a, v1, v5', v6')
  BY <1>1, VouchedKept
<1>3. \A j \in Evi!Kinds :
        /\ \/ v4[j].pc # "writing"
           \/ Evi!VouchedFor(j, v4[j].artifact, v1, v5', v6')
        /\ \/ v3[j] = None
           \/ Evi!VouchedFor(j, v3[j], v1, v5', v6')
  BY <1>1, <1>2 DEF Evi!CommitNamed, Evi!FilesVouched, Evi!WritesVouched
<1>4. Evi!FilesVouched' /\ Evi!WritesVouched'
  BY <1>3 DEF Evi!FilesVouched, Evi!WritesVouched
<1> QED
  BY <1>4 DEF Evi!EvidenceInv

LEMMA EvidenceFacts ==
  ASSUME Evi!EvidenceInv
  PROVE  /\ Evi!EvidenceTypes /\ Evi!HistoryPast /\ Evi!SuiteVouched
            /\ Evi!CommitNamed
         /\ v1 \in Evi!Times /\ v2 \in Commits
         /\ v3 \in [Evi!Kinds -> Evi!Artifact \cup {None}]
         /\ v4 \in [Evi!Kinds -> Evi!Process]
         /\ v5 \in [Commits -> Evi!Times \cup {-1 - MaxAge}]
         /\ v6 \in [Commits -> Evi!Times \cup {-1 - MaxAge}]
         /\ v1 \in Int /\ MaxAge \in Nat /\ EvidenceTime \in Nat
         /\ \A s \in Commits : /\ v5[s] \in Int /\ v6[s] \in Int
                            /\ v5[s] >= v5[s] /\ v6[s] >= v6[s]
         /\ {"integration", "smoke", "combined"} \subseteq Evi!Kinds
<1>1. /\ Evi!EvidenceTypes /\ Evi!HistoryPast /\ Evi!SuiteVouched /\ Evi!CommitNamed
      /\ v1 \in Evi!Times /\ v2 \in Commits
      /\ v3 \in [Evi!Kinds -> Evi!Artifact \cup {None}]
      /\ v4 \in [Evi!Kinds -> Evi!Process]
      /\ v5 \in [Commits -> Evi!Times \cup {-1 - MaxAge}]
      /\ v6 \in [Commits -> Evi!Times \cup {-1 - MaxAge}]
      /\ MaxAge \in Nat /\ EvidenceTime \in Nat
  BY DEF Evi!EvidenceInv, Evi!EvidenceTypes, Evi!TypeOK, Evi!EvidenceAssumption
<1>2. Evi!Times \subseteq Int /\ -1 - MaxAge \in Int
  BY <1>1 DEF Evi!Times
<1>3. \A s \in Commits : /\ v5[s] \in Int /\ v6[s] \in Int
  BY <1>1, <1>2
<1> QED
  BY <1>1, <1>2, <1>3 DEF Evi!Kinds

(* A step of a process that leaves the histories and the files alone, too. *)
LEMMA QuietStep ==
  ASSUME Evi!EvidenceInv, UNCHANGED <<v1, v2, v5, v6>>,
         NEW k \in Evi!Kinds, NEW p \in Evi!Process, v4' = [v4 EXCEPT ![k] = p],
         v3' \in [Evi!Kinds -> Evi!Artifact \cup {None}],
         \A j \in Evi!Kinds :
           v3'[j] = v3[j] \/ (v4[j].pc = "writing" /\ v3'[j] = v4[j].artifact),
         \/ p.pc = "idle"
         \/ p.pc = "running" /\ k = "smoke" /\ p.sha \in Commits
         \/ p.pc = "running" /\ k = "integration" /\ p.under = v2
         \/ /\ p.pc = "named" /\ k = "integration"
            /\ p.sha \in Commits /\ v5[p.sha] = v1
         \/ /\ p.pc = "writing" /\ p.artifact \in Evi!Artifact
            /\ Evi!VouchedFor(k, p.artifact, v1, v5, v6)
  PROVE  Evi!EvidenceInv'
<1>1. /\ Evi!EvidenceTypes'
      /\ v4'[k] = p
      /\ \A j \in Evi!Kinds : j # k => v4'[j] = v4[j]
  BY EvidenceFacts, ProcStep
<1>2. Evi!HistoryPast'
  BY EvidenceFacts DEF Evi!HistoryPast
<1>3. Evi!SuiteVouched'
  BY <1>1, EvidenceFacts DEF Evi!SuiteVouched
<1> QED
  BY <1>1, <1>2, <1>3, EvidenceFacts, StepVouched

LEMMA NextEvidence == Careful /\ Evi!EvidenceInv
/\ [Evi!Next]_(Evi!vars) => Evi!EvidenceInv'
<1> SUFFICES ASSUME Careful, Evi!EvidenceInv, [Evi!Next]_(Evi!vars)
             PROVE  Evi!EvidenceInv'
  OBVIOUS
<1>1. CASE Evi!StartSuite
  <2> DEFINE p == [Evi!Idle EXCEPT !.pc = "running", !.under = v2]
  <2>1. p \in Evi!Process /\ p.pc = "running" /\ p.under = v2
    BY EvidenceFacts, IdleFacts
  <2>2. /\ v4' = [v4 EXCEPT !["integration"] = p]
        /\ UNCHANGED <<v1, v2, v3, v5, v6>>
    BY <1>1 DEF Evi!StartSuite
  <2> HIDE DEF p
  <2> QED
    BY <2>1, <2>2, EvidenceFacts, QuietStep
<1>2. CASE Evi!SuiteEnds
  <2>1. PICK log \in SUBSET Cases :
          /\ v4' = [v4 EXCEPT !["integration"] =
                        [v4["integration"] EXCEPT !.pc = "ran", !.log = log]]
          /\ v5' = IF log = Cases
                           THEN [v5 EXCEPT ![v4["integration"].under] = v1]
                           ELSE v5
    BY <1>2, EvidenceFacts DEF Evi!SuiteEnds
  <2> DEFINE p == [v4["integration"] EXCEPT !.pc = "ran", !.log = log]
  <2>2. /\ v4["integration"].pc = "running" /\ v4["integration"].under = v2
        /\ UNCHANGED <<v1, v2, v3, v6>>
    BY <1>2, EvidenceFacts DEF Evi!SuiteEnds, Evi!SuiteVouched
  <2>3. p \in Evi!Process /\ p.pc = "ran" /\ p.log = log /\ p.under = v2
    BY <2>2, EvidenceFacts DEF Evi!Process
  <2> HIDE DEF p
  <2>4. /\ v5' \in [Commits -> Evi!Times \cup {-1 - MaxAge}]
        /\ log = Cases => v5'[v2] = v1
        /\ \A s \in Commits : v5'[s] = v5[s] \/ v5'[s] = v1
    BY <2>1, <2>2, EvidenceFacts
  <2>5. /\ Evi!EvidenceTypes'
        /\ v4'["integration"] = p
        /\ \A j \in Evi!Kinds : j # "integration" => v4'[j] = v4[j]
    <3>1. v4' = [v4 EXCEPT !["integration"] = p]
      BY <2>1 DEF p
    <3> QED
      BY <2>2, <2>3, <2>4, <3>1, EvidenceFacts, ProcStep
  <2>6. Evi!HistoryPast'
    BY <2>2, <2>4, EvidenceFacts DEF Evi!HistoryPast
  <2>7. Evi!SuiteVouched'
    BY <2>2, <2>3, <2>4, <2>5 DEF Evi!SuiteVouched
  <2>8. \A s \in Commits : v5'[s] >= v5[s] /\ v6'[s] >= v6[s]
    BY <2>2, <2>4, EvidenceFacts DEF Evi!HistoryPast
  <2> QED
    BY <2>2, <2>3, <2>5, <2>6, <2>7, <2>8, EvidenceFacts, StepVouched
<1>3. CASE Evi!NameCommit
  <2>1. v5[v2] = v1
    BY <1>3, EvidenceFacts DEF Evi!NameCommit, Evi!Aggregated, Evi!SuiteVouched
  <2> DEFINE p == [Evi!Idle EXCEPT !.pc = "named", !.sha = v2]
  <2>2. p \in Evi!Process /\ p.pc = "named" /\ p.sha = v2
    BY EvidenceFacts, IdleFacts
  <2>3. /\ v4' = [v4 EXCEPT !["integration"] = p]
        /\ UNCHANGED <<v1, v2, v3, v5, v6>>
    BY <1>3 DEF Evi!NameCommit
  <2> HIDE DEF p
  <2> QED
    BY <2>1, <2>2, <2>3, EvidenceFacts, QuietStep
<1>4. CASE Evi!BuildIntegrationArtifact
  <2> DEFINE sha == v4["integration"].sha
  <2>1. sha \in Commits /\ v5[sha] = v1
    BY <1>4, EvidenceFacts
       DEF Evi!BuildIntegrationArtifact, Evi!CommitNamed, Evi!SuiteVouched
  <2>2. /\ v4' = [v4 EXCEPT !["integration"] = Evi!Writing(Evi!Source(sha))]
        /\ UNCHANGED <<v1, v2, v3, v5, v6>>
    BY <1>4, EvidenceFacts DEF Evi!BuildIntegrationArtifact
  <2> HIDE DEF sha
  <2>3. Evi!Source(sha) \in Evi!Artifact /\ Evi!Source(sha).sha = sha
        /\ Evi!Source(sha).at = v1
    BY <2>1, EvidenceFacts, SourceFacts
  <2>4. Evi!VouchedFor("integration", Evi!Source(sha), v1, v5, v6)
    BY <2>1, <2>3, EvidenceFacts DEF Evi!VouchedFor, Evi!Vouched
  <2> DEFINE p == Evi!Writing(Evi!Source(sha))
  <2>5. p \in Evi!Process /\ p.pc = "writing" /\ p.artifact = Evi!Source(sha)
    BY <2>3, IdleFacts
  <2>6. v4' = [v4 EXCEPT !["integration"] = p]
    BY <2>2
  <2> HIDE DEF p
  <2> QED
    BY <2>2, <2>3, <2>4, <2>5, <2>6, EvidenceFacts, QuietStep
<1>5. CASE Evi!StartSmoke
  <2> DEFINE p == [Evi!Idle EXCEPT !.pc = "running", !.sha = v2]
  <2>1. p \in Evi!Process /\ p.pc = "running" /\ p.sha = v2
    BY EvidenceFacts, IdleFacts
  <2>2. /\ v4' = [v4 EXCEPT !["smoke"] = p]
        /\ UNCHANGED <<v1, v2, v3, v5, v6>>
    BY <1>5 DEF Evi!StartSmoke
  <2> HIDE DEF p
  <2> QED
    BY <2>1, <2>2, EvidenceFacts, QuietStep
<1>6. CASE Evi!SmokePasses
  <2> DEFINE sha == v4["smoke"].sha
             p == Evi!Writing(Evi!Source(sha))
  <2>1. sha \in Commits
    BY <1>6, EvidenceFacts DEF Evi!SmokePasses, Evi!CommitNamed
  <2>2. /\ v4' = [v4 EXCEPT !["smoke"] = p]
        /\ v6' = [v6 EXCEPT ![sha] = v1]
        /\ UNCHANGED <<v1, v2, v3, v5>>
    BY <1>6 DEF Evi!SmokePasses
  <2> HIDE DEF sha
  <2>3. Evi!Source(sha) \in Evi!Artifact /\ Evi!Source(sha).sha = sha
        /\ Evi!Source(sha).at = v1
    BY <2>1, EvidenceFacts, SourceFacts
  <2>4. p \in Evi!Process /\ p.pc = "writing" /\ p.artifact = Evi!Source(sha)
    BY <2>3, IdleFacts
  <2>5. /\ v6' \in [Commits -> Evi!Times \cup {-1 - MaxAge}]
        /\ v6'[sha] = v1
        /\ \A s \in Commits : v6'[s] = v6[s] \/ v6'[s] = v1
    BY <2>1, <2>2, EvidenceFacts
  <2>6. Evi!VouchedFor("smoke", Evi!Source(sha), v1, v5', v6')
    BY <2>3, <2>5, EvidenceFacts DEF Evi!VouchedFor, Evi!Vouched
  <2> HIDE DEF p
  <2>7. /\ Evi!EvidenceTypes'
        /\ v4'["smoke"] = p
        /\ \A j \in Evi!Kinds : j # "smoke" => v4'[j] = v4[j]
    BY <2>2, <2>3, <2>4, <2>5, EvidenceFacts, ProcStep
  <2>8. Evi!HistoryPast'
    BY <2>2, <2>5, EvidenceFacts DEF Evi!HistoryPast
  <2>9. Evi!SuiteVouched'
    BY <2>2, <2>7, EvidenceFacts DEF Evi!SuiteVouched
  <2>10. \A s \in Commits : v5'[s] >= v5[s] /\ v6'[s] >= v6[s]
    BY <2>2, <2>5, EvidenceFacts DEF Evi!HistoryPast
  <2>11. Evi!VouchedFor("smoke", v4'["smoke"].artifact, v1, v5', v6')
    BY <2>4, <2>6, <2>7
  <2> QED
    BY <2>2, <2>7, <2>8, <2>9, <2>10, <2>11, EvidenceFacts, StepVouched
<1>7. CASE Evi!Combine
  <2> DEFINE integration == v3["integration"]
             smoke == v3["smoke"]
             a == [sha |-> integration.sha, checksum |-> integration.checksum, at |-> v1,
                   sources |-> [integration |-> integration.at, smoke |-> smoke.at]]
  <2>1. /\ integration # None /\ smoke # None /\ integration.sha = smoke.sha
        /\ v4' = [v4 EXCEPT !["combined"] = Evi!Writing(a)]
        /\ UNCHANGED <<v1, v2, v3, v5, v6>>
    BY <1>7 DEF Evi!Combine, Evi!Combinable
  <2>2. integration \in Evi!Artifact /\ smoke \in Evi!Artifact
    BY <2>1, EvidenceFacts
  <2>3. /\ Evi!VouchedFor("integration", integration, v1, v5, v6)
        /\ Evi!VouchedFor("smoke", smoke, v1, v5, v6)
    BY <2>1, EvidenceFacts DEF Evi!EvidenceInv, Evi!FilesVouched
  <2>4. a \in Evi!Artifact
    BY <2>2, EvidenceFacts DEF Evi!Artifact
  <2>5. Evi!VouchedFor("combined", a, v1, v5, v6)
    BY <2>1, <2>3 DEF Evi!VouchedFor
  <2> HIDE DEF a
  <2> DEFINE p == Evi!Writing(a)
  <2>6. p \in Evi!Process /\ p.pc = "writing" /\ p.artifact = a
    BY <2>4, IdleFacts
  <2>7. v4' = [v4 EXCEPT !["combined"] = p]
    BY <2>1
  <2> HIDE DEF p
  <2> QED
    BY <2>1, <2>4, <2>5, <2>6, <2>7, EvidenceFacts, QuietStep
<1>8. ASSUME NEW k \in Evi!Kinds, Evi!Publish(k)
      PROVE  Evi!EvidenceInv'
  <2>1. v4[k].artifact \in Evi!Artifact /\ v4[k].pc = "writing"
    BY <1>8, EvidenceFacts DEF Evi!Publish, Evi!CommitNamed
  <2>2. /\ v3' \in [Evi!Kinds -> Evi!Artifact \cup {None}]
        /\ \A j \in Evi!Kinds :
             v3'[j] = v3[j] \/ (v4[j].pc = "writing" /\ v3'[j] = v4[j].artifact)
    BY <1>8, <2>1, EvidenceFacts DEF Evi!Publish
  <2> QED
    BY <1>8, <2>2, EvidenceFacts, IdleFacts, QuietStep DEF Evi!Publish
<1>9. ASSUME NEW k \in Evi!Kinds, Evi!Abandon(k)
      PROVE  Evi!EvidenceInv'
  BY <1>9, EvidenceFacts, IdleFacts, QuietStep DEF Evi!Abandon
<1>10. ASSUME NEW sha \in Commits, Evi!Checkout(sha)
       PROVE  Evi!EvidenceInv'
  <2>1. /\ v4["integration"].pc \notin {"running", "ran", "named"}
        /\ v2' = sha /\ UNCHANGED <<v1, v3, v4, v5, v6>>
    BY <1>10 DEF Evi!Checkout
  <2>2. Evi!EvidenceTypes'
    BY <2>1, EvidenceFacts
       DEF Evi!EvidenceTypes, Evi!EvidenceAssumption, Evi!TypeOK, Evi!CommitNamed
  <2> QED
    BY <2>1, <2>2, EvidenceFacts
       DEF Evi!EvidenceInv, Evi!HistoryPast, Evi!FilesVouched, Evi!WritesVouched,
           Evi!SuiteVouched
<1>11. CASE Evi!Tick
  <2>1. /\ v1' = v1 + 1 /\ v1 < EvidenceTime
        /\ v5' = Evi!Recent(v5) /\ v6' = Evi!Recent(v6)
        /\ v3' = [k \in Evi!Kinds |-> IF v3[k] # None /\ v1' - v3[k].at > MaxAge
                                    THEN None ELSE v3[k]]
        /\ UNCHANGED <<v2, v4>>
        /\ \A k \in Evi!Kinds : v4[k].pc \in {"idle", "running"}
    BY <1>11 DEF Evi!Tick
  <2>2. v1' \in Evi!Times /\ v1' \in Int
    BY <2>1, EvidenceFacts DEF Evi!Times
  <2>3. /\ v3' \in [Evi!Kinds -> Evi!Artifact \cup {None}]
        /\ \A k \in Evi!Kinds : v3'[k] = None \/ v3'[k] = v3[k]
    BY <2>1, EvidenceFacts
  <2>4. \A s \in Commits :
          /\ v5'[s] = IF v1' - v5[s] <= MaxAge THEN v5[s]
                              ELSE -1 - MaxAge
          /\ v6'[s] = IF v1' - v6[s] <= MaxAge THEN v6[s]
                              ELSE -1 - MaxAge
    BY <2>1 DEF Evi!Recent, Evi!Never
  <2>5. /\ v5' \in [Commits -> Evi!Times \cup {-1 - MaxAge}]
        /\ v6' \in [Commits -> Evi!Times \cup {-1 - MaxAge}]
    <3>1. /\ v5' = [s \in Commits |-> v5'[s]]
          /\ v6' = [s \in Commits |-> v6'[s]]
      BY <2>1 DEF Evi!Recent
    <3>2. \A s \in Commits : /\ v5'[s] \in Evi!Times \cup {-1 - MaxAge}
                         /\ v6'[s] \in Evi!Times \cup {-1 - MaxAge}
      BY <2>4, EvidenceFacts
    <3> QED
      BY <3>1, <3>2
  <2>6. Evi!EvidenceTypes'
    BY <2>1, <2>2, <2>3, <2>5, EvidenceFacts
       DEF Evi!EvidenceTypes, Evi!EvidenceAssumption, Evi!TypeOK, Evi!CommitNamed
  <2>7. Evi!HistoryPast'
    <3>1. v1 <= v1' /\ -1 - MaxAge <= v1'
      BY <2>1, EvidenceFacts DEF Evi!Times
    <3> QED
      BY <2>2, <2>4, <3>1, EvidenceFacts DEF Evi!HistoryPast
  <2>8. Evi!FilesVouched'
    <3> SUFFICES ASSUME NEW k \in Evi!Kinds, v3'[k] # None
                 PROVE  Evi!VouchedFor(k, v3'[k], v1', v5', v6')
      BY DEF Evi!FilesVouched
    <3> DEFINE a == v3[k]
    <3>1. v3'[k] = a /\ a # None /\ a \in Evi!Artifact
      BY <2>3, EvidenceFacts
    <3>2. Evi!VouchedFor(k, a, v1, v5, v6)
      BY <3>1 DEF Evi!EvidenceInv, Evi!FilesVouched
    <3> HIDE DEF a
    <3>3. /\ a.sha \in Commits /\ a.at \in Int
          /\ a.sources.integration \in Int /\ a.sources.smoke \in Int
      BY <3>1 DEF Evi!Artifact, Evi!Times
    <3>4. ASSUME NEW s \in Commits, NEW at \in Int
          PROVE  /\ Evi!Vouched(s, at, v1, v5) => Evi!Vouched(s, at, v1', v5')
                 /\ Evi!Vouched(s, at, v1, v6) => Evi!Vouched(s, at, v1', v6')
      <4>1. /\ v5[s] \in Int /\ v6[s] \in Int
            /\ v1 \in Int /\ MaxAge \in Int /\ v1' = v1 + 1
        BY <2>1, EvidenceFacts
      <4>2. ASSUME at <= v1, v1' - at <= MaxAge
            PROVE  /\ v5[s] >= at => v5'[s] >= at
                   /\ v6[s] >= at => v6'[s] >= at
        BY <2>4, <4>1, <4>2
      <4> QED
        BY <4>1, <4>2 DEF Evi!Vouched
    <3> QED
      BY <3>1, <3>2, <3>3, <3>4 DEF Evi!VouchedFor
  <2>9. Evi!WritesVouched' /\ Evi!SuiteVouched'
    <3>1. \A k \in Evi!Kinds : v4'[k].pc \in {"idle", "running"}
      BY <2>1
    <3> QED
      BY <2>1, <3>1, EvidenceFacts DEF Evi!WritesVouched, Evi!SuiteVouched
  <2> QED
    BY <2>6, <2>7, <2>8, <2>9 DEF Evi!EvidenceInv
<1>12. CASE UNCHANGED Evi!vars
  BY <1>12
     DEF Evi!vars, Evi!EvidenceInv, Evi!EvidenceTypes, Evi!EvidenceAssumption,
         Evi!TypeOK, Evi!CommitNamed,
         Evi!HistoryPast, Evi!FilesVouched, Evi!WritesVouched, Evi!SuiteVouched
<1> QED
  BY <1>1, <1>2, <1>3, <1>4, <1>5, <1>6, <1>7, <1>8, <1>9, <1>10, <1>11, <1>12
     DEF Evi!Next

LEMMA EvidenceTested == Evi!EvidenceInv => Evi!ReadinessMeansTested
<1> SUFFICES ASSUME Evi!EvidenceInv, Evi!Ready(v3["combined"])
             PROVE  Evi!Fresh(v5[v2]) /\ Evi!Fresh(v6[v2])
  BY DEF Evi!ReadinessMeansTested
<1> DEFINE a == v3["combined"]
<1>1. a # None /\ a.sha = v2 /\ Evi!Fresh(a.sources.integration)
      /\ Evi!Fresh(a.sources.smoke)
  BY DEF Evi!Ready
<1>2. Evi!VouchedFor("combined", a, v1, v5, v6) /\ a \in Evi!Artifact
  BY <1>1, EvidenceFacts DEF Evi!EvidenceInv, Evi!FilesVouched
<1>3. a.sources.integration \in Int /\ a.sources.smoke \in Int
  BY <1>2 DEF Evi!Artifact, Evi!Times
<1> HIDE DEF a
<1> QED
  BY <1>1, <1>2, <1>3, EvidenceFacts DEF Evi!VouchedFor, Evi!Vouched, Evi!Fresh

-----------------------------------------------------------------------------
(* Launch.  v1 is now, v2 deployed, v3 holds, v4 answer, v5 evidence, v6   *)
(* gate, v7 launch, v8 lastRan, and v9 lastHeld.                           *)

LEMMA InitLaunch == Lau!LaunchAssumption /\ Lau!Init => Lau!LaunchInv
<1> SUFFICES ASSUME Lau!LaunchAssumption, Lau!Init
             PROVE  Lau!LaunchInv
  OBVIOUS
<1>1. LaunchTime \in Nat /\ v1 = 0 /\ 0 \in Lau!Times /\ Lau!Never \in Int
      /\ Lau!Never <= 0
  BY DEF Lau!LaunchAssumption, Lau!Init, Lau!Times, Lau!Never
<1>2. /\ v8 \in [Commits -> Lau!Times \cup {Lau!Never}]
      /\ v9 \in [Facts -> Lau!Times \cup {Lau!Never}]
  BY <1>1 DEF Lau!Init
<1>3. Lau!TypeOK
  BY <1>1, <1>2 DEF Lau!Init, Lau!TypeOK
<1>4. Lau!Remembered
  BY <1>1 DEF Lau!Init, Lau!Remembered
<1> QED
  BY <1>3, <1>4
     DEF Lau!Init, Lau!LaunchInv, Lau!LaunchTypes, Lau!AnswerCurrent,
         Lau!EvidenceCurrent, Lau!GateCurrent, Lau!LaunchIsCurrent

LEMMA LaunchFacts ==
  ASSUME Lau!LaunchTypes
  PROVE  /\ v1 \in Lau!Times /\ v1 \in Int /\ v2 \in Lau!Releases
            /\ v3 \subseteq Facts
         /\ {Ahead, Tolerance, MaxReport, MaxTechnical, MaxReview, MaxException, LaunchTime} \subseteq Nat
         /\ v8 \in [Commits -> Lau!Times \cup {Lau!Never}]
            /\ v9 \in [Facts -> Lau!Times \cup {Lau!Never}]
         /\ \A s \in Commits : v8[s] \in Int
         /\ \A f \in Facts : v9[f] \in Int
         /\ v4 # None => /\ v4 \in Lau!Report
                         /\ v4.sha \in Commits /\ v4.at \in Int
         /\ v5 # None => /\ v5 \in Lau!VerifiedReport
                         /\ v5.sha \in Commits /\ v5.at \in Int
         /\ v6 # None => /\ v6 \in Lau!Inputs
                         /\ v6.evidence.sha \in Commits /\ v6.evidence.at \in Int
<1>1. /\ Lau!Times \subseteq Int /\ Lau!Never \in Int
      /\ {Ahead, Tolerance, MaxReport, MaxTechnical, MaxReview, MaxException, LaunchTime} \subseteq Nat
  BY DEF Lau!LaunchTypes, Lau!LaunchAssumption, Lau!Times, Lau!Never
<1>2. Lau!TypeOK
  BY DEF Lau!LaunchTypes
<1>3. /\ \A s \in Commits : v8[s] \in Int
      /\ \A f \in Facts : v9[f] \in Int
  BY <1>1, <1>2 DEF Lau!TypeOK
<1> QED
  BY <1>1, <1>2, <1>3 DEF Lau!TypeOK, Lau!Report, Lau!VerifiedReport, Lau!Inputs

LEMMA RememberFacts ==
  ASSUME Lau!LaunchTypes, Lau!Remember, v1' \in Lau!Times
  PROVE  /\ v8' \in [Commits -> Lau!Times \cup {Lau!Never}]
         /\ v9' \in [Facts -> Lau!Times \cup {Lau!Never}]
         /\ \A s \in Commits : v8'[s] = IF v2' = s THEN v1' ELSE v8[s]
         /\ \A f \in Facts : v9'[f] = IF f \in v3' THEN v1' ELSE v9[f]
  BY LaunchFacts DEF Lau!Remember

LEMMA NextLaunchTypes == Lau!LaunchTypes
/\ [Lau!Next]_(Lau!vars) => Lau!LaunchTypes'
<1> SUFFICES ASSUME Lau!LaunchTypes, [Lau!Next]_(Lau!vars)
             PROVE  Lau!LaunchTypes'
  OBVIOUS
<1>0. Lau!TypeOK /\ Lau!LaunchAssumption
  BY DEF Lau!LaunchTypes
<1>1. CASE Lau!Ask
  <2>1. [pc |-> "querying", sha |-> v2, left |-> Facts, at |-> 0] \in Lau!Report
    BY <1>0, <1>1 DEF Lau!Ask, Lau!TypeOK, Lau!Releases, Lau!Report
  <2> QED
    BY <1>0, <1>1, <2>1
       DEF Lau!Ask, Lau!LaunchTypes, Lau!LaunchAssumption, Lau!TypeOK
<1>2. CASE Lau!Generate
  <2>1. v1 + Ahead \in Int
    BY LaunchFacts
  <2>2. v4 \in Lau!Report /\ v4' = [v4 EXCEPT !.pc = "reported", !.at = v1 + Ahead]
    BY <1>2, LaunchFacts DEF Lau!Generate
  <2>3. v4' \in Lau!Report
    BY <2>1, <2>2 DEF Lau!Report
  <2> QED
    BY <1>0, <1>2, <2>3
       DEF Lau!Generate, Lau!LaunchTypes, Lau!LaunchAssumption, Lau!TypeOK
<1>3. CASE Lau!Lose
  BY <1>0, <1>3 DEF Lau!Lose, Lau!LaunchTypes, Lau!LaunchAssumption, Lau!TypeOK
<1>4. ASSUME NEW f \in Facts, Lau!Query(f)
      PROVE  Lau!LaunchTypes'
  <2>1. v4' = None \/ v4' = [v4 EXCEPT !.left = @ \ {f}]
    BY <1>4 DEF Lau!Query
  <2>2. v4 \in Lau!Report
    BY <1>4, LaunchFacts DEF Lau!Query
  <2>3. v4' \in Lau!Report \cup {None}
    BY <2>1, <2>2 DEF Lau!Report
  <2> QED
    BY <1>0, <1>4, <2>3
       DEF Lau!Query, Lau!LaunchTypes, Lau!LaunchAssumption, Lau!TypeOK
<1>5. ASSUME NEW sha \in Commits, Lau!Verify(sha)
      PROVE  Lau!LaunchTypes'
  <2>1. v5' = v5 \/ v5' = [sha |-> sha, at |-> v1]
    BY <1>5 DEF Lau!Verify
  <2>2. v5' \in Lau!VerifiedReport \cup {None}
    BY <1>0, <2>1 DEF Lau!TypeOK, Lau!VerifiedReport
  <2> QED
    BY <1>0, <1>5, <2>2
       DEF Lau!Verify, Lau!LaunchTypes, Lau!LaunchAssumption, Lau!TypeOK
<1>6. ASSUME NEW attested \in [sha : Commits, oldest : Lau!Times,
                               expires : {None} \cup 1 .. LaunchTime + MaxException],
             Lau!Evaluate(attested)
      PROVE  Lau!LaunchTypes'
  <2>1. attested \in Lau!Attested
    BY <1>0 DEF Lau!LaunchAssumption, Lau!Attested
  <2>2. [evidence |-> v5, attestation |-> attested] \in Lau!Inputs
    BY <1>6, <2>1, LaunchFacts DEF Lau!Evaluate, Lau!Inputs
  <2> QED
    BY <1>0, <1>6, <2>2
       DEF Lau!Evaluate, Lau!LaunchTypes, Lau!LaunchAssumption, Lau!TypeOK
<1>7. CASE Lau!Build
  <2>1. [input |-> v6, at |-> v1] \in [input : Lau!Inputs, at : Lau!Times]
    BY <1>7, LaunchFacts DEF Lau!Build
  <2>2. v7' = None \/ v7' = [input |-> v6, at |-> v1]
    BY <1>7 DEF Lau!Build
  <2> QED
    BY <1>0, <1>7, <2>1, <2>2
       DEF Lau!Build, Lau!LaunchTypes, Lau!LaunchAssumption, Lau!TypeOK
<1>8. CASE Lau!Rename
  BY <1>0, <1>8 DEF Lau!Rename, Lau!LaunchTypes, Lau!LaunchAssumption, Lau!TypeOK
<1>9. ASSUME NEW release \in Lau!Releases, Lau!Deploy(release)
      PROVE  Lau!LaunchTypes'
  BY <1>0, <1>9, RememberFacts
     DEF Lau!Deploy, Lau!LaunchTypes, Lau!LaunchAssumption, Lau!TypeOK
<1>10. ASSUME NEW f \in Facts, Lau!Change(f)
       PROVE  Lau!LaunchTypes'
  BY <1>0, <1>10, RememberFacts
     DEF Lau!Change, Lau!LaunchTypes, Lau!LaunchAssumption, Lau!TypeOK
<1>11. CASE Lau!Tick
  <2>1. v1' \in Lau!Times
    BY <1>11, LaunchFacts DEF Lau!Tick, Lau!Times
  <2> QED
    BY <1>0, <1>11, <2>1, RememberFacts
       DEF Lau!Tick, Lau!LaunchTypes, Lau!LaunchAssumption, Lau!TypeOK
<1>12. CASE UNCHANGED Lau!vars
  BY <1>0, <1>12 DEF Lau!vars, Lau!LaunchTypes, Lau!LaunchAssumption, Lau!TypeOK
<1> QED
  BY <1>1, <1>2, <1>3, <1>4, <1>5, <1>6, <1>7, <1>8, <1>9, <1>10, <1>11, <1>12
     DEF Lau!Next

(* Production changes, or time passes: what was seen before is not         *)
(* forgotten.                                                              *)
LEMMA SurroundingsCurrent ==
  ASSUME Lau!LaunchInv, Lau!LaunchTypes', Lau!Remember, v7 = None,
         v1' = v1 \/ (v1' = v1 + 1 /\ (v4 = None \/ v4.pc = "reported")),
         UNCHANGED <<v4, v5, v6, v7>>
  PROVE  Lau!LaunchInv'
<1>1. /\ Lau!LaunchTypes /\ Lau!Remembered /\ Lau!AnswerCurrent
         /\ Lau!EvidenceCurrent /\ Lau!GateCurrent
  BY DEF Lau!LaunchInv
<1>2. v1' \in Lau!Times /\ v1' \in Int /\ v1 \in Int
  BY <1>1, LaunchFacts DEF Lau!LaunchTypes, Lau!TypeOK, Lau!Times
<1>3. /\ \A s \in Commits : v8'[s] = IF v2' = s THEN v1' ELSE v8[s]
      /\ \A f \in Facts : v9'[f] = IF f \in v3' THEN v1' ELSE v9[f]
  BY <1>1, <1>2, RememberFacts
<1>4. Lau!Remembered'
  BY <1>1, <1>2, <1>3, LaunchFacts DEF Lau!Remembered
<1>5. /\ \A s \in Commits : v8'[s] >= v8[s] /\ v8'[s] \in Int
      /\ \A f \in Facts : v9'[f] >= v9[f] /\ v9'[f] \in Int
  BY <1>1, <1>2, <1>3, LaunchFacts DEF Lau!Remembered
<1>6. \A s \in Commits, t \in Int :
        Lau!Since(s, t, v8, v9) => Lau!Since(s, t, v8', v9')
  BY <1>1, <1>5, LaunchFacts DEF Lau!Since
<1>7. Lau!AnswerCurrent'
  <2> SUFFICES ASSUME v4 # None
               PROVE  Lau!AnswerCurrent'
    BY DEF Lau!AnswerCurrent
  <2>1. v4.sha \in Commits /\ v4.at - Ahead \in Int
    BY <1>1, LaunchFacts
  <2>2. ASSUME v4.pc = "querying"
        PROVE  /\ v8'[v4.sha] = v1'
               /\ \A f \in Facts : f \notin v4.left => v9'[f] = v1'
    <3>1. v1' = v1
      BY <2>2
    <3> QED
      BY <1>1, <1>3, <2>1, <2>2, <3>1 DEF Lau!AnswerCurrent
  <2>3. ASSUME v4.pc = "reported"
        PROVE  Lau!Since(v4.sha, v4.at - Ahead, v8', v9')
    BY <1>1, <1>6, <2>1, <2>3 DEF Lau!AnswerCurrent
  <2> QED
    BY <2>2, <2>3 DEF Lau!AnswerCurrent
<1>8. Lau!EvidenceCurrent'
  <2>1. ASSUME v5 # None
        PROVE  Lau!Since(v5.sha, v5.at - MaxReport - Ahead, v8', v9')
    <3>1. v5.sha \in Commits /\ v5.at - MaxReport - Ahead \in Int
      BY <1>1, <2>1, LaunchFacts
    <3> QED
      BY <1>1, <1>6, <2>1, <3>1 DEF Lau!EvidenceCurrent
  <2> QED
    BY <2>1 DEF Lau!EvidenceCurrent
<1>9. Lau!GateCurrent'
  <2>1. ASSUME v6 # None
        PROVE  /\ v6.evidence.sha = v6.attestation.sha
               /\ Lau!Since(v6.evidence.sha, v6.evidence.at - MaxReport - Ahead,
                        v8', v9')
    <3>1. v6.evidence.sha \in Commits /\ v6.evidence.at - MaxReport - Ahead \in Int
      BY <1>1, <2>1, LaunchFacts
    <3> QED
      BY <1>1, <1>6, <2>1, <3>1 DEF Lau!GateCurrent
  <2> QED
    BY <2>1 DEF Lau!GateCurrent
<1>10. Lau!LaunchIsCurrent'
  BY DEF Lau!LaunchIsCurrent
<1> QED
  BY <1>4, <1>7, <1>8, <1>9, <1>10 DEF Lau!LaunchInv

LEMMA NextLaunch == Lau!LaunchInv /\ [Lau!Next]_(Lau!vars) => Lau!LaunchInv'
<1> SUFFICES ASSUME Lau!LaunchInv, [Lau!Next]_(Lau!vars)
             PROVE  Lau!LaunchInv'
  OBVIOUS
<1>0. /\ Lau!LaunchTypes /\ Lau!Remembered /\ Lau!AnswerCurrent
         /\ Lau!EvidenceCurrent /\ Lau!GateCurrent
      /\ Lau!LaunchTypes' /\ Lau!LaunchIsCurrent
  BY NextLaunchTypes DEF Lau!LaunchInv
<1>1. CASE UNCHANGED Lau!vars
  BY <1>0, <1>1
     DEF Lau!vars, Lau!LaunchInv, Lau!Remembered, Lau!AnswerCurrent,
         Lau!EvidenceCurrent, Lau!GateCurrent, Lau!LaunchIsCurrent
<1> SUFFICES ASSUME Lau!Next
             PROVE  Lau!LaunchInv'
  BY <1>1
<1>2. v7 = None
  BY DEF Lau!Next
<1>3. ASSUME UNCHANGED <<v1, v2, v3, v8, v9>>,
             Lau!AnswerCurrent', Lau!EvidenceCurrent', Lau!GateCurrent', Lau!LaunchIsCurrent'
      PROVE  Lau!LaunchInv'
  BY <1>0, <1>3 DEF Lau!LaunchInv, Lau!Remembered
<1>4. CASE Lau!Ask
  <2>1. /\ v2 \in Commits
        /\ v4' = [pc |-> "querying", sha |-> v2, left |-> Facts, at |-> 0]
    BY <1>0, <1>4, LaunchFacts DEF Lau!Ask, Lau!Releases
  <2>2. Lau!AnswerCurrent'
    BY <1>0, <1>4, <2>1 DEF Lau!Ask, Lau!AnswerCurrent, Lau!Remembered
  <2> QED
    BY <1>0, <1>3, <1>4, <2>2
       DEF Lau!Ask, Lau!EvidenceCurrent, Lau!GateCurrent, Lau!LaunchIsCurrent
<1>5. CASE Lau!Generate
  <2>1. /\ v4 # None /\ v4.pc = "querying" /\ v4.left = {}
        /\ v4' = [v4 EXCEPT !.pc = "reported", !.at = v1 + Ahead]
        /\ UNCHANGED <<v1, v2, v3, v5, v6, v7, v8, v9>>
    BY <1>5 DEF Lau!Generate
  <2>2. /\ v4'.pc = "reported" /\ v4'.sha = v4.sha /\ v4'.at - Ahead = v1
    BY <1>0, <2>1, LaunchFacts DEF Lau!Report
  <2>3. Lau!Since(v4'.sha, v4'.at - Ahead, v8, v9)
    BY <1>0, <2>1, <2>2, LaunchFacts DEF Lau!AnswerCurrent, Lau!Since
  <2>4. Lau!AnswerCurrent'
    BY <2>1, <2>2, <2>3 DEF Lau!AnswerCurrent
  <2> QED
    BY <1>0, <1>3, <2>1, <2>4
       DEF Lau!EvidenceCurrent, Lau!GateCurrent, Lau!LaunchIsCurrent
<1>6. CASE Lau!Lose
  BY <1>0, <1>3, <1>6
     DEF Lau!Lose, Lau!AnswerCurrent, Lau!EvidenceCurrent, Lau!GateCurrent,
         Lau!LaunchIsCurrent
<1>7. ASSUME NEW f \in Facts, Lau!Query(f)
      PROVE  Lau!LaunchInv'
  <2>1. /\ v4 # None /\ v4.pc = "querying"
        /\ UNCHANGED <<v1, v2, v3, v5, v6, v7, v8, v9>>
        /\ \/ v4' = None
           \/ f \in v3 /\ v4' = [v4 EXCEPT !.left = @ \ {f}]
    BY <1>7 DEF Lau!Query
  <2>2. ASSUME f \in v3, v4' = [v4 EXCEPT !.left = @ \ {f}]
        PROVE  Lau!AnswerCurrent'
    <3>1. /\ v4'.pc = "querying" /\ v4'.sha = v4.sha
          /\ v4'.left = v4.left \ {f}
      BY <1>0, <2>1, <2>2, LaunchFacts DEF Lau!Report
    <3>2. v9[f] = v1
      BY <1>0, <2>2 DEF Lau!Remembered
    <3> QED
      BY <1>0, <2>1, <3>1, <3>2 DEF Lau!AnswerCurrent
  <2>3. Lau!AnswerCurrent'
    BY <2>1, <2>2 DEF Lau!AnswerCurrent
  <2> QED
    BY <1>0, <1>3, <2>1, <2>3
       DEF Lau!EvidenceCurrent, Lau!GateCurrent, Lau!LaunchIsCurrent
<1>8. ASSUME NEW sha \in Commits, Lau!Verify(sha)
      PROVE  Lau!LaunchInv'
  <2>1. /\ v4 # None /\ v4.pc = "reported" /\ v4' = None
        /\ UNCHANGED <<v1, v2, v3, v6, v7, v8, v9>>
    BY <1>8 DEF Lau!Verify
  <2>2. \/ v5' = v5
        \/ /\ v5' = [sha |-> v4.sha, at |-> v1]
           /\ v1 - v4.at <= MaxReport
    BY <1>8 DEF Lau!Verify, Lau!Fresh
  <2>3. ASSUME v5' = [sha |-> v4.sha, at |-> v1], v1 - v4.at <= MaxReport
        PROVE  Lau!EvidenceCurrent'
    <3>1. Lau!Since(v4.sha, v4.at - Ahead, v8, v9)
      BY <1>0, <2>1 DEF Lau!AnswerCurrent
    <3>2. v4.at - Ahead >= v1 - MaxReport - Ahead
      BY <1>0, <2>1, <2>3, LaunchFacts
    <3>3. Lau!Since(v4.sha, v1 - MaxReport - Ahead, v8, v9)
      BY <1>0, <2>1, <3>1, <3>2, LaunchFacts DEF Lau!Since
    <3> QED
      BY <2>1, <2>3, <3>3 DEF Lau!EvidenceCurrent
  <2>4. Lau!EvidenceCurrent'
    BY <1>0, <2>1, <2>2, <2>3 DEF Lau!EvidenceCurrent
  <2> QED
    BY <1>0, <1>3, <2>1, <2>4
       DEF Lau!AnswerCurrent, Lau!GateCurrent, Lau!LaunchIsCurrent
<1>9. ASSUME NEW attested \in [sha : Commits, oldest : Lau!Times,
                               expires : {None} \cup 1 .. LaunchTime + MaxException],
             Lau!Evaluate(attested)
      PROVE  Lau!LaunchInv'
  <2>1. /\ v5 # None
        /\ v6' = [evidence |-> v5, attestation |-> attested]
        /\ v5.sha = attested.sha
        /\ UNCHANGED <<v1, v2, v3, v4, v5, v7, v8, v9>>
    BY <1>9 DEF Lau!Evaluate, Lau!Passes
  <2>2. Lau!GateCurrent'
    BY <1>0, <2>1 DEF Lau!EvidenceCurrent, Lau!GateCurrent
  <2> QED
    BY <1>0, <1>3, <2>1, <2>2
       DEF Lau!AnswerCurrent, Lau!EvidenceCurrent, Lau!LaunchIsCurrent
<1>10. CASE Lau!Build
  <2>1. /\ v6 # None /\ v6' = None
        /\ UNCHANGED <<v1, v2, v3, v4, v5, v8, v9>>
        /\ \/ v7' = None
           \/ Lau!Passes(v6) /\ v7' = [input |-> v6, at |-> v1]
    BY <1>10 DEF Lau!Build
  <2>2. ASSUME Lau!Passes(v6), v7' = [input |-> v6, at |-> v1]
        PROVE  Lau!LaunchIsCurrent'
    <3> DEFINE earliest == v1 - MaxTechnical - MaxReport - Ahead
               at == v6.evidence.at
    <3>1. /\ v6.attestation.sha = v6.evidence.sha /\ v6.attestation.sha \in Commits
          /\ at \in Int
          /\ Lau!Since(v6.attestation.sha, at - MaxReport - Ahead, v8, v9)
      BY <1>0, <2>1, LaunchFacts DEF Lau!GateCurrent
    <3>2. /\ v1 - at <= MaxTechnical
          /\ v1 - v6.attestation.oldest <= MaxReview
          /\ v6.attestation.expires # None => v6.attestation.expires > v1
      BY <2>2 DEF Lau!Passes, Lau!Fresh
    <3>3. earliest \in Int /\ at - MaxReport - Ahead >= earliest
          /\ at - MaxReport - Ahead \in Int
      BY <1>0, <3>1, <3>2, LaunchFacts
    <3> HIDE DEF earliest, at
    <3>4. /\ v8[v6.attestation.sha] >= earliest
          /\ \A f \in Facts : v9[f] >= earliest
      BY <1>0, <3>1, <3>3, LaunchFacts DEF Lau!Since
    <3> QED
      BY <2>1, <2>2, <3>2, <3>4 DEF Lau!LaunchIsCurrent, earliest
  <2>3. Lau!LaunchIsCurrent'
    BY <2>1, <2>2 DEF Lau!LaunchIsCurrent
  <2> QED
    BY <1>0, <1>3, <2>1, <2>3
       DEF Lau!AnswerCurrent, Lau!EvidenceCurrent, Lau!GateCurrent
<1>11. CASE Lau!Rename
  BY <1>0, <1>3, <1>11
     DEF Lau!Rename, Lau!AnswerCurrent, Lau!EvidenceCurrent, Lau!GateCurrent,
         Lau!LaunchIsCurrent
<1>12. ASSUME NEW release \in Lau!Releases, Lau!Deploy(release)
       PROVE  Lau!LaunchInv'
  BY <1>0, <1>2, <1>12, SurroundingsCurrent DEF Lau!Deploy
<1>13. ASSUME NEW f \in Facts, Lau!Change(f)
       PROVE  Lau!LaunchInv'
  BY <1>0, <1>2, <1>13, SurroundingsCurrent DEF Lau!Change
<1>14. CASE Lau!Tick
  BY <1>0, <1>2, <1>14, SurroundingsCurrent DEF Lau!Tick
<1> QED
  BY <1>4, <1>5, <1>6, <1>7, <1>8, <1>9, <1>10, <1>11, <1>12, <1>13, <1>14
     DEF Lau!Next

-----------------------------------------------------------------------------
(* Measurement.  v1 is today, v2 invite, v3 person, v4 entry, and v5       *)
(* snapshot.                                                               *)

MeasurementTypes == Mea!MeasurementAssumption /\ Mea!TypeOK

LEMMA InitMeasurement == Mea!MeasurementAssumption /\ Mea!Init => MeasurementTypes
<1> SUFFICES ASSUME Mea!MeasurementAssumption, Mea!Init
             PROVE  MeasurementTypes
  OBVIOUS
<1>1. 0 \in 0 .. MaxDay
  BY DEF Mea!MeasurementAssumption
<1>2. Mea!NoInvite \in Mea!Invite /\ Mea!Nobody \in Mea!Person
      /\ Mea!NoEntry \in Mea!Entry
  BY <1>1
     DEF Mea!NoInvite, Mea!Invite, Mea!Buckets, Mea!Nobody, Mea!Person, Mea!NoEntry,
         Mea!Entry
<1> QED
  BY <1>1, <1>2 DEF Mea!Init, MeasurementTypes, Mea!TypeOK

(* A call with a session.                                                  *)
LEMMA ActiveTypes ==
  ASSUME MeasurementTypes, NEW m \in Members, NEW record \in Mea!Person, Mea!Active(m, record),
         UNCHANGED v5 \/ Mea!Forget
  PROVE  MeasurementTypes'
<1>1. Mea!TypeOK /\ Mea!MeasurementAssumption
  BY DEF MeasurementTypes
<1> DEFINE returned == record.returned \/ v1 = v2[m].day + Week
           row == [record EXCEPT !.returned = returned]
<1>2. returned \in BOOLEAN
  BY DEF Mea!Person
<1>3. v3' = [v3 EXCEPT ![m] = row] /\ UNCHANGED <<v1, v2, v4>>
  BY DEF Mea!Active
<1> HIDE DEF returned
<1>4. row \in Mea!Person
  BY <1>2 DEF Mea!Person
<1> HIDE DEF row
<1>5. v3' \in [Members -> Mea!Person]
  BY <1>1, <1>3, <1>4 DEF Mea!TypeOK
<1> QED
  BY <1>1, <1>3, <1>5
     DEF MeasurementTypes, Mea!MeasurementAssumption, Mea!TypeOK, Mea!Forget

LEMMA NextMeasurement == MeasurementTypes
/\ [Mea!Next]_(Mea!vars) => MeasurementTypes'
<1> SUFFICES ASSUME MeasurementTypes, [Mea!Next]_(Mea!vars)
             PROVE  MeasurementTypes'
  OBVIOUS
<1>0. /\ Mea!TypeOK /\ Mea!MeasurementAssumption /\ MaxDay \in Nat
      /\ \A m \in Members : v2[m] \in Mea!Invite /\ v3[m] \in Mea!Person
      /\ \A e \in Entries : v4[e] \in Mea!Entry
      /\ Mea!NoInvite \in Mea!Invite /\ Mea!Nobody \in Mea!Person
         /\ Mea!NoEntry \in Mea!Entry
  <2>1. Mea!TypeOK /\ Mea!MeasurementAssumption /\ MaxDay \in Nat
        /\ 0 \in 0 .. MaxDay
    BY DEF MeasurementTypes, Mea!MeasurementAssumption
  <2>2. Mea!NoInvite \in Mea!Invite /\ Mea!Nobody \in Mea!Person
        /\ Mea!NoEntry \in Mea!Entry
    BY <2>1
       DEF Mea!NoInvite, Mea!Invite, Mea!Buckets, Mea!Nobody, Mea!Person,
           Mea!NoEntry, Mea!Entry
  <2> QED
    BY <2>1, <2>2 DEF Mea!TypeOK
<1>1. ASSUME NEW m \in Members, NEW bucket \in {RoleOf[m], "not_counted"}, Mea!Issue(m, bucket)
      PROVE  MeasurementTypes'
  <2>1. bucket \in Mea!Buckets
    BY <1>0 DEF Mea!MeasurementAssumption, Mea!Buckets
  <2>2. [Mea!NoInvite EXCEPT !.status = "pending", !.bucket = bucket] \in Mea!Invite
    BY <1>0, <2>1 DEF Mea!Invite
  <2> QED
    BY <1>0, <1>1, <2>2
       DEF Mea!Issue, MeasurementTypes, Mea!MeasurementAssumption, Mea!TypeOK,
           Mea!Forget
<1>2. ASSUME NEW m \in Members, Mea!Lapse(m)
      PROVE  MeasurementTypes'
  BY <1>0, <1>2
     DEF Mea!Lapse, MeasurementTypes, Mea!MeasurementAssumption, Mea!TypeOK,
         Mea!Forget
<1>3. ASSUME NEW m \in Members, Mea!Register(m)
      PROVE  MeasurementTypes'
  <2>1. [v2[m] EXCEPT !.status = "consumed", !.day = v1] \in Mea!Invite
    BY <1>0 DEF Mea!TypeOK, Mea!Invite
  <2>2. v2' = [v2 EXCEPT ![m] = [v2[m] EXCEPT !.status = "consumed", !.day = v1]]
    BY <1>0, <1>3 DEF Mea!Register, Mea!TypeOK
  <2>3. [Mea!Nobody EXCEPT !.status = "present"] \in Mea!Person
    BY <1>0 DEF Mea!Person
  <2>4. v2' \in [Members -> Mea!Invite] /\ v3' \in [Members -> Mea!Person]
    BY <1>0, <1>3, <2>1, <2>2, <2>3 DEF Mea!Register, Mea!TypeOK
  <2> QED
    BY <1>0, <1>3, <2>4
       DEF Mea!Register, MeasurementTypes, Mea!MeasurementAssumption, Mea!TypeOK,
           Mea!Forget
<1>4. ASSUME NEW m \in Members, Mea!Visit(m) \/ Mea!Onboard(m) \/ Mea!Expose(m) \/ Mea!Attempt(m)
      PROVE  MeasurementTypes'
  <2>1. /\ v3[m] \in Mea!Person
        /\ [v3[m] EXCEPT !.onboarded = TRUE] \in Mea!Person
        /\ [v3[m] EXCEPT !.exposed = TRUE] \in Mea!Person
        /\ [v3[m] EXCEPT !.attempted = TRUE] \in Mea!Person
    BY <1>0 DEF Mea!Person
  <2> QED
    BY <1>4, <2>1, ActiveTypes DEF Mea!Visit, Mea!Onboard, Mea!Expose, Mea!Attempt
<1>5. ASSUME NEW m \in Members, NEW seconds \in Seconds, Mea!Unlock(m, seconds)
      PROVE  MeasurementTypes'
  <2>1. [v3[m] EXCEPT !.attempted = TRUE, !.seconds = seconds] \in Mea!Person
    BY <1>0 DEF Mea!Person
  <2> QED
    BY <1>5, <2>1, ActiveTypes DEF Mea!Unlock
<1>6. ASSUME NEW m \in Members, NEW length \in Lengths, Mea!Write(m, length)
      PROVE  MeasurementTypes'
  <2>1. [v3[m] EXCEPT !.length = length] \in Mea!Person
    BY <1>0 DEF Mea!Person
  <2> QED
    BY <1>6, <2>1, ActiveTypes DEF Mea!Write
<1>7. ASSUME NEW m \in Members, Mea!DeleteAccount(m)
      PROVE  MeasurementTypes'
  BY <1>0, <1>7
     DEF Mea!DeleteAccount, MeasurementTypes, Mea!MeasurementAssumption, Mea!TypeOK,
         Mea!Forget
<1>8. ASSUME NEW e \in Entries, Mea!Join(e) \/ Mea!Revisit(e) \/ Mea!Withdraw(e)
      PROVE  MeasurementTypes'
  <2>1. /\ [Mea!NoEntry EXCEPT !.status = "present", !.day = v1] \in Mea!Entry
        /\ [v4[e] EXCEPT !.revisited = TRUE] \in Mea!Entry
    BY <1>0 DEF Mea!TypeOK, Mea!Entry
  <2>2. \E row \in Mea!Entry : v4' = [v4 EXCEPT ![e] = row]
    BY <1>0, <1>8, <2>1 DEF Mea!Join, Mea!Revisit, Mea!Withdraw, Mea!TypeOK
  <2>3. v4' \in [Entries -> Mea!Entry]
    BY <1>0, <2>2 DEF Mea!TypeOK
  <2> QED
    BY <1>0, <1>8, <2>3
       DEF Mea!Join, Mea!Revisit, Mea!Withdraw, MeasurementTypes,
           Mea!MeasurementAssumption, Mea!TypeOK, Mea!Forget
<1>9. CASE Mea!Midnight
  BY <1>0, <1>9
     DEF Mea!Midnight, MeasurementTypes, Mea!MeasurementAssumption, Mea!TypeOK,
         Mea!Forget
<1>10. CASE Mea!Snapshot
  <2>1. Mea!Decision \in Mea!Decisions
    BY DEF Mea!Decision, Mea!Decisions
  <2> QED
    BY <1>0, <1>10, <2>1
       DEF Mea!Snapshot, MeasurementTypes, Mea!MeasurementAssumption, Mea!TypeOK
<1>11. CASE UNCHANGED Mea!vars
  BY <1>0, <1>11
     DEF Mea!vars, MeasurementTypes, Mea!MeasurementAssumption, Mea!TypeOK
<1> QED
  BY <1>1, <1>2, <1>3, <1>4, <1>5, <1>6, <1>7, <1>8, <1>9, <1>10, <1>11 DEF Mea!Next

-----------------------------------------------------------------------------
(* The components side by side.                                            *)

OnbP == INSTANCE OnboardingProofs WITH
  Requests <- Onboardings,
  gone <- v1, nickname <- v2, onboarded <- v3, answer <- v4, evaluation <- v5,
  req <- v6, failed <- v7

DepP == INSTANCE DepthServiceProofs WITH
  Requests <- Evaluations, MaxTime <- DepthTime,
  now <- v1, pooled <- v2, enabled <- v3, cached <- v4, cachedAt <- v5,
  embedding <- v6, evaluations <- v7, lockedBy <- v8, req <- v9, lastOn <- v10

(* The two instances of Onboarding are the same, and so are those of       *)
(* DepthService.                                                           *)
LEMMA SameOnboarding ==
  /\ Onb!OnboardingAssumption => OnbP!OnboardingAssumption
  /\ Onb!Init => OnbP!Init
  /\ [Onb!Next]_(Onb!vars) => [OnbP!Next]_(OnbP!vars)
  /\ OnbP!TypeOK => Onb!TypeOK
  /\ OnbP!OnboardedIsComplete => Onb!OnboardedIsComplete
  /\ OnbP!UndisturbedRetrySucceeds => Onb!UndisturbedRetrySucceeds
  /\ OnbP!SomebodyCompletes => Onb!SomebodyCompletes
<1>1. /\ Onb!OnboardingAssumption => OnbP!OnboardingAssumption
      /\ Onb!Init => OnbP!Init
  BY DEF Onb!OnboardingAssumption, OnbP!OnboardingAssumption, Onb!Init, OnbP!Init
<1>2. /\ Onb!Running = OnbP!Running /\ Onb!Ended = OnbP!Ended
      /\ Onb!Request = OnbP!Request /\ Onb!InFlight = OnbP!InFlight
      /\ Onb!vars = OnbP!vars
  BY
     DEF Onb!Running, OnbP!Running, Onb!Ended, OnbP!Ended, Onb!Request,
         OnbP!Request,
         Onb!InFlight, OnbP!InFlight, Onb!vars, OnbP!vars
<1>3. ASSUME NEW r \in Onboardings
      PROVE  /\ Onb!Raised(r) = OnbP!Raised(r)
                /\ Onb!Succeeded(r) = OnbP!Succeeded(r)
             /\ \A pc : Onb!Goto(r, pc) <=> OnbP!Goto(r, pc)
  BY DEF Onb!Raised, OnbP!Raised, Onb!Succeeded, OnbP!Succeeded, Onb!Goto, OnbP!Goto
<1>4. ASSUME NEW r \in Onboardings
      PROVE  /\ Onb!Find(r) => OnbP!Find(r)
             /\ Onb!RequestStep(r) => OnbP!RequestStep(r)
             /\ Onb!StatementFails(r) => OnbP!StatementFails(r)
  <2>1. Onb!Find(r) => OnbP!Find(r)
    BY <1>2 DEF Onb!Find, OnbP!Find
  <2>2. Onb!Describe(r) => OnbP!Describe(r)
    BY <1>3 DEF Onb!Describe, OnbP!Describe
  <2>3. /\ Onb!LocateProfile(r) => OnbP!LocateProfile(r)
        /\ Onb!InsertAnswer(r) => OnbP!InsertAnswer(r)
        /\ Onb!Recheck(r) => OnbP!Recheck(r)
        /\ Onb!CheckEvaluation(r) => OnbP!CheckEvaluation(r)
    BY <1>3
       DEF Onb!LocateProfile, OnbP!LocateProfile, Onb!InsertAnswer,
           OnbP!InsertAnswer,
                Onb!Recheck, OnbP!Recheck, Onb!CheckEvaluation, OnbP!CheckEvaluation
  <2>4. /\ Onb!Evaluate(r) => OnbP!Evaluate(r)
        /\ Onb!Mark(r) => OnbP!Mark(r)
    BY <1>3 DEF Onb!Evaluate, OnbP!Evaluate, Onb!Mark, OnbP!Mark
  <2>5. Onb!StatementFails(r) => OnbP!StatementFails(r)
    BY <1>2, <1>3 DEF Onb!StatementFails, OnbP!StatementFails
  <2> QED
    BY <2>1, <2>2, <2>3, <2>4, <2>5 DEF Onb!RequestStep, OnbP!RequestStep
<1>5. Onb!DeleteAccount => OnbP!DeleteAccount
  BY DEF Onb!DeleteAccount, OnbP!DeleteAccount
<1>6. [Onb!Next]_(Onb!vars) => [OnbP!Next]_(OnbP!vars)
  BY <1>2, <1>4, <1>5 DEF Onb!Next, OnbP!Next, Onb!vars, OnbP!vars
<1>7. /\ OnbP!TypeOK => Onb!TypeOK
      /\ OnbP!OnboardedIsComplete => Onb!OnboardedIsComplete
      /\ OnbP!UndisturbedRetrySucceeds => Onb!UndisturbedRetrySucceeds
      /\ OnbP!SomebodyCompletes => Onb!SomebodyCompletes
  BY <1>2
     DEF Onb!TypeOK, OnbP!TypeOK, Onb!OnboardedIsComplete, OnbP!OnboardedIsComplete,
       Onb!UndisturbedRetrySucceeds, OnbP!UndisturbedRetrySucceeds,
       Onb!SomebodyCompletes, OnbP!SomebodyCompletes
<1> QED
  BY <1>1, <1>6, <1>7

LEMMA SameDepth ==
  /\ Dep!DepthAssumption => DepP!DepthAssumption
  /\ Dep!Init => DepP!Init
  /\ [Dep!Next]_(Dep!vars) => [DepP!Next]_(DepP!vars)
  /\ DepP!TypeOK => Dep!TypeOK
  /\ DepP!ScoringStopsWithinTtl => Dep!ScoringStopsWithinTtl
  /\ DepP!EmbeddingOfLastEvaluation => Dep!EmbeddingOfLastEvaluation
<1>1. /\ Dep!Paths = DepP!Paths /\ Dep!InTransaction = DepP!InTransaction
      /\ Dep!Admitted = DepP!Admitted /\ Dep!Ended = DepP!Ended
         /\ Dep!Idle = DepP!Idle
      /\ Dep!vars = DepP!vars
  BY DEF Dep!Paths, DepP!Paths, Dep!InTransaction, DepP!InTransaction, Dep!Admitted,
         DepP!Admitted, Dep!Ended, DepP!Ended, Dep!Idle, DepP!Idle, Dep!vars, DepP!vars
<1>2. Dep!Request = DepP!Request
  BY <1>1 DEF Dep!Request, DepP!Request
<1>3. /\ Dep!DepthAssumption => DepP!DepthAssumption
      /\ Dep!Init => DepP!Init
  BY <1>1 DEF Dep!DepthAssumption, DepP!DepthAssumption, Dep!Init, DepP!Init
<1>4. /\ Dep!Fresh <=> DepP!Fresh
      /\ \A r, pc : Dep!Goto(r, pc) <=> DepP!Goto(r, pc)
      /\ \A record, on : Dep!Gated(record, on) = DepP!Gated(record, on)
      /\ \A a : Dep!Unlocked(a) <=> DepP!Unlocked(a)
  BY DEF Dep!Fresh, DepP!Fresh, Dep!Goto, DepP!Goto, Dep!Gated, DepP!Gated,
         Dep!Unlocked, DepP!Unlocked
<1>5. ASSUME NEW r \in Evaluations
      PROVE  /\ Dep!Deny(r) => DepP!Deny(r)
             /\ Dep!Fetch(r) => DepP!Fetch(r)
             /\ Dep!Store(r) => DepP!Store(r)
             /\ Dep!FetchFails(r) => DepP!FetchFails(r)
             /\ Dep!Embed(r) => DepP!Embed(r)
             /\ Dep!Upsert(r) => DepP!Upsert(r)
             /\ Dep!Insert(r) => DepP!Insert(r)
             /\ Dep!Commit(r) => DepP!Commit(r)
             /\ Dep!PersistFails(r) => DepP!PersistFails(r)
             /\ Dep!Review(r) => DepP!Review(r)
             /\ \A a \in Answers : Dep!Ask(r, a) => DepP!Ask(r, a)
  <2>1. /\ Dep!Deny(r) => DepP!Deny(r)
        /\ Dep!Fetch(r) => DepP!Fetch(r)
        /\ Dep!Store(r) => DepP!Store(r)
        /\ Dep!FetchFails(r) => DepP!FetchFails(r)
    BY <1>4 DEF Dep!Deny, DepP!Deny, Dep!Fetch, DepP!Fetch, Dep!Store, DepP!Store,
                Dep!FetchFails, DepP!FetchFails
  <2>2. Dep!Embed(r) => DepP!Embed(r)
    BY <1>1, <1>4 DEF Dep!Embed, DepP!Embed
  <2>3. /\ Dep!Upsert(r) => DepP!Upsert(r)
        /\ Dep!Insert(r) => DepP!Insert(r)
        /\ Dep!Commit(r) => DepP!Commit(r)
        /\ Dep!Review(r) => DepP!Review(r)
    BY <1>4
       DEF Dep!Upsert, DepP!Upsert, Dep!Insert, DepP!Insert, Dep!Commit,
           DepP!Commit,
                Dep!Review, DepP!Review
  <2>4. Dep!PersistFails(r) => DepP!PersistFails(r)
    BY <1>1, <1>4 DEF Dep!PersistFails, DepP!PersistFails
  <2>5. ASSUME NEW a \in Answers
        PROVE  Dep!Ask(r, a) => DepP!Ask(r, a)
    BY <1>4 DEF Dep!Ask, DepP!Ask
  <2> QED
    BY <2>1, <2>2, <2>3, <2>4, <2>5
<1>6. /\ Dep!Restart => DepP!Restart
      /\ Dep!Switch => DepP!Switch
      /\ Dep!Tick => DepP!Tick
  BY <1>1
     DEF Dep!Restart, DepP!Restart, Dep!Switch, DepP!Switch, Dep!Tick, DepP!Tick
<1>7. [Dep!Next]_(Dep!vars) => [DepP!Next]_(DepP!vars)
  BY <1>1, <1>5, <1>6 DEF Dep!Next, DepP!Next, Dep!vars, DepP!vars
<1>8. /\ DepP!TypeOK => Dep!TypeOK
      /\ DepP!ScoringStopsWithinTtl => Dep!ScoringStopsWithinTtl
      /\ DepP!EmbeddingOfLastEvaluation => Dep!EmbeddingOfLastEvaluation
  BY <1>1, <1>2 DEF Dep!TypeOK, DepP!TypeOK, Dep!ScoringStopsWithinTtl,
       DepP!ScoringStopsWithinTtl, Dep!EmbeddingOfLastEvaluation, DepP!EmbeddingOfLastEvaluation
<1> QED
  BY <1>3, <1>7, <1>8

(* A step is one of the component in focus.                                *)
LEMMA StepInFocus ==
  [AllNext]_<<focus, vars, slots>> =>
    /\ UNCHANGED focus
    /\ focus = "unlock" => [Next]_vars
    /\ focus = "onboarding" => [Onb!Next]_(Onb!vars)
    /\ focus = "depth" => [Dep!Next]_(Dep!vars)
    /\ focus = "evidence" => [Evi!Next]_(Evi!vars)
    /\ focus = "launch" => [Lau!Next]_(Lau!vars)
    /\ focus = "measurement" => [Mea!Next]_(Mea!vars)
<1>1. UNCHANGED <<focus, vars, slots>> =>
        /\ UNCHANGED <<focus, vars>>
        /\ UNCHANGED Onb!vars /\ UNCHANGED Dep!vars /\ UNCHANGED Evi!vars
        /\ UNCHANGED Lau!vars /\ UNCHANGED Mea!vars
  BY DEF slots, Onb!vars, Dep!vars, Evi!vars, Lau!vars, Mea!vars
<1> QED
  BY <1>1 DEF AllNext

AllInv ==
  /\ focus = "unlock" => IInv
  /\ focus = "onboarding" =>
       /\ OnbP!GateInv /\ OnbP!SomebodyLeads
       /\ \A r \in Onboardings : OnbP!Undisturbed(r)
  /\ focus = "depth" => DepP!IInv /\ DepP!EmbeddingOfLastEvaluation
  /\ focus = "evidence" => Evi!EvidenceTypes /\ (Careful => Evi!EvidenceInv)
  /\ focus = "launch" => Lau!LaunchInv
  /\ focus = "measurement" => MeasurementTypes

LEMMA AllInitHolds == AllInit => AllInv
<1> SUFFICES ASSUME AllInit
             PROVE  AllInv
  OBVIOUS
<1>1. /\ UnlockAssumption /\ Onb!OnboardingAssumption /\ Dep!DepthAssumption
      /\ Evi!EvidenceAssumption /\ Lau!LaunchAssumption /\ Mea!MeasurementAssumption
  BY SideBySideAssumption
<1>2. focus = "unlock" => IInv
  BY <1>1, InitHolds DEF AllInit
<1>3. ASSUME focus = "onboarding"
      PROVE  /\ OnbP!GateInv /\ OnbP!SomebodyLeads
             /\ \A r \in Onboardings : OnbP!Undisturbed(r)
  <2>1. OnbP!Init /\ OnbP!OnboardingAssumption
    BY <1>1, <1>3, SameOnboarding DEF AllInit
  <2>2. OnbP!GateInv
    BY <2>1, OnbP!InitGate
  <2>3. \A r \in Onboardings : OnbP!Undisturbed(r) /\ OnbP!SomebodyLeads
    BY <2>1
       DEF OnbP!Init, OnbP!Undisturbed, OnbP!SomebodyLeads, OnbP!Running, OnbP!Ended
  <2>4. OnbP!SomebodyLeads
    BY <2>1 DEF OnbP!Init, OnbP!SomebodyLeads
  <2> QED
    BY <2>2, <2>3, <2>4
<1>4. ASSUME focus = "depth"
      PROVE  DepP!IInv /\ DepP!EmbeddingOfLastEvaluation
  <2>1. DepP!Init /\ DepP!DepthAssumption
    BY <1>1, <1>4, SameDepth DEF AllInit
  <2> QED
    BY <2>1, DepP!InitIInv, DepP!InitEmbeddings
<1>5. focus = "evidence" => Evi!EvidenceTypes /\ Evi!EvidenceInv
  BY <1>1, InitEvidence DEF AllInit, Evi!EvidenceInv
<1>6. focus = "launch" => Lau!LaunchInv
  BY <1>1, InitLaunch DEF AllInit
<1>7. focus = "measurement" => MeasurementTypes
  BY <1>1, InitMeasurement DEF AllInit
<1> QED
  BY <1>2, <1>3, <1>4, <1>5, <1>6, <1>7 DEF AllInv

LEMMA AllNextHolds == AllInv /\ [AllNext]_<<focus, vars, slots>> => AllInv'
<1> SUFFICES ASSUME AllInv, [AllNext]_<<focus, vars, slots>>
             PROVE  AllInv'
  OBVIOUS
<1>1. UNCHANGED focus
  BY StepInFocus
<1>2. ASSUME focus = "unlock"
      PROVE  IInv'
  BY <1>2, StepInFocus, NextHolds DEF AllInv
<1>3. ASSUME focus = "onboarding"
      PROVE  /\ OnbP!GateInv' /\ OnbP!SomebodyLeads'
             /\ (\A r \in Onboardings : OnbP!Undisturbed(r))'
  <2>1. [OnbP!Next]_(OnbP!vars)
    BY <1>3, StepInFocus, SameOnboarding
  <2>2. /\ OnbP!GateInv /\ OnbP!SomebodyLeads
        /\ \A r \in Onboardings : OnbP!Undisturbed(r)
    BY <1>3 DEF AllInv
  <2> QED
    BY <2>1, <2>2, OnbP!NextGate, OnbP!NextLeads, OnbP!NextUndisturbed
<1>4. ASSUME focus = "depth"
      PROVE  DepP!IInv' /\ DepP!EmbeddingOfLastEvaluation'
  <2>1. [DepP!Next]_(DepP!vars)
    BY <1>4, StepInFocus, SameDepth
  <2>2. DepP!IInv /\ DepP!EmbeddingOfLastEvaluation
    BY <1>4 DEF AllInv
  <2> QED
    BY <2>1, <2>2, DepP!NextIInv, DepP!NextEmbeddings
<1>5. ASSUME focus = "evidence"
      PROVE  Evi!EvidenceTypes' /\ (Careful => Evi!EvidenceInv')
  BY <1>5, StepInFocus, NextEvidenceTypes, NextEvidence DEF AllInv
<1>6. ASSUME focus = "launch"
      PROVE  Lau!LaunchInv'
  BY <1>6, StepInFocus, NextLaunch DEF AllInv
<1>7. ASSUME focus = "measurement"
      PROVE  MeasurementTypes'
  BY <1>7, StepInFocus, NextMeasurement DEF AllInv
<1> QED
  BY <1>1, <1>2, <1>3, <1>4, <1>5, <1>6, <1>7 DEF AllInv

LEMMA AllInvariance == AllSpec => []AllInv
  BY AllInitHolds, AllNextHolds, PTL DEF AllSpec

(* The rows, the files, the processes and the histories of all six         *)
(* components are well typed.                                              *)
THEOREM TypesCorrect == AllSpec => []AllTypeOK
<1>1. AllInv => AllTypeOK
  <2> SUFFICES ASSUME AllInv
               PROVE  AllTypeOK
    OBVIOUS
  <2>1. focus = "unlock" => TypeOK
    BY DEF AllInv, IInv
  <2>2. focus = "onboarding" => Onb!TypeOK
    BY SameOnboarding DEF AllInv, OnbP!GateInv
  <2>3. focus = "depth" => Dep!TypeOK
    <3>1. DepP!IInv => DepP!TypeOK
      BY DEF DepP!IInv, DepP!TypeOK, DepP!ClockType, DepP!StoreType, DepP!RequestOK
    <3> QED
      BY <3>1, SameDepth DEF AllInv
  <2>4. focus = "evidence" => Evi!TypeOK
    BY DEF AllInv, Evi!EvidenceTypes
  <2>5. focus = "launch" => Lau!TypeOK
    BY DEF AllInv, Lau!LaunchInv, Lau!LaunchTypes
  <2>6. focus = "measurement" => Mea!TypeOK
    BY DEF AllInv, MeasurementTypes
  <2> QED
    BY <2>1, <2>2, <2>3, <2>4, <2>5, <2>6 DEF AllTypeOK
<1> QED
  BY <1>1, AllInvariance, PTL

(* A profile is onboarded only with an evaluated answer                    *)
(* (saveOnboardingAnswer).                                                 *)
THEOREM OnboardedComplete == AllSpec => []OnboardedIsComplete
<1>1. AllInv => OnboardedIsComplete
  BY SameOnboarding DEF AllInv, OnbP!GateInv, OnboardedIsComplete
<1> QED
  BY <1>1, AllInvariance, PTL

(* What a failed submission leaves behind never stops the next one         *)
(* (saveOnboardingAnswer).                                                 *)
THEOREM UndisturbedSucceeds == AllSpec => []UndisturbedRetrySucceeds
<1>1. (\A r \in Onboardings : OnbP!Undisturbed(r)) => OnbP!UndisturbedRetrySucceeds
  BY DEF OnbP!Undisturbed, OnbP!UndisturbedRetrySucceeds
<1>2. AllInv => UndisturbedRetrySucceeds
  BY <1>1, SameOnboarding DEF AllInv, UndisturbedRetrySucceeds
<1> QED
  BY <1>2, AllInvariance, PTL

(* Submissions that race each other do not all fail                        *)
(* (saveOnboardingAnswer).                                                 *)
THEOREM OneCompletes == AllSpec => []SomebodyCompletes
<1>1. OnbP!SomebodyLeads => OnbP!SomebodyCompletes
  BY DEF OnbP!SomebodyLeads, OnbP!SomebodyCompletes, OnbP!InFlight, OnbP!Running
<1>2. AllInv => SomebodyCompletes
  BY <1>1, SameOnboarding DEF AllInv, SomebodyCompletes
<1> QED
  BY <1>2, AllInvariance, PTL

(* Switching scoring off takes effect within the time to live of the cache *)
(* (AppConfigProvider.get).                                                *)
THEOREM ScoringStops == AllSpec => []ScoringStopsWithinTtl
<1>1. DepP!IInv => DepP!ScoringStopsWithinTtl
  BY DEF DepP!IInv, DepP!ScoringStopsWithinTtl, DepP!RequestOK
<1>2. AllInv => ScoringStopsWithinTtl
  BY <1>1, SameDepth DEF AllInv, ScoringStopsWithinTtl
<1> QED
  BY <1>2, AllInvariance, PTL

(* The embedding on file is that of the latest evaluation                  *)
(* (persist_evaluation).                                                   *)
THEOREM EmbeddingsAgree == AllSpec => []EmbeddingOfLastEvaluation
<1>1. AllInv => EmbeddingOfLastEvaluation
  BY SameDepth DEF AllInv, EmbeddingOfLastEvaluation
<1> QED
  BY <1>1, AllInvariance, PTL

(* As long as the checkout is left alone while the suite runs,             *)
(* readiness:alpha passes only for a commit that was tested and smoked     *)
(* lately, however files were overwritten and commits checked out between  *)
(* the steps (combineSourceArtifacts, validateReadinessEvidence).          *)
THEOREM ReadinessTested == ASSUME Careful PROVE AllSpec => []ReadinessMeansTested
<1>1. AllInv => ReadinessMeansTested
  BY EvidenceTested DEF AllInv, ReadinessMeansTested
<1> QED
  BY <1>1, AllInvariance, PTL

(* A launch artifact stands for the present state of production, however   *)
(* long answers travel, scripts pause and files lie about                  *)
(* (verifyProductionReadinessReport, evaluateClosedAlphaLaunch).           *)
THEOREM LaunchCurrent == AllSpec => []LaunchIsCurrent
<1>1. AllInv => LaunchIsCurrent
  BY DEF AllInv, Lau!LaunchInv, LaunchIsCurrent
<1> QED
  BY <1>1, AllInvariance, PTL
=============================================================================
