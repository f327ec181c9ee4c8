------------------------- MODULE DepthServiceProofs -------------------------
(* Theorems about DepthService, for any requests, answers and time to live.*)
EXTENDS DepthService, TLAPS

(* What holds of one request.                                              *)
RequestOK(r) ==
  /\ req[r].pc \notin {"idle", "denied"} => req[r].answer \in Answers
  /\ \A a \in Answers : lockedBy[a] = r <=> req[r].pc \in InTransaction /\ req[r].answer = a
  /\ req[r].asked <= now
  /\ req[r].pc \in {"fetching", "fetched"} => pooled
  /\ req[r].pc = "fetched" /\ req[r].read => lastOn >= req[r].asked
  /\ req[r].pc \in Admitted => req[r].seenOn > req[r].asked - Ttl

(* The variables a request does not change.                                *)
ClockType == now \in Nat /\ pooled \in BOOLEAN /\ enabled \in BOOLEAN /\ lastOn \in Int

StoreType ==
  /\ cached \in BOOLEAN /\ cachedAt \in Nat
  /\ embedding \in [Answers -> Requests \cup {None}]
  /\ evaluations \in [Answers -> Seq(Requests)]
  /\ lockedBy \in [Answers -> Requests \cup {None}]

(* What the cache says was so at the time it is dated by, or later.        *)
CacheIsDated ==
  /\ enabled => lastOn = now
  /\ lastOn <= now
  /\ cached => lastOn >= cachedAt
  /\ ~ pooled => ~ cached

IInv ==
  /\ DepthAssumption
  /\ ClockType /\ StoreType /\ CacheIsDated
  /\ req \in [Requests -> Request]
  /\ \A r \in Requests : RequestOK(r)

USE DEF InTransaction, Admitted, Ended, Paths

-----------------------------------------------------------------------------
(* The service starts typed, with a cache that allows nothing.             *)
LEMMA InitIInv == DepthAssumption /\ Init => IInv
<1> SUFFICES ASSUME DepthAssumption, Init PROVE IInv
  OBVIOUS
<1>0. DepthAssumption
  BY DEF IInv
<1> USE <1>0 DEF DepthAssumption
<1>1. now \in Nat /\ -Ttl \in Int /\ -Ttl <= now
  BY DEF Init
<1>2. ClockType /\ StoreType /\ CacheIsDated
  <2>1. ClockType /\ CacheIsDated
    BY <1>1 DEF Init, ClockType, CacheIsDated
  <2>2. StoreType
    <3>1. <<>> \in Seq(Requests)
      OBVIOUS
    <3>2. evaluations \in [Answers -> Seq(Requests)]
      BY <3>1 DEF Init
    <3>3. QED
      BY <3>2 DEF Init, StoreType
  <2>3. QED
    BY <2>1, <2>2
<1>3. Idle \in Request
  BY DEF Idle, Request
<1>4. req \in [Requests -> Request]
  BY <1>3 DEF Init
<1>5. ASSUME NEW r \in Requests PROVE RequestOK(r)
  <2>1. req[r].pc = "idle" /\ req[r].asked = 0 /\ \A a \in Answers : lockedBy[a] # r
    BY DEF Init, Idle
  <2>2. QED
    BY <1>1, <2>1 DEF RequestOK
<1>6. QED
  BY <1>2, <1>4, <1>5 DEF IInv

(* Changing one record of a function to another record of the type.        *)
LEMMA OthersKept ==
  ASSUME req \in [Requests -> Request], NEW r \in Requests, NEW row \in Request,
         req' = [req EXCEPT ![r] = row]
  PROVE  /\ req' \in [Requests -> Request]
         /\ req'[r] = row
         /\ \A q \in Requests \ {r} : req'[q] = req[q]
  OBVIOUS

(* A step of one request that leaves the clock and the switch alone, and   *)
(* the locks of the others.                                                *)
LEMMA RequestStep ==
  ASSUME IInv, NEW r \in Requests, NEW row \in Request,
         req' = [req EXCEPT ![r] = row],
         UNCHANGED <<now, pooled, enabled, lastOn>>,
         StoreType', CacheIsDated', RequestOK(r)',
         \A a \in Answers, q \in Requests \ {r} : lockedBy'[a] = q <=> lockedBy[a] = q
  PROVE  IInv'
<1>1. /\ req' \in [Requests -> Request]
      /\ \A q \in Requests \ {r} : req'[q] = req[q]
  BY OthersKept DEF IInv
<1>2. ASSUME NEW q \in Requests, q # r PROVE RequestOK(q)'
  <2>1. RequestOK(q) /\ req'[q] = req[q]
    BY <1>1, <1>2 DEF IInv
  <2>2. QED
    BY <1>2, <2>1 DEF RequestOK
<1>3. ClockType'
  BY DEF IInv, ClockType
<1>4. QED
  BY <1>1, <1>2, <1>3 DEF IInv

(* What every step of a request knows of it before.                        *)
LEMMA RequestFacts ==
  ASSUME IInv, NEW r \in Requests
  PROVE  /\ req[r] \in Request /\ RequestOK(r)
         /\ now \in Nat /\ lastOn \in Int /\ cachedAt \in Nat /\ Ttl \in Nat \ {0}
         /\ req[r].asked \in Nat /\ req[r].seenOn \in Int
         /\ req[r].pc \notin InTransaction => \A a \in Answers : lockedBy[a] # r
  BY DEF DepthAssumption, IInv, ClockType, StoreType, Request, RequestOK

-----------------------------------------------------------------------------
(* Steps that only move a request on, outside its transaction.             *)
LEMMA MoveHolds ==
  ASSUME IInv, NEW r \in Requests, NEW pc, NEW read \in BOOLEAN, NEW path \in Paths,
         req' = [req EXCEPT ![r] = [req[r] EXCEPT !.pc = pc, !.read = read, !.path = path]],
         UNCHANGED <<now, pooled, enabled, cached, cachedAt, embedding, evaluations,
                     lockedBy, lastOn>>,
         \/ req[r].pc = "idle" /\ pc = "denied"
         \/ req[r].pc = "fetching" /\ pc = "fetched" /\ read = enabled
         \/ req[r].pc \in {"fetching", "fetched"} /\ pc = "failed"
         \/ req[r].pc = "embedding" /\ pc \in {"scored", "unavailable"}
         \/ req[r].pc = "upserted" /\ pc = "inserted"
         \/ req[r].pc = "answered" /\ pc = "reviewed"
  PROVE  IInv'
<1> DEFINE row == [req[r] EXCEPT !.pc = pc, !.read = read, !.path = path]
<1>1. req[r] \in Request /\ RequestOK(r)
  BY RequestFacts
<1>2. row \in Request
  BY <1>1 DEF Request
<1>3. /\ row.pc = pc /\ row.read = read /\ row.answer = req[r].answer
      /\ row.asked = req[r].asked /\ row.seenOn = req[r].seenOn
  BY <1>1 DEF Request
<1> HIDE DEF row
<1>4. req'[r] = row
  BY <1>2, OthersKept DEF IInv, row
<1>5. StoreType' /\ CacheIsDated'
  BY DEF IInv, StoreType, CacheIsDated
<1>6. RequestOK(r)'
  BY <1>1, <1>3, <1>4, RequestFacts DEF RequestOK, IInv, CacheIsDated
<1>7. req' = [req EXCEPT ![r] = row]
  BY DEF row
<1>8. QED
  BY <1>2, <1>5, <1>6, <1>7, RequestStep

(* Asking: an answer from the cache is dated later than Ttl ago.           *)
LEMMA AskHolds ==
  ASSUME IInv, NEW r \in Requests, NEW a \in Answers, Ask(r, a)
  PROVE  IInv'
<1> DEFINE asking == [req[r] EXCEPT !.pc = "fetching", !.answer = a, !.asked = now]
           row == IF ~ pooled \/ Fresh THEN Gated(asking, cached) ELSE asking
<1>1. req[r] \in Request /\ RequestOK(r) /\ req[r].pc = "idle" /\ now \in Nat /\ lastOn \in Int
      /\ cachedAt \in Nat /\ Ttl \in Nat \ {0} /\ \A b \in Answers : lockedBy[b] # r
  BY RequestFacts DEF Ask
<1>2. row \in Request /\ row.answer = a /\ row.asked = now
  BY <1>1 DEF Request, Gated
<1>3. \/ row.pc = "fetching" /\ pooled
      \/ row.pc = "unavailable"
      \/ row.pc = "embedding" /\ row.seenOn = lastOn /\ cached /\ (~ pooled \/ Fresh)
  BY <1>1 DEF Request, Gated
<1>4. req' = [req EXCEPT ![r] = row]
  BY DEF Ask
<1> HIDE DEF row
<1>5. req'[r] = row
  BY <1>2, <1>4, OthersKept DEF IInv
<1>6. cached /\ (~ pooled \/ Fresh) => lastOn > now - Ttl
  BY <1>1 DEF IInv, CacheIsDated, Fresh
<1>7. StoreType' /\ CacheIsDated'
  BY DEF Ask, IInv, StoreType, CacheIsDated
<1>8. RequestOK(r)'
  BY <1>1, <1>2, <1>3, <1>5, <1>6 DEF Ask, RequestOK
<1>9. QED
  BY <1>2, <1>4, <1>7, <1>8, RequestStep DEF Ask

(* Filling the cache: what was fetched was so when asked, or later.        *)
LEMMA StoreHolds ==
  ASSUME IInv, NEW r \in Requests, Store(r)
  PROVE  IInv'
<1> DEFINE row == Gated(req[r], req[r].read)
<1>1. req[r] \in Request /\ RequestOK(r) /\ req[r].pc = "fetched" /\ now \in Nat /\ lastOn \in Int
      /\ req[r].asked \in Nat /\ Ttl \in Nat \ {0} /\ \A b \in Answers : lockedBy[b] # r
  BY RequestFacts DEF Store
<1>2. /\ row \in Request /\ row.answer = req[r].answer /\ row.asked = req[r].asked
      /\ row.seenOn = lastOn
      /\ row.pc = IF req[r].read THEN "embedding" ELSE "unavailable"
  BY <1>1 DEF Request, Gated
<1>3. req' = [req EXCEPT ![r] = row]
  BY <1>1 DEF Store, IInv
<1> HIDE DEF row
<1>4. req'[r] = row
  BY <1>2, <1>3, OthersKept DEF IInv
<1>5. req[r].read \in BOOLEAN /\ pooled /\ (req[r].read => lastOn >= req[r].asked)
  BY <1>1 DEF RequestOK, Request
<1>6. StoreType' /\ CacheIsDated'
  BY <1>1, <1>5 DEF Store, IInv, StoreType, CacheIsDated
<1>7. RequestOK(r)'
  BY <1>1, <1>2, <1>4, <1>5 DEF Store, RequestOK
<1>8. QED
  BY <1>2, <1>3, <1>6, <1>7, RequestStep DEF Store

(* The transaction: the row of the answer belongs to whoever is writing it.*)
LEMMA TransactionHolds ==
  ASSUME IInv, NEW r \in Requests, Upsert(r) \/ Commit(r) \/ PersistFails(r)
  PROVE  IInv'
<1> PICK pc \in {"upserted", "answered", "failed"} :
      /\ req' = [req EXCEPT ![r].pc = pc]
      /\ pc = "upserted" <=> Upsert(r)
  BY DEF Upsert, Commit, PersistFails, Goto
<1> DEFINE row == [req[r] EXCEPT !.pc = pc]
           a == req[r].answer
<1>1. req[r] \in Request /\ RequestOK(r) /\ req[r].pc \in {"scored", "upserted", "inserted"}
      /\ a \in Answers
  BY RequestFacts DEF Upsert, Commit, PersistFails, RequestOK
<1>2. row \in Request /\ row.answer = a /\ row.asked = req[r].asked
      /\ row.seenOn = req[r].seenOn /\ row.pc = pc
  BY <1>1 DEF Request
<1>3. req' = [req EXCEPT ![r] = row]
  BY DEF IInv
<1> HIDE DEF row
<1>4. req'[r] = row
  BY <1>2, <1>3, OthersKept DEF IInv
<1>5. \A b \in Answers : lockedBy[b] = r => b = a
  BY <1>1 DEF RequestOK
<1>6. /\ StoreType'
      /\ \A b \in Answers : lockedBy'[b] = r <=> pc = "upserted" /\ b = a
      /\ \A b \in Answers, q \in Requests \ {r} : lockedBy'[b] = q <=> lockedBy[b] = q
  <2>1. CASE Upsert(r)
    BY <1>1, <1>5, <2>1 DEF DepthAssumption, Upsert, IInv, StoreType
  <2>2. CASE Commit(r)
    <3>1. lockedBy[a] = r
      BY <1>1, <2>2 DEF Commit, RequestOK
    <3>2. evaluations' \in [Answers -> Seq(Requests)]
      BY <1>1, <2>2 DEF Commit, IInv, StoreType
    <3>3. pc # "upserted"
      BY <2>2 DEF Commit, Upsert
    <3>4. QED
      BY <1>1, <1>5, <2>2, <3>1, <3>2, <3>3 DEF DepthAssumption, Commit, Unlocked, IInv, StoreType
  <2>3. CASE PersistFails(r) /\ ~ Upsert(r)
    BY <1>1, <1>5, <2>3 DEF DepthAssumption, PersistFails, IInv, StoreType
  <2>4. QED
    BY <2>1, <2>2, <2>3
<1>7. UNCHANGED <<now, pooled, enabled, cached, cachedAt, lastOn>>
  BY DEF Upsert, Commit, PersistFails
<1>8. CacheIsDated'
  BY <1>7 DEF IInv, CacheIsDated
<1>9. RequestOK(r)'
  BY <1>1, <1>2, <1>4, <1>6, <1>7 DEF RequestOK
<1>10. QED
  BY <1>2, <1>3, <1>6, <1>7, <1>8, <1>9, RequestStep

(* Steps that are not a request's.                                         *)
LEMMA SurroundingsHold ==
  ASSUME IInv, Restart \/ Switch \/ Tick \/ UNCHANGED vars
  PROVE  IInv'
<1>0. DepthAssumption
  BY DEF IInv
<1> USE <1>0 DEF DepthAssumption
<1>1. CASE Restart
  <2>1. ASSUME NEW r \in Requests PROVE req'[r] \in Request /\ RequestOK(r)'
    <3>1. req[r] \in Request /\ RequestOK(r)
      BY RequestFacts
    <3>2. CASE req[r].pc \in {"idle"} \cup Ended
      BY <1>1, <3>1, <3>2 DEF Restart, RequestOK
    <3>3. CASE req[r].pc \notin {"idle"} \cup Ended
      <4>1. /\ req'[r] = [req[r] EXCEPT !.pc = "failed"]
            /\ req'[r].pc = "failed" /\ req'[r].answer = req[r].answer
            /\ req'[r].asked = req[r].asked /\ req'[r] \in Request
        BY <1>1, <3>1, <3>3 DEF Restart, Request
      <4>2. QED
        BY <1>1, <3>1, <3>3, <4>1 DEF Restart, RequestOK
    <3>4. QED
      BY <3>2, <3>3
  <2>2. req' \in [Requests -> Request]
    <3>1. req' = [r \in Requests |-> req'[r]]
      BY <1>1 DEF Restart
    <3>2. QED
      BY <2>1, <3>1
  <2>3. QED
    BY <1>1, <2>1, <2>2 DEF Restart, IInv, ClockType, StoreType, CacheIsDated
<1>2. CASE Switch \/ Tick
  <2>1. ASSUME NEW r \in Requests PROVE RequestOK(r)'
    BY <1>2, <2>1, RequestFacts DEF Switch, Tick, RequestOK, IInv, CacheIsDated, ClockType
  <2>2. ClockType' /\ CacheIsDated'
    <3>1. /\ lastOn' = now' \/ lastOn' = lastOn
          /\ enabled' => lastOn' = now'
          /\ enabled' \in BOOLEAN
          /\ UNCHANGED <<pooled, cached, cachedAt>>
      <4>1. CASE Switch
        BY <4>1, Zenon DEF Switch
      <4>2. CASE Tick
        BY <4>2, Zenon DEF Tick, IInv, ClockType
      <4>3. QED
        BY <1>2, <4>1, <4>2
    <3>2. now \in Nat /\ lastOn \in Int /\ lastOn <= now /\ pooled \in BOOLEAN
      BY DEF IInv, ClockType, CacheIsDated
    <3>3. now' \in Nat /\ now' >= now
      BY <1>2, <3>2 DEF Switch, Tick
    <3>4. lastOn' \in Int /\ lastOn' <= now' /\ lastOn' >= lastOn
      BY <3>1, <3>2, <3>3
    <3>5. cached => lastOn >= cachedAt
      BY DEF IInv, CacheIsDated
    <3>6. cachedAt \in Nat
      BY DEF IInv, StoreType
    <3>7. cached' => lastOn' >= cachedAt'
      BY <3>1, <3>2, <3>4, <3>5, <3>6
    <3>8. ~ pooled' => ~ cached'
      BY <3>1 DEF IInv, CacheIsDated
    <3>9. QED
      BY <3>1, <3>2, <3>3, <3>4, <3>7, <3>8 DEF ClockType, CacheIsDated
  <2>3. StoreType' /\ req' \in [Requests -> Request]
    BY <1>2 DEF Switch, Tick, IInv, StoreType
  <2>4. QED
    BY <2>1, <2>2, <2>3 DEF IInv
<1>3. CASE UNCHANGED vars
  BY <1>3 DEF vars, IInv, ClockType, StoreType, CacheIsDated, RequestOK
<1>4. QED
  BY <1>1, <1>2, <1>3

(* IInv is inductive.                                                      *)
LEMMA NextIInv == IInv /\ [Next]_vars => IInv'
<1> SUFFICES ASSUME IInv, [Next]_vars PROVE IInv'
  OBVIOUS
<1>1. ASSUME NEW r \in Requests,
             Deny(r) \/ Fetch(r) \/ FetchFails(r) \/ Embed(r) \/ Insert(r) \/ Review(r)
      PROVE IInv'
  <2> DEFINE row(pc, read, path) ==
               [req[r] EXCEPT !.pc = pc, !.read = read, !.path = path]
  <2>1. req[r] \in Request /\ req[r].read \in BOOLEAN /\ req[r].path \in Paths
        /\ enabled \in BOOLEAN
    BY RequestFacts DEF Request, IInv, ClockType
  <2>2. \E pc \in {"denied", "fetched", "failed", "scored", "unavailable", "inserted", "reviewed"},
           read \in BOOLEAN, path \in Paths :
          /\ req' = [req EXCEPT ![r] = row(pc, read, path)]
          /\ \/ req[r].pc = "idle" /\ pc = "denied"
             \/ req[r].pc = "fetching" /\ pc = "fetched" /\ read = enabled
             \/ req[r].pc \in {"fetching", "fetched"} /\ pc = "failed"
             \/ req[r].pc = "embedding" /\ pc \in {"scored", "unavailable"}
             \/ req[r].pc = "upserted" /\ pc = "inserted"
             \/ req[r].pc = "answered" /\ pc = "reviewed"
    <3>1. \A pc : [req[r] EXCEPT !.pc = pc] = row(pc, req[r].read, req[r].path)
      BY <2>1 DEF Request
    <3>2. \A pc, read : [req[r] EXCEPT !.pc = pc, !.read = read] = row(pc, read, req[r].path)
      BY <2>1 DEF Request
    <3>3. \A pc, path : [req[r] EXCEPT !.pc = pc, !.path = path] = row(pc, req[r].read, path)
      BY <2>1 DEF Request
    <3> HIDE DEF row
    <3>4. CASE Deny(r)
      BY <2>1, <3>1, <3>4 DEF Deny, Goto
    <3>5. CASE Fetch(r)
      BY <2>1, <3>2, <3>5 DEF Fetch
    <3>6. CASE FetchFails(r)
      BY <2>1, <3>1, <3>6 DEF FetchFails, Goto
    <3>7. CASE Embed(r)
      <4>1. CASE Goto(r, "unavailable")
        BY <2>1, <3>1, <3>7, <4>1 DEF Embed, Goto
      <4>2. CASE \E p \in Paths : req' = [req EXCEPT ![r] = [@ EXCEPT !.pc = "scored", !.path = p]]
        <5>1. PICK p \in Paths :
                req' = [req EXCEPT ![r] = [req[r] EXCEPT !.pc = "scored", !.path = p]]
          BY <4>2
        <5>2. req' = [req EXCEPT ![r] = row("scored", req[r].read, p)]
          BY <3>3, <5>1
        <5>3. req[r].pc = "embedding"
          BY <3>7 DEF Embed
        <5>4. QED
          BY <2>1, <5>2, <5>3
      <4>3. QED
        BY <3>7, <4>1, <4>2 DEF Embed
    <3>8. CASE Insert(r)
      BY <2>1, <3>1, <3>8 DEF Insert, Goto
    <3>9. CASE Review(r)
      BY <2>1, <3>1, <3>9 DEF Review, Goto
    <3>10. QED
      BY <1>1, <3>4, <3>5, <3>6, <3>7, <3>8, <3>9
  <2>3. UNCHANGED <<now, pooled, enabled, cached, cachedAt, embedding, evaluations,
                    lockedBy, lastOn>>
    BY <1>1 DEF Deny, Fetch, FetchFails, Embed, Insert, Review
  <2>4. ASSUME NEW pc, NEW read \in BOOLEAN, NEW path \in Paths,
               req' = [req EXCEPT ![r] = row(pc, read, path)],
               \/ req[r].pc = "idle" /\ pc = "denied"
               \/ req[r].pc = "fetching" /\ pc = "fetched" /\ read = enabled
               \/ req[r].pc \in {"fetching", "fetched"} /\ pc = "failed"
               \/ req[r].pc = "embedding" /\ pc \in {"scored", "unavailable"}
               \/ req[r].pc = "upserted" /\ pc = "inserted"
               \/ req[r].pc = "answered" /\ pc = "reviewed"
        PROVE IInv'
    BY <2>3, <2>4, MoveHolds
  <2> HIDE DEF row
  <2>5. QED
    BY <2>2, <2>4
<1>2. QED
  BY <1>1, AskHolds, StoreHolds, TransactionHolds, SurroundingsHold DEF Next

(* Scoring, storing and switching keep IInv.                               *)
LEMMA Invariance ==
  ASSUME DepthAssumption PROVE Spec => []IInv
  BY InitIInv, NextIInv, PTL DEF Spec

(* The row of an answer is locked by the transaction that is writing it.   *)
THEOREM TypeCorrect ==
  ASSUME DepthAssumption PROVE Spec => []TypeOK
<1>1. IInv => TypeOK
  BY DEF IInv, TypeOK, ClockType, StoreType, RequestOK
<1>2. QED
  BY Invariance, <1>1, PTL

(* Scoring stops within the time to live, for any number of overlapping    *)
(* requests (AppConfigProvider.get).                                       *)
THEOREM ScoringStops ==
  ASSUME DepthAssumption PROVE Spec => []ScoringStopsWithinTtl
<1>1. IInv => ScoringStopsWithinTtl
  BY DEF IInv, ScoringStopsWithinTtl, RequestOK
<1>2. QED
  BY Invariance, <1>1, PTL

LEMMA InitEmbeddings == Init => EmbeddingOfLastEvaluation
  BY DEF Init, EmbeddingOfLastEvaluation

(* Only a commit changes either, and it changes both.                      *)
LEMMA NextEmbeddings ==
  IInv /\ EmbeddingOfLastEvaluation /\ [Next]_vars => EmbeddingOfLastEvaluation'
<1> SUFFICES ASSUME IInv, EmbeddingOfLastEvaluation, [Next]_vars
             PROVE  EmbeddingOfLastEvaluation'
  OBVIOUS
<1>1. ASSUME NEW r \in Requests, Commit(r) PROVE EmbeddingOfLastEvaluation'
  <2> DEFINE a == req[r].answer
  <2>1. a \in Answers /\ evaluations[a] \in Seq(Requests)
    BY <1>1 DEF IInv, StoreType, Commit, RequestOK
  <2>2. /\ evaluations'[a] = Append(evaluations[a], r)
        /\ embedding'[a] = r
        /\ \A b \in Answers \ {a} : evaluations'[b] = evaluations[b] /\ embedding'[b] = embedding[b]
    BY <1>1, <2>1 DEF Commit, IInv, StoreType
  <2>3. /\ Append(evaluations[a], r) # <<>>
        /\ Append(evaluations[a], r)[Len(Append(evaluations[a], r))] = r
    BY <2>1
  <2>4. QED
    BY <2>1, <2>2, <2>3 DEF EmbeddingOfLastEvaluation
<1>2. CASE UNCHANGED <<embedding, evaluations>>
  BY <1>2 DEF EmbeddingOfLastEvaluation
<1>3. QED
  BY <1>1, <1>2 DEF Next, vars, Deny, Ask, Fetch, Store, FetchFails, Embed, Upsert, Insert,
                    PersistFails, Review, Restart, Switch, Tick

(* An evaluation and the embedding it was made from are committed together *)
(* (persist_evaluation).                                                   *)
THEOREM EmbeddingsAgree ==
  ASSUME DepthAssumption PROVE Spec => []EmbeddingOfLastEvaluation
  BY Invariance, InitEmbeddings, NextEmbeddings, PTL DEF Spec
=============================================================================
