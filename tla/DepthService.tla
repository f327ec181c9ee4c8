---------------------------- MODULE DepthService ----------------------------
(***************************************************************************)
(* POST /internal/depth/evaluate of the depth service: the gates before    *)
(* scoring, the cached configuration, the call of the embedding service,   *)
(* the transaction that stores an evaluation, and the review afterwards.   *)
(*                                                                         *)
(* The configuration is reduced to local_ai_enabled.  One process serves   *)
(* all requests on one event loop, so that a request runs undisturbed      *)
(* between two awaits: those are the steps.                                *)
(***************************************************************************)
EXTENDS Integers, Sequences

CONSTANTS
  Requests,
  Answers,
  Ttl,        \* app_config_cache_ttl_seconds
  MaxTime,    \* bound: the clock stops here
  None

(* What the proofs need of the constants.                                  *)
DepthAssumption ==
  /\ Ttl \in Nat \ {0} /\ MaxTime \in Nat /\ None \notin Requests \cup Answers

VARIABLES
  now,          \* time.monotonic()
  pooled,       \* DATABASE_URL is configured
  enabled,      \* local_ai_enabled in app_config
  cached,       \* local_ai_enabled in _cached
  cachedAt,     \* _cached_at
  embedding,    \* answer_embeddings: the request that wrote the row of an answer
  evaluations,  \* depth_evaluations of an answer, in the order of their commits
  lockedBy,     \* the transaction that holds the row of an answer
  req,
  lastOn        \* history: when scoring was last enabled

vars == <<now, pooled, enabled, cached, cachedAt, embedding, evaluations,
          lockedBy, req, lastOn>>

(* DecisionPath, apart from the one that asks for a review.                *)
Paths == {"GRAY_BAND", "OTHER"}

InTransaction == {"upserted", "inserted"}

(* Where a request has passed the gate of local_ai_enabled.                *)
Admitted == {"embedding", "scored", "answered", "reviewed"} \cup InTransaction

(* Answers: 401, 502 or 503, 500, 200.                                     *)
Ended == {"denied", "unavailable", "failed", "answered", "reviewed"}

Request ==
  [pc : {"idle", "fetching", "fetched"} \cup Admitted \cup Ended,
   answer : Answers \cup {None},
   asked : Nat,          \* now, taken before the cache is judged
   read : BOOLEAN,       \* local_ai_enabled as fetched
   path : Paths,
   seenOn : Int]         \* history: lastOn when the gate was passed

TypeOK ==
  /\ now \in Nat /\ pooled \in BOOLEAN /\ enabled \in BOOLEAN
  /\ cached \in BOOLEAN /\ cachedAt \in Nat
  /\ embedding \in [Answers -> Requests \cup {None}]
  /\ evaluations \in [Answers -> Seq(Requests)]
  /\ lockedBy \in [Answers -> Requests \cup {None}]
  /\ req \in [Requests -> Request]
  /\ lastOn \in Int
  /\ \A r \in Requests : req[r].pc \notin {"idle", "denied"} => req[r].answer \in Answers
  /\ \A a \in Answers, r \in Requests :
       lockedBy[a] = r <=> req[r].pc \in InTransaction /\ req[r].answer = a

Idle == [pc |-> "idle", answer |-> None, asked |-> 0, read |-> FALSE,
         path |-> "OTHER", seenOn |-> 0]

-----------------------------------------------------------------------------
(* The clock of the machine may have run before the service starts.        *)
Init ==
  /\ now \in {0, Ttl}
  /\ pooled \in BOOLEAN /\ enabled \in BOOLEAN
  /\ cached = FALSE /\ cachedAt = 0
  /\ embedding = [a \in Answers |-> None]
  /\ evaluations = [a \in Answers |-> <<>>]
  /\ lockedBy = [a \in Answers |-> None]
  /\ req = [r \in Requests |-> Idle]
  /\ lastOn = IF enabled THEN now ELSE -Ttl

Goto(r, pc) == req' = [req EXCEPT ![r].pc = pc]

(* The verdict of is_service_request_authorized, before anything else.     *)
Deny(r) ==
  /\ req[r].pc = "idle"
  /\ Goto(r, "denied")
  /\ UNCHANGED <<now, pooled, enabled, cached, cachedAt, embedding, evaluations,
                 lockedBy, lastOn>>

(* How a request goes on with the configuration it got.                    *)
Gated(record, on) ==
  [record EXCEPT !.pc = IF on THEN "embedding" ELSE "unavailable", !.seenOn = lastOn]

Fresh == now - cachedAt < Ttl

(* AppConfigProvider.get, as far as the first await.                       *)
Ask(r, a) ==
  /\ req[r].pc = "idle"
  /\ LET asking == [req[r] EXCEPT !.pc = "fetching", !.answer = a, !.asked = now]
     IN req' = [req EXCEPT ![r] = IF ~ pooled \/ Fresh THEN Gated(asking, cached)
                                                       ELSE asking]
  /\ UNCHANGED <<now, pooled, enabled, cached, cachedAt, embedding, evaluations,
                 lockedBy, lastOn>>

(* The database answers the query of app_config.                           *)
Fetch(r) ==
  /\ req[r].pc = "fetching"
  /\ req' = [req EXCEPT ![r] = [@ EXCEPT !.pc = "fetched", !.read = enabled]]
  /\ UNCHANGED <<now, pooled, enabled, cached, cachedAt, embedding, evaluations,
                 lockedBy, lastOn>>

(* Mutant: the cache is dated by the time after the query.                 *)
StoreDatedNow(r) ==
  /\ req[r].pc = "fetched"
  /\ cached' = req[r].read
  /\ cachedAt' = now
  /\ req' = [req EXCEPT ![r] = Gated(@, req[r].read)]
  /\ UNCHANGED <<now, pooled, enabled, embedding, evaluations, lockedBy, lastOn>>

(* The rest of get: whoever fetched last fills the cache, with the time it *)
(* asked at.                                                               *)
Store(r) ==
  /\ req[r].pc = "fetched"
  /\ cached' = req[r].read
  /\ cachedAt' = req[r].asked
  /\ req' = [req EXCEPT ![r] = Gated(@, req[r].read)]
  /\ UNCHANGED <<now, pooled, enabled, embedding, evaluations, lockedBy, lastOn>>

(* The query fails, or a row does not fit RuntimeConfig.                   *)
FetchFails(r) ==
  /\ req[r].pc \in {"fetching", "fetched"}
  /\ Goto(r, "failed")
  /\ UNCHANGED <<now, pooled, enabled, cached, cachedAt, embedding, evaluations,
                 lockedBy, lastOn>>

(* The embedding service answers with vectors of the configured dimension, *)
(* which are scored and decided upon at once, or it does not.              *)
Embed(r) ==
  /\ req[r].pc = "embedding"
  /\ \/ \E p \in Paths : req' = [req EXCEPT ![r] = [@ EXCEPT !.pc = "scored", !.path = p]]
     \/ Goto(r, "unavailable")
  /\ UNCHANGED <<now, pooled, enabled, cached, cachedAt, embedding, evaluations,
                 lockedBy, lastOn>>

(* Mutant: the two statements are transactions of their own.               *)
UpsertAlone(r) ==
  LET a == req[r].answer IN
  /\ req[r].pc = "scored"
  /\ lockedBy[a] = None
  /\ lockedBy' = [lockedBy EXCEPT ![a] = r]
  /\ embedding' = [embedding EXCEPT ![a] = r]
  /\ Goto(r, "upserted")
  /\ UNCHANGED <<now, pooled, enabled, cached, cachedAt, evaluations, lastOn>>

(* persist_evaluation: the first statement waits for the row of the answer *)
(* and keeps it until the transaction ends.                                *)
Upsert(r) ==
  LET a == req[r].answer IN
  /\ req[r].pc = "scored"
  /\ lockedBy[a] = None
  /\ lockedBy' = [lockedBy EXCEPT ![a] = r]
  /\ Goto(r, "upserted")
  /\ UNCHANGED <<now, pooled, enabled, cached, cachedAt, embedding, evaluations, lastOn>>

Insert(r) ==
  /\ req[r].pc = "upserted"
  /\ Goto(r, "inserted")
  /\ UNCHANGED <<now, pooled, enabled, cached, cachedAt, embedding, evaluations,
                 lockedBy, lastOn>>

Unlocked(a) == lockedBy' = [lockedBy EXCEPT ![a] = None]

(* Both rows appear together; the acknowledgement may be lost.             *)
Commit(r) ==
  LET a == req[r].answer IN
  /\ req[r].pc = "inserted"
  /\ embedding' = [embedding EXCEPT ![a] = r]
  /\ evaluations' = [evaluations EXCEPT ![a] = Append(@, r)]
  /\ Unlocked(a)
  /\ \/ Goto(r, "answered")
     \/ Goto(r, "failed")
  /\ UNCHANGED <<now, pooled, enabled, cached, cachedAt, lastOn>>

(* A statement or the connection fails: the transaction leaves nothing.    *)
PersistFails(r) ==
  /\ req[r].pc \in {"scored"} \cup InTransaction
  /\ lockedBy' = [a \in Answers |-> IF lockedBy[a] = r THEN None ELSE lockedBy[a]]
  /\ Goto(r, "failed")
  /\ UNCHANGED <<now, pooled, enabled, cached, cachedAt, embedding, evaluations, lastOn>>

(* maybe_request_qwen_review runs after the response; whether it posts and *)
(* whether that succeeds changes nothing here.                             *)
Review(r) ==
  /\ req[r].pc = "answered" /\ req[r].path = "GRAY_BAND"
  /\ Goto(r, "reviewed")
  /\ UNCHANGED <<now, pooled, enabled, cached, cachedAt, embedding, evaluations,
                 lockedBy, lastOn>>

(* The process starts again, with a new AppConfigProvider.                 *)
Restart ==
  /\ cached' = FALSE /\ cachedAt' = 0
  /\ lockedBy' = [a \in Answers |-> None]
  /\ req' = [r \in Requests |->
               IF req[r].pc \in {"idle"} \cup Ended THEN req[r]
               ELSE [req[r] EXCEPT !.pc = "failed"]]
  /\ UNCHANGED <<now, pooled, enabled, embedding, evaluations, lastOn>>

(* Operators switch scoring on and off in app_config.                      *)
Switch ==
  /\ enabled' = ~ enabled
  /\ lastOn' = IF enabled' THEN now ELSE lastOn
  /\ UNCHANGED <<now, pooled, cached, cachedAt, embedding, evaluations, lockedBy, req>>

Tick ==
  /\ now < MaxTime
  /\ now' = now + 1
  /\ lastOn' = IF enabled THEN now' ELSE lastOn
  /\ UNCHANGED <<pooled, enabled, cached, cachedAt, embedding, evaluations, lockedBy, req>>

Next ==
  \/ \E r \in Requests :
       \/ Deny(r) \/ Fetch(r) \/ Store(r) \/ FetchFails(r) \/ Embed(r)
       \/ Upsert(r) \/ Insert(r) \/ Commit(r) \/ PersistFails(r) \/ Review(r)
       \/ \E a \in Answers : Ask(r, a)
  \/ Restart \/ Switch \/ Tick

Spec == Init /\ [][Next]_vars

-----------------------------------------------------------------------------
(* Switching scoring off takes effect within the time to live of the cache,*)
(* whatever fetches overlap and in which order they answer: a request is   *)
(* admitted only if scoring was enabled at a moment less than Ttl before it*)
(* asked, or since (AppConfigProvider.get dates what it caches by the time *)
(* before the query).                                                      *)
ScoringStopsWithinTtl ==
  \A r \in Requests : req[r].pc \in Admitted => req[r].seenOn > req[r].asked - Ttl

(* The embedding on file for an answer is the one its latest evaluation was*)
(* made from, through overlapping evaluations, failures and retries        *)
(* (the transaction of persist_evaluation).                                *)
EmbeddingOfLastEvaluation ==
  \A a \in Answers :
    embedding[a] = IF evaluations[a] = <<>> THEN None
                   ELSE evaluations[a][Len(evaluations[a])]
=============================================================================
