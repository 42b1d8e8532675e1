------------------------ MODULE CandidateGeneration ------------------------
(***************************************************************************)
(* One candidate, from the mission's query to the accepted plan:           *)
(* ProcedureRetrievalService.retrieve (procedure_retrieval.py), the        *)
(* planner (planner_provider.py) and the preflight of its answer           *)
(* (planner_candidate_validator.py), over NvidiaNimClient._request_json    *)
(* with its retries (nvidia_nim.py).                                       *)
(*                                                                         *)
(* A chunk of the index is its position.  Similarities and logits are      *)
(* compared and never computed, so a few levels of them stand for all.     *)
(***************************************************************************)
EXTENDS Integers, FiniteSets, Sequences, SequencesExt

CONSTANTS Procedure,      \* the procedure of each chunk, by position
          Allowed,        \* the action types each chunk allows, by position
          ActionTypes,
          Levels,         \* of similarity and of logit
          RerankCount, MaxTopK, MaxRetries,   \* settings
          MaxActions      \* bound on the actions of a plan

ASSUME GenerationAssumption ==
  /\ MaxTopK \in Nat \ {0} /\ RerankCount \in Nat /\ RerankCount >= MaxTopK
  /\ MaxRetries \in Nat /\ MaxActions \in Nat /\ Levels \subseteq Int
  /\ Procedure \in Seq(ToSet(Procedure))
  /\ Allowed \in Seq(SUBSET ActionTypes) /\ Len(Allowed) = Len(Procedure)

VARIABLES
  pc,          \* "idle", the request under way, or how it ended
  topK,        \* of the request
  attempt,     \* of _request_json
  similarity,  \* of each chunk with the query
  sent,        \* positions of the passages in the rerank request, in order
  logit,       \* what the reranker thinks of each passage, by position
  matches,     \* the result of retrieve
  support      \* of the accepted plan: per action its type and chunks

vars == <<pc, topK, attempt, similarity, sent, logit, matches, support>>

Positions == DOMAIN Procedure

Asking == {"embedding", "reranking", "planning"}

Ended == {"accepted", "too large", "timeout", "rate limited", "unavailable",
          "refused", "invalid", "no evidence", "incomplete", "ungrounded"}

Match == [position : Positions, rerank : Levels, similarity : Levels]

Support == [type : ActionTypes, chunks : Seq(Positions)]

NoScores == <<>>

TypeOK ==
  /\ pc \in {"idle"} \cup Asking \cup Ended
  /\ topK \in 0 .. MaxTopK
  /\ attempt \in 0 .. MaxRetries
  /\ similarity = NoScores \/ similarity \in [Positions -> Levels]
  /\ sent \in Seq(Positions) /\ Len(sent) <= RerankCount
  /\ logit = NoScores \/ logit \in [ToSet(sent) -> Levels]
  /\ matches \in Seq(Match) /\ Len(matches) <= topK
  /\ support \in Seq(Support)

Init ==
  /\ pc = "idle" /\ topK = 0 /\ attempt = 0
  /\ similarity = NoScores /\ sent = <<>> /\ logit = NoScores
  /\ matches = <<>> /\ support = <<>>

----------------------------------------------------------------------------
(* Orders and rankings *)

\* The members of S, the first in the strict order Before(_, _) first.
InOrder(S, Before(_, _)) ==
  [i \in 1 .. Cardinality(S) |->
     CHOOSE p \in S : Cardinality({q \in S : Before(q, p)}) = i - 1]

Nearer(p, q) ==
  \/ similarity[p] > similarity[q]
  \/ similarity[p] = similarity[q] /\ p < q

Candidates ==
  LET nearest == InOrder(Positions, Nearer)
  IN  SubSeq(nearest, 1, IF RerankCount < Len(nearest) THEN RerankCount
                                                       ELSE Len(nearest))

\* score is by position.
Outranks(score, p, q) ==
  \/ score[p] > score[q]
  \/ score[p] = score[q] /\ Nearer(p, q)

\* A loop over a ranking: appends what is in among and has a key that no chunk
\* chosen before has, up to k chunks.
Pass(first, order, among, key, k) ==
  LET visit(chosen, p) ==
        IF /\ p \in among /\ Len(chosen) < k
           /\ \A q \in ToSet(chosen) : key[q] # key[p]
        THEN Append(chosen, p) ELSE chosen
  IN  FoldLeft(visit, first, order)

Itself == [p \in Positions |-> p]

\* A definition followed by one that differs in a detail is a mutant of it: the
\* first of the two is the one with the bug.

NoCoverage(order, k) == <<>>

\* The first pass: one chunk of each procedure.
Coverage(order, k) == Pass(<<>>, order, Positions, Procedure, k)

\* The second: whatever ranks best.
Filled(first, order, k) == Pass(first, order, Positions, Itself, k)

Selected(score, order, k) ==
  InOrder(ToSet(Filled(Coverage(order, k), order, k)),
          LAMBDA p, q : Outranks(score, p, q))

\* rankings are [index, value] in any order, indices from 0.
Covers(rankings, count) ==
  /\ Len(rankings) = count
  /\ {r.index : r \in ToSet(rankings)} = 0 .. count - 1

InAnswerOrder(rankings, i) == rankings[i].value

\* The value that belongs to the i-th passage.
ValueOf(rankings, i) ==
  (CHOOSE r \in ToSet(rankings) : r.index = i - 1).value

----------------------------------------------------------------------------
(* Requests *)

End(how) ==
  /\ pc' = how
  /\ UNCHANGED <<topK, attempt, similarity, sent, logit, matches, support>>

\* A new call of _request_json.
Ask(what) == pc' = what /\ attempt' = 0

Transient == {"timeout", "rate limited", "unavailable"}

RequestFailsOnceMore(how) ==
  /\ pc \in Asking
  /\ \/ attempt <= MaxRetries /\ attempt' = attempt + 1
        /\ UNCHANGED <<pc, topK, similarity, sent, logit, matches, support>>
     \/ attempt > MaxRetries /\ End(how)

\* A timeout, a transport error, 429 or 5xx: slept for and tried again, and
\* raised by the last attempt.
RequestFails(how) ==
  /\ pc \in Asking
  /\ \/ attempt < MaxRetries /\ attempt' = attempt + 1
        /\ UNCHANGED <<pc, topK, similarity, sent, logit, matches, support>>
     \/ attempt = MaxRetries /\ End(how)

\* 401, 403 and any other 4xx, or a body that is not JSON.
RequestRefused == pc \in Asking /\ \E how \in {"refused", "unavailable", "invalid"} : End(how)

\* retrieve(query, top_k) with a top_k that _validate_request accepts.
Start(k) ==
  /\ pc = "idle"
  /\ topK' = k /\ Ask("embedding")
  /\ UNCHANGED <<similarity, sent, logit, matches, support>>

\* MissionRetrievalQueryBuilder finds its query too large.
QueryTooLarge == pc = "idle" /\ End("too large")

----------------------------------------------------------------------------
(* Retrieval *)

\* No chunk, no match: PlannerPromptInput refuses what retrieve returns, and
\* neither the reranker nor the planner is asked.
NoEvidence == pc' = "no evidence" /\ UNCHANGED attempt

\* The vector of the query, unless it is not the one vector asked for.
EmbeddingAnswered(data) ==
  /\ pc = "embedding"
  /\ IF ~ Covers(data, 1) THEN End("invalid")
     ELSE /\ similarity' = ValueOf(data, 1)
          /\ sent' = Candidates'
          /\ IF sent' = <<>> THEN NoEvidence ELSE Ask("reranking")
          /\ UNCHANGED <<topK, logit, matches, support>>

\* The query's vector, or one of the index, has norm zero.
NoDirection == pc = "embedding" /\ End("invalid")

\* opinion is what the reranker thinks of each passage; rankings its answer.
RerankAnswered(opinion, rankings) ==
  /\ pc = "reranking"
  /\ IF ~ Covers(rankings, Len(sent)) THEN End("invalid")
     ELSE \E score \in [ToSet(sent) -> Levels] :
          LET order == InOrder(ToSet(sent), LAMBDA p, q : Outranks(score, p, q))
              best  == Selected(score, order, topK)
          IN  /\ \A i \in DOMAIN sent : score[sent[i]] = ValueOf(rankings, i)
              /\ logit' = opinion
              /\ matches' = [i \in DOMAIN best |->
                               [position |-> best[i], rerank |-> score[best[i]],
                                similarity |-> similarity[best[i]]]]
              /\ Ask("planning")
              /\ UNCHANGED <<topK, similarity, sent, support>>

----------------------------------------------------------------------------
(* The planner and the preflight *)

\* The matches whose chunk allows the action type, best first.
SupportOf(type) ==
  Pass(<<>>, [i \in DOMAIN matches |-> matches[i].position],
       {p \in Positions : type \in Allowed[p]}, Itself, Len(matches))

\* PlannerPromptBuilder finds the prompt with its evidence too large.
PromptTooLarge == pc = "planning" /\ attempt = 0 /\ End("too large")

Ungrounded(plan) ==
  plan = <<>> \/ \E i \in DOMAIN plan : SupportOf(plan[i]) = <<>>

\* The plan is complete and parses as a RecoveryPlan.
PlanAnswered(plan) ==
  /\ pc = "planning"
  /\ IF Ungrounded(plan) THEN End("ungrounded")
     ELSE /\ support' = [i \in DOMAIN plan |->
                           [type |-> plan[i], chunks |-> SupportOf(plan[i])]]
          /\ pc' = "accepted"
          /\ UNCHANGED <<topK, attempt, similarity, sent, logit, matches>>

\* Truncated, another finish reason, another model, or not a RecoveryPlan.
PlanUnusable == pc = "planning" /\ \E how \in {"incomplete", "invalid"} : End(how)

----------------------------------------------------------------------------
Item(i, v) == [index |-> i, value |-> v]

\* What may come for one query: its vector, none, two, or another's.
Embeddings(v) == {<<Item(0, v)>>, <<>>, <<Item(0, v), Item(1, v)>>, <<Item(1, v)>>}

\* The passages in any order, or with one missing, twice, or not asked for.
Rankings(opinion) ==
  LET n == Len(sent)
      whole == {[i \in 1 .. n |-> Item(o[i] - 1, opinion[sent[o[i]]])] :
                  o \in SetToSeqs(1 .. n)}
  IN  whole \cup UNION {{Tail(w), Append(w, w[1]), [w EXCEPT ![n] = w[1]],
                         [w EXCEPT ![1].index = n]} : w \in whole}

Plans == UNION {[1 .. n -> ActionTypes] : n \in 0 .. MaxActions}

Next ==
  \/ \E k \in 1 .. MaxTopK : Start(k)
  \/ QueryTooLarge \/ RequestRefused \/ NoDirection
  \/ PromptTooLarge \/ PlanUnusable
  \/ \E how \in Transient : RequestFails(how)
  \/ /\ pc = "embedding"
     /\ \E v \in [Positions -> Levels] : \E data \in Embeddings(v) : EmbeddingAnswered(data)
  \/ /\ pc = "reranking"
     /\ \E opinion \in [ToSet(sent) -> Levels] :
          \E rankings \in Rankings(opinion) : RerankAnswered(opinion, rankings)
  \/ \E plan \in Plans : PlanAnswered(plan)

Spec == Init /\ [][Next]_vars

----------------------------------------------------------------------------
(* Properties *)

Better(p, q) == Outranks(logit, p, q)

\* The best chunk of its procedure among those reranked.
Leads(p) == \A q \in ToSet(sent) \ {p} : Procedure[q] = Procedure[p] => Better(p, q)

\* The matches are the best evidence there was, and the accepted plan rests on it.
\* Of the RerankCount chunks nearest to the query, judged by what the reranker
\* thinks of each of them: as many procedures as fit are there, the best ones, each
\* with its best chunk; the other places have the best of the rest; all are in
\* order of merit, each with its own score; and each action of an accepted plan is
\* allowed by a chunk that was reranked.
EvidenceIsBest ==
  LET chosen == {m.position : m \in ToSet(matches)}
      left   == ToSet(sent) \ chosen
  IN  logit # NoScores =>
        /\ \A p \in ToSet(sent), q \in Positions \ ToSet(sent) : Nearer(p, q)
        /\ Cardinality(ToSet(sent)) = Len(sent)
        /\ Len(sent) < RerankCount => ToSet(sent) = Positions
        /\ Cardinality(chosen) = Len(matches)
        /\ Len(matches) < topK => left = {}
        /\ \A i, j \in DOMAIN matches :
             i < j => Better(matches[i].position, matches[j].position)
        /\ \A m \in ToSet(matches) : m.rerank = logit[m.position]
        /\ \A p \in chosen, q \in left :
             \/ Leads(p) /\ (Leads(q) => Better(p, q))
             \/ ~ Leads(p) /\ ~ Leads(q) /\ Better(p, q)
        /\ \A s \in ToSet(support) : \E p \in chosen : s.type \in Allowed[p]
=============================================================================
