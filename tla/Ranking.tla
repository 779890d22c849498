------------------------------ MODULE Ranking -------------------------------
(***************************************************************************)
(* How a search orders its authorized candidates: the text channels (full  *)
(* text, or keyword counting when it finds nothing), the vector channel,   *)
(* their reciprocal-rank fusion with the boosts, and the cross-encoder     *)
(* that reorders the head of the list.  Every outside call may fail, and   *)
(* then its channel is left out.  Record ids are numbers; a text is the    *)
(* set of its terms; a score is an exact integer multiple of the code's    *)
(* float (Unit stands for a boost of 0.05, and is a multiple of every      *)
(* k + rank, so that no division rounds).                                  *)
(***************************************************************************)
EXTENDS Integers, FiniteSets, Sequences, FiniteSetsExt

CONSTANTS
  Searches,     \* [pool, query, mode, fts, vectors, reranker, wanted, scales]
  Searchable,   \* the terms the full-text query can express (isalnum)
  QueryVector,  \* what the embedder makes of a query
  MaxCandidates,  \* bound: candidates of a search
  K,            \* RrfWeights.k
  Unit,         \* 0.05
  TopN,         \* rerank_top_n
  RerankTries,  \* max_retries + 1 of the reranker
  RerankBodies  \* bodies of the rerank endpoint: functions from positions

ASSUME RankingAssumption ==
  /\ K \in Nat /\ TopN \in Nat /\ MaxCandidates \in Nat
  /\ Unit \in Nat \ {0} /\ \A r \in 1..MaxCandidates : Unit % (K + r) = 0
  /\ RerankTries \in Nat \ {0}
  /\ \A body \in RerankBodies : \A i \in DOMAIN body : body[i] \in Int
  /\ \A s \in Searches :
       /\ IsFiniteSet(s.query) /\ IsFiniteSet(s.wanted)
       /\ IsFiniteSet(DOMAIN s.pool) /\ DOMAIN s.pool \subseteq Int
       /\ Cardinality(DOMAIN s.pool) <= MaxCandidates
       /\ \A r \in DOMAIN s.pool : s.pool[r].at \in Int

VARIABLES
  search,   \* the request and the candidates it may see
  stage,    \* "rank", "rerank" or "answered"
  cosines,  \* cosine of each candidate with a usable vector
  ranked,   \* the fused order
  tried,    \* attempts at the reranker
  reply,    \* the body it answered with, <<>> for none
  results   \* the answered order

rankVars == <<search, stage, cosines, ranked, tried, reply, results>>

NoVector == <<>>
Candidates == DOMAIN search.pool
MaxTagBoost == 4      \* 0.2
MaxScaleBoost == 4    \* 0.2
ScaleBoost == 2       \* 0.1

----------------------------------------------------------------------------
\* sorted(...) by (-score, record id): the records in front of r.
Ahead(scores, r) ==
  {o \in DOMAIN scores : \/ scores[o] > scores[r]
                         \/ scores[o] = scores[r] /\ o < r}

ToRankMapFromZero(scores) == [r \in DOMAIN scores |-> Cardinality(Ahead(scores, r))]
ToRankMap(scores) == [r \in DOMAIN scores |-> 1 + Cardinality(Ahead(scores, r))]

OrderCandidates(scores) ==
  [i \in 1..Cardinality(DOMAIN scores) |->
     CHOOSE r \in DOMAIN scores : Cardinality(Ahead(scores, r)) = i - 1]

----------------------------------------------------------------------------
(* Channels.                                                               *)

Kept(S, score(_)) == LET hit == {r \in S : score(r) > 0} IN [r \in hit |-> score(r)]

KeywordRelevance(texts) ==
  Kept(Candidates, LAMBDA r : Cardinality(search.query \cap texts[r]))

\* The index knows whole alphanumeric terms; bm25 and ts_rank are external,
\* here the number of terms found.
FtsSearch(texts) ==
  Kept(Candidates,
           LAMBDA r : Cardinality(search.query \cap Searchable \cap texts[r]))

ChannelScores(texts) ==
  LET found == FtsSearch(texts) IN
  IF search.fts /\ DOMAIN found # {} THEN found ELSE KeywordRelevance(texts)

\* Squares keep the order of the positive ones, the only ones kept.
CosineSimilarity(a, b) ==
  LET Dot(x, y) == MapThenSumSet(LAMBDA i : x[i] * y[i], DOMAIN x)
  IN IF \/ a = NoVector \/ b = NoVector \/ Len(a) # Len(b)
        \/ Dot(a, a) = 0 \/ Dot(b, b) = 0 \/ Dot(a, b) <= 0
     THEN 0
     ELSE (60 * Dot(a, b) * Dot(a, b)) \div (Dot(a, a) * Dot(b, b))

\* Vectors are of numbers.
ASSUME CosineAssumption ==
  \A s \in Searches : \A r \in DOMAIN s.pool :
    /\ CosineSimilarity(QueryVector, s.pool[r].staticVec) \in Nat
    /\ CosineSimilarity(QueryVector, s.pool[r].dynamicVec) \in Nat

UsesStatic == search.mode \in {"static_attribute", "hybrid", "auto_by_external_ai"}
UsesDynamic == search.mode \in {"dynamic_event", "hybrid", "auto_by_external_ai"}

StaticText == [r \in Candidates |-> search.pool[r].static]
DynamicText == [r \in Candidates |-> search.pool[r].dynamic]
StaticScores == IF UsesStatic THEN ChannelScores(StaticText) ELSE <<>>
DynamicScores == IF UsesDynamic THEN ChannelScores(DynamicText) ELSE <<>>

VectorChannel(vectorOf) ==
  Kept(Candidates, LAMBDA r : CosineSimilarity(QueryVector, vectorOf[r]))

\* The best of the channels in use.
CombinedVectors(static, dynamic) ==
  [r \in DOMAIN static \cup DOMAIN dynamic |->
     Max({static[x] : x \in {r} \cap DOMAIN static}
         \cup {dynamic[x] : x \in {r} \cap DOMAIN dynamic})]

StaticVectors == VectorChannel([r \in Candidates |-> search.pool[r].staticVec])
DynamicVectors == VectorChannel([r \in Candidates |-> search.pool[r].dynamicVec])

----------------------------------------------------------------------------
(* Fusion.                                                                 *)

Lower(a, b) == IF a < b THEN a ELSE b

TagBoost(r) == Lower(MaxTagBoost, Cardinality(search.wanted \cap search.pool[r].tags))
ScaleBoostOf(r) ==
  IF search.pool[r].scale \in search.scales THEN Lower(MaxScaleBoost, ScaleBoost) ELSE 0

\* weight * 1 / (rank + k); a falsy rank contributes nothing.
Component(ranks, r) ==
  IF r \in DOMAIN ranks /\ ranks[r] # 0 THEN (20 * Unit) \div (ranks[r] + K) ELSE 0

RrfFuse(ids, static, dynamic, vector, boosted) ==
  [r \in ids |->
     Component(static, r) + Component(dynamic, r) + Component(vector, r)
       + (IF boosted THEN Unit * (TagBoost(r) + ScaleBoostOf(r)) ELSE 0)]

\* Without a query: every candidate, oldest first, no boost.
RankByTime ==
  OrderCandidates(RrfFuse(Candidates,
    ToRankMap([r \in Candidates |-> -search.pool[r].at]), <<>>, <<>>, FALSE))

RankByQuery(similar) ==
  LET static == ToRankMap(StaticScores)
      dynamic == ToRankMap(DynamicScores)
      vector == ToRankMap(similar)
      matched == DOMAIN static \cup DOMAIN dynamic \cup DOMAIN vector
  IN OrderCandidates(RrfFuse(IF matched # {} THEN matched ELSE Candidates,
                             static, dynamic, vector, TRUE))

----------------------------------------------------------------------------
(* The cross-encoder.                                                      *)

Top == SubSeq(ranked, 1, Lower(TopN, Len(ranked)))
Below == SubSeq(ranked, Lower(TopN, Len(ranked)) + 1, Len(ranked))

\* Scores by position in the request; what the provider left out is 0.
ParseRerank(body, documents) ==
  [r \in {documents[i] : i \in DOMAIN documents} |->
     LET i == CHOOSE j \in DOMAIN documents : documents[j] = r
     IN IF i \in DOMAIN body THEN body[i] ELSE 0]

WantsRerank == search.reranker /\ search.query # {} /\ ranked # <<>>

ApplyCrossEncoder(body) == OrderCandidates(ParseRerank(body, Top)) \o Below

----------------------------------------------------------------------------
RankInit ==
  /\ search \in Searches
  /\ stage = "rank"
  /\ cosines = <<>> /\ ranked = <<>>
  /\ tried = 0
  /\ reply = <<>> /\ results = <<>>

\* _rank.  The embedder is only asked when some candidate has a vector, and
\* each channel's call may fail by itself.
Rank ==
  /\ stage = "rank"
  /\ \E asked \in SUBSET {"static", "dynamic"} :
       /\ asked \subseteq (IF UsesStatic THEN {"static"} ELSE {})
                            \cup (IF UsesDynamic THEN {"dynamic"} ELSE {})
       /\ asked # {} => search.vectors /\ search.query # {}
       /\ cosines' = CombinedVectors(
                       IF "static" \in asked THEN StaticVectors ELSE <<>>,
                       IF "dynamic" \in asked THEN DynamicVectors ELSE <<>>)
  /\ ranked' = IF search.query = {} THEN RankByTime ELSE RankByQuery(cosines')
  /\ stage' = "rerank"
  /\ UNCHANGED <<search, tried, reply, results>>

\* Disabled, no query or nothing ranked.
SkipRerank ==
  /\ stage = "rerank" /\ ~WantsRerank
  /\ results' = ranked
  /\ stage' = "answered"
  /\ UNCHANGED <<search, cosines, ranked, tried, reply>>

\* Transport error, status, or a body that is no JSON object (_post): retried,
\* then the input order.
RerankFails ==
  /\ stage = "rerank" /\ WantsRerank
  /\ tried' = tried + 1
  /\ IF tried' < RerankTries
     THEN UNCHANGED <<stage, results>>
     ELSE stage' = "answered" /\ results' = ranked
  /\ UNCHANGED <<search, cosines, ranked, reply>>

\* No result array, or an entry without index and score: _parse raises outside the
\* retry loop, and the input order is the answer at once.
RerankMalformed ==
  /\ stage = "rerank" /\ WantsRerank
  /\ results' = ranked
  /\ stage' = "answered"
  /\ UNCHANGED <<search, cosines, ranked, tried, reply>>

RerankAnswers ==
  /\ stage = "rerank" /\ WantsRerank
  /\ \E body \in RerankBodies :
       /\ reply' = body
       /\ results' = ApplyCrossEncoder(body)
  /\ stage' = "answered"
  /\ UNCHANGED <<search, cosines, ranked, tried>>

RankNext == Rank \/ SkipRerank \/ RerankFails \/ RerankMalformed \/ RerankAnswers

RankSpec == RankInit /\ [][RankNext]_rankVars

----------------------------------------------------------------------------
Precedes(s, a, b) ==
  \E i, j \in DOMAIN s : i < j /\ s[i] = a /\ s[j] = b
ScoreAt(scores, r) == IF r \in DOMAIN scores THEN scores[r] ELSE 0

\* Strictly better wherever either record matches, and boosted no less.
Dominates(a, b) ==
  /\ \A scores \in {StaticScores, DynamicScores, cosines} :
       \/ ScoreAt(scores, a) > ScoreAt(scores, b)
       \/ ScoreAt(scores, a) = 0 /\ ScoreAt(scores, b) = 0
  /\ \E scores \in {StaticScores, DynamicScores, cosines} :
       ScoreAt(scores, a) > ScoreAt(scores, b)
  /\ TagBoost(a) >= TagBoost(b)
  /\ ScaleBoostOf(a) >= ScaleBoostOf(b)

\* What a search answers with.  It loses and repeats no candidate: with a
\* query, exactly the candidates some channel found, or all of them when no
\* channel found any.  In the fused order a record that beats another in
\* every channel where either was found, and is boosted no less, comes
\* first.  The cross-encoder only permutes the head: whatever subset of the
\* documents the provider scored, a record it scored higher than another one
\* comes first, and a call that used up its attempts leaves the fused order.
\* (ranking.to_rank_map / rrf_fuse, search._rank and _apply_cross_encoder,
\* siliconflow_reranker._parse)
BetterMatchesComeFirst ==
  stage = "answered" =>
    LET found == DOMAIN StaticScores \cup DOMAIN DynamicScores \cup DOMAIN cosines
        ids == IF search.query # {} /\ found # {} THEN found ELSE Candidates
        scored == DOMAIN reply \cap DOMAIN Top
    IN /\ Len(results) = Cardinality(ids)
       /\ {results[i] : i \in DOMAIN results} = ids
       /\ search.query # {} =>
            \A a, b \in ids : Dominates(a, b) => Precedes(ranked, a, b)
       /\ {results[i] : i \in DOMAIN Top} = {ranked[i] : i \in DOMAIN Top}
       /\ \A i \in DOMAIN results \ DOMAIN Top : results[i] = ranked[i]
       /\ \A i, j \in scored :
            reply[i] > reply[j] => Precedes(results, ranked[i], ranked[j])
       /\ reply = <<>> /\ tried = RerankTries => results = ranked
=============================================================================
