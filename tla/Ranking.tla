------------------------------ MODULE Ranking ------------------------------
(***************************************************************************)
(* The arithmetic of retrieval (services/retrieval): a query taken apart   *)
(* (decompose.py), two ranked lists fused and adjusted (rerank.py), the    *)
(* answers of several concepts interleaved and the lines of a snippet cut  *)
(* (hybrid.py), and the confidence reported with them (evidence.py).       *)
(*                                                                         *)
(* A chunk is a record [id, repo, path, type, pin, symbol, age, first,     *)
(* last, lines]: symbol says that its text has a symbol of the query,      *)
(* first and last are its stored line numbers, and lines is the number of  *)
(* lines of its text, which may be another than theirs (an overview that   *)
(* was composed, a part cut with an overlap).  A result is [chunk, score], *)
(* scores in units of 1/One.                                               *)
(***************************************************************************)
EXTENDS Integers, Sequences, FiniteSets, SequencesExt

CONSTANTS
    One,              \* the score 1.0
    RrfK,             \* DEFAULT_RRF_K
    MaxSameSource,    \* _MAX_SAME_SOURCE
    MaxConcepts,      \* MAX_CONCEPTS
    MinCandidates,    \* _MIN_CANDIDATES
    TopN              \* candidates the cross-encoder scores

ASSUME RankingAssumption ==
    /\ One \in Nat \ {0} /\ One % 1000 = 0 /\ RrfK \in Nat
    /\ {MaxSameSource, MaxConcepts, MinCandidates, TopN} \subseteq Nat \ {0}

Smaller(a, b) == IF a <= b THEN a ELSE b
Larger(a, b) == IF a >= b THEN a ELSE b
Clamp(score) == Larger(0, Smaller(One, score))
Percent(n) == (One \div 100) * n
Take(s, n) == SubSeq(s, 1, Smaller(n, Len(s)))
Ids(results) == {results[i].chunk.id : i \in 1..Len(results)}

\* What f has at each of the indices I, in the order that before puts them.
Arrange(f, I, before) ==
    LET placed == {<<Cardinality({j \in I : <<j, i>> \in before}) + 1, f[i]>> : i \in I}
    IN  [k \in 1..Cardinality(I) |-> (CHOOSE p \in placed : p[1] = k)[2]]

\* The members of a sequence at some of its indices.
Pick(s, I) == Arrange(s, I, {p \in I \X I : p[1] < p[2]})

\* The larger score first; equal scores keep their order.
SortByScore(results) ==
    LET I == 1..Len(results)
        score(i) == results[i].score
    IN  Arrange(results, I, {p \in I \X I : score(p[1]) > score(p[2]) \/ (score(p[1]) = score(p[2]) /\ p[1] < p[2])})

\* The first of each id, in order.
FirstOfEach(results) ==
    Pick(results, {i \in 1..Len(results) : \A j \in 1..i - 1 : results[j].chunk.id # results[i].chunk.id})

-----------------------------------------------------------------------------
\* The query, a sequence of the texts between its delimiters.
Blank == "blank"
DecomposeQuery(query) ==
    LET concepts == Take(Pick(query, {i \in 1..Len(query) : query[i] # Blank}), MaxConcepts)
    IN  IF Len(concepts) <= 1 THEN <<>> ELSE concepts

CandidateLimit_None(limit) == limit   \* mutant: no more than was asked for
CandidateLimit(limit) == Larger(limit, MinCandidates)

-----------------------------------------------------------------------------
\* Version compatibility.  A pin is [kind, v, clauses]: "none",
\* "plain" of a version v, or "spec" of clauses [op, v]; releases are numbered,
\* ten to a release line.
NoVersion == 0
NoPin == [kind |-> "none", v |-> 0, clauses |-> {}]
Line(v) == v \div 10
Meets(user, s) ==
    CASE s.op = ">=" -> user >= s.v
      [] s.op = ">" -> user > s.v
      [] s.op = "<=" -> user <= s.v
      [] s.op = "<" -> user < s.v
      [] s.op = "==" -> user = s.v
      [] s.op = "!=" -> user # s.v
      [] OTHER -> user >= s.v /\ Line(user) = Line(s.v)
Satisfies(user, clauses) == \A s \in clauses : Meets(user, s)

\* Above every version a pin names; a strict bound at the version itself is not met.
IsAbove_NotStrict(user, clauses) == \A s \in clauses : s.op # "!=" => user >= s.v   \* mutant
IsAbove(user, clauses) ==
    (\A s \in clauses : s.op # "!=" => user >= s.v) /\ [op |-> ">", v |-> user] \notin clauses

\* Nothing can be said of the direction.
NoDirection(user, clauses) ==
    (\A s \in clauses : s.op = "!=") \/ [op |-> "!=", v |-> user] \in clauses

ComputeVersionCompatibility(user, pin) ==
    CASE pin.kind = "none" -> "unknown"
      [] pin.kind = "plain" -> IF user >= pin.v THEN "compatible" ELSE "newer_required"
      [] OTHER -> IF Satisfies(user, pin.clauses) THEN "compatible"
                  ELSE IF NoDirection(user, pin.clauses) THEN "unknown"
                  ELSE IF IsAbove(user, pin.clauses) THEN "older_targeted" ELSE "newer_required"

\* What the label should say, from the releases that satisfy the pin.
Direction(user, pin, releases) ==
    LET good == {v \in releases : IF pin.kind = "plain" THEN v >= pin.v ELSE Satisfies(v, pin.clauses)}
    IN  IF pin = NoPin THEN "unknown"
        ELSE IF user \in good THEN "compatible"
        ELSE IF pin.kind = "spec" /\ NoDirection(user, pin.clauses) THEN "unknown"
        ELSE IF \E v \in good : v > user THEN "newer_required" ELSE "older_targeted"

-----------------------------------------------------------------------------
\* Reciprocal rank fusion of two lists of chunks, which have each chunk once.
RankScore(list, chunk) ==
    LET ranks == {i \in 1..Len(list) : list[i].id = chunk.id}
        rank == CHOOSE i \in ranks : TRUE
    IN  IF ranks = {} THEN 0 ELSE (One \div (2 * (RrfK + rank))) * (RrfK + 1)
ReciprocalRankFusion(vector, keyword, chunk) == RankScore(vector, chunk) + RankScore(keyword, chunk)

SymbolMatchBoost == Percent(15)
DualHitBonus == Percent(10)
StalenessMaxPenalty == Percent(10)
VersionPenalty == Percent(5)
CombinedPenaltyCap == Percent(10)

Penalty(chunk, version) ==
    LET stale == IF chunk.age > 0 THEN Smaller(StalenessMaxPenalty, (StalenessMaxPenalty \div 365) * chunk.age)
                 ELSE 0
        newer == version # NoVersion /\ ComputeVersionCompatibility(version, chunk.pin) = "newer_required"
    IN  Smaller(CombinedPenaltyCap, stale + IF newer THEN VersionPenalty ELSE 0)

ApplyCodeIntentHeuristics(chunk, fused, dual, symbols, version) ==
    Clamp(fused + (IF symbols /\ chunk.symbol THEN SymbolMatchBoost ELSE 0)
                + (IF dual THEN DualHitBonus ELSE 0) - Penalty(chunk, version))

ChunkTypePreference(type) ==
    CASE type = "method" -> 0 [] type = "function" -> 1 [] type = "type_definition" -> 2
      [] type = "class_overview" -> 3 [] OTHER -> 4
Preferred(result) ==
    [result EXCEPT !.score = Clamp(@ + (4 - ChunkTypePreference(result.chunk.type)) * (One \div 200))]

SameRepo(c, d) == c.repo = d.repo
SamePath_Never(c, d) == FALSE   \* mutant: only runs of a repo are broken
SamePath(c, d) == c.path = d.path

\* The next result would make the run of its repo, or of its file, too long.
WouldViolate(output, result) ==
    LET tail == SubSeq(output, Len(output) - MaxSameSource + 1, Len(output))
    IN  /\ Len(output) >= MaxSameSource
        /\ \/ \A i \in 1..Len(tail) : SameRepo(tail[i].chunk, result.chunk)
           \/ \A i \in 1..Len(tail) : SamePath(tail[i].chunk, result.chunk)

\* The best result that does not violate, or the best one.
PlaceNext(spread) ==
    LET fits == {i \in 1..Len(spread.pending) : ~WouldViolate(spread.output, spread.pending[i])}
        next == IF fits = {} THEN 1 ELSE CHOOSE i \in fits : \A j \in fits : i <= j
    IN  [output |-> Append(spread.output, spread.pending[next]), pending |-> RemoveAt(spread.pending, next)]

ApplyDiversity(results, preferTypes) ==
    LET boosted == IF preferTypes /\ Len(results) > 1 THEN [i \in 1..Len(results) |-> Preferred(results[i])]
                   ELSE results
        sorted == SortByScore(boosted)
        spread[k \in 0..Len(sorted)] ==
            IF k = 0 THEN [output |-> <<>>, pending |-> sorted] ELSE PlaceNext(spread[k - 1])
    IN  spread[Len(sorted)].output

Rerank(vector, keyword, ask) ==
    LET dual(c) == \E v \in 1..Len(vector) : vector[v].id = c.id /\ \E k \in 1..Len(keyword) : keyword[k].id = c.id
        scored(c) == [chunk |-> c,
                      score |-> ApplyCodeIntentHeuristics(
                                    c, ReciprocalRankFusion(vector, keyword, c), dual(c), ask.symbols, ask.version)]
        both == vector \o keyword
        merged == FirstOfEach([i \in 1..Len(both) |-> scored(both[i])])
    IN  ApplyDiversity(SortByScore(merged), ask.preferTypes)

\* The cross-encoder scores the first TopN again; the others stay behind them.
CrossEncode(results, logit) ==
    LET top == [i \in 1..Smaller(TopN, Len(results)) |->
                   [results[i] EXCEPT !.score = logit[results[i].chunk.id]]]
    IN  SortByScore(top) \o SubSeq(results, Len(top) + 1, Len(results))

RoundRobin_Concatenates(lists, limit) ==   \* mutant: one concept after the other
    Take(FirstOfEach(FlattenSeq(lists)), limit)

\* The results of several concepts in turn, each chunk once.
InTurn(lists) ==
    LET at == UNION {{<<row, l>> : row \in 1..Len(lists[l])} : l \in 1..Len(lists)}
        result == [p \in at |-> lists[p[2]][p[1]]]
        before == {pair \in at \X at :
                      LET p == pair[1]
                          q == pair[2]
                      IN  p[1] < q[1] \/ (p[1] = q[1] /\ p[2] < q[2])}
    IN  FirstOfEach(Arrange(result, at, before))
RoundRobin(lists, limit) == Take(InTurn(lists), limit)

-----------------------------------------------------------------------------
\* The confidence of an answer.
HighScoreThreshold == Percent(50)
LowScoreThreshold == Percent(10)
LowConfidenceThreshold == Percent(30)
ConfidenceFloor == Percent(15)

Moderate(avg, count) ==
    Smaller(Percent(70), Percent(30) + (avg \div 10) * 3 + Smaller((One \div 20) * count, Percent(10)))

ComputeConfidence(results) ==
    LET count == Len(results)
        sum[i \in 0..count] == IF i = 0 THEN 0 ELSE sum[i - 1] + results[i].score
        avg == sum[count] \div count
        reaches(t) == \E i \in 1..count : results[i].score >= t
    IN  IF count = 0 THEN 0
        ELSE IF reaches(HighScoreThreshold) /\ count >= 3
        THEN Smaller(Percent(95), Percent(60) + (avg \div 10) * 3 + Smaller((One \div 15) * count, Percent(15)))
        ELSE IF reaches(LowScoreThreshold)
        THEN Moderate(avg, count)
        ELSE Larger(Percent(5), Percent(10) + avg \div 5)

AssembleEvidence(results) ==
    LET low == \A i \in 1..Len(results) : results[i].score < LowScoreThreshold
        confidence == ComputeConfidence(results)
    IN  [confidence |-> confidence,
         lowConfidence |-> confidence < LowConfidenceThreshold,
         unknown |-> (IF results = <<>> THEN {"no content"} ELSE IF low THEN {"low relevance"} ELSE {})
                     \union (IF confidence < ConfidenceFloor /\ results # <<>> THEN {"weak matches"} ELSE {})]

-----------------------------------------------------------------------------
\* A snippet: the lines of a chunk cut to the request [start, end, max], start 0
\* and end 0 for none.
ReqEnd(request) == IF request.end = 0 THEN request.start + request.max - 1 ELSE request.end
Overlaps(chunk, request) ==
    request.start = 0 \/ (ReqEnd(request) >= chunk.first /\ request.start <= chunk.last)

OffsetStart(chunk, request) == Larger(0, request.start - chunk.first)
OffsetEnd(chunk, request) == Smaller(chunk.lines, ReqEnd(request) - chunk.first + 1)

\* The range it says it is, and the number of lines it has: a text that is given
\* whole, and not by lines, keeps its stored range.
SnippetOf(chunk, request) ==
    LET first == Larger(request.start, chunk.first)
        sliced == IF request.start = 0 THEN chunk.lines
                  ELSE Larger(0, OffsetEnd(chunk, request) - OffsetStart(chunk, request))
        size == Smaller(sliced, request.max)
    IN  [first |-> first, size |-> size,
         last |-> IF request.start = 0 /\ size = sliced THEN chunk.last ELSE first + size - 1]
=============================================================================
