----------------------------- MODULE Retrieval -----------------------------
(***************************************************************************)
(* Search requests at work (services/retrieval/hybrid.py,                  *)
(* cross_encoder.py) while refreshes replace the index under them.         *)
(*                                                                         *)
(* A request is one search after another until one finds something (the    *)
(* filter cascade of a symbol lookup), each search one task per concept of *)
(* the query, and each task a read of the vectors and one of the keywords, *)
(* fused and ranked and, when the cross-encoder is on, scored again by a   *)
(* model loaded on first use.  All of them run concurrently.               *)
(***************************************************************************)
EXTENDS Ranking

CONSTANTS
    Request,
    Text,               \* what may stand between the delimiters of a query, Blank too
    Chunk,              \* the chunks of all generations
    Releases,           \* the releases there are
    Scenarios,          \* what is asked of what: [ask, world, logit, encoder]
    MaxLimit,           \* the largest limit of a tool
    SnippetCandidates   \* _DEFAULT_SNIPPET_CANDIDATES

Ask == [tool : {"docs", "examples", "api", "symbol", "snippet", "lookup", "none"}, query : Seq(Text),
        limit : 1..MaxLimit, version : {NoVersion} \union Releases, compatibleOnly : BOOLEAN, symbols : BOOLEAN,
        preferTypes : BOOLEAN, inClass : BOOLEAN, lines : [start : Nat, end : Nat, max : Nat \ {0}]]
Halves == [vector : Seq(Chunk), keyword : Seq(Chunk)]
OneOfEach(list) == \A i, j \in 1..Len(list) : list[i].id = list[j].id => i = j

Pin == {NoPin} \union [kind : {"plain", "spec"}, v : Nat,
                       clauses : SUBSET [op : {">=", ">", "<=", "<", "==", "!=", "~="}, v : Nat]]

\* Some release satisfies it, and it has one bound from above at most: between
\* two of them the code says that a newer release is required, and none helps.
OrdinaryPin(pin) ==
    /\ \E v \in Releases : IF pin.kind = "plain" THEN v >= pin.v ELSE Satisfies(v, pin.clauses)
    /\ \A s, t \in pin.clauses : {s.op, t.op} \subseteq {"<=", "<", "==", "~="} => s = t

ASSUME LimitAssumption ==
    /\ {MaxLimit, SnippetCandidates} \subseteq 1..MinCandidates
    /\ Releases \subseteq Nat \ {NoVersion}

ASSUME ChunkAssumption ==
    \A c \in Chunk :
        /\ c.pin \in Pin
        /\ c.symbol \in BOOLEAN /\ c.age \in Int
        /\ {c.first, c.last, c.lines} \subseteq Nat /\ c.first <= c.last

ASSUME ScenarioAssumption ==
    \A s \in Scenarios :
        /\ s.ask \in [Request -> Ask] /\ s.encoder \in BOOLEAN
        /\ \A c \in Chunk : s.logit[c.id] \in 0..One
        /\ s.world \in Seq(Range(s.world)) /\ s.world # <<>>
        /\ \A g \in 1..Len(s.world) : \A key \in DOMAIN s.world[g] :
              LET lists == s.world[g][key]
              IN  lists \in Halves /\ OneOfEach(lists.vector) /\ OneOfEach(lists.keyword)

VARIABLES
    ask,        \* what each request asks
    world,      \* what each generation of the index has for a search: [key -> lists]
    logit,      \* the cross-encoder's score of each chunk, as a share of One
    encoder,    \* the cross-encoder is enabled
    generation, \* of the index
    stage,      \* "asked", "searching", "done" or "failed"
    step,       \* which search of the cascade
    task,       \* its tasks, one per concept
    answer,
    model,      \* the cross-encoder's model is loaded
    available   \* _available: no load of it has failed

input == <<ask, world, logit, encoder>>
encoderVars == <<model, available>>
queryVars == <<input, generation, stage, step, task, answer, encoderVars>>

NoAnswer == [hits |-> <<>>, ranked |-> <<>>, evidence |-> AssembleEvidence(<<>>), generations |-> {}]
NewTask == [at |-> "reading", read |-> {}, vector |-> <<>>, keyword |-> <<>>,
            generations |-> {}, ranked |-> <<>>]

-----------------------------------------------------------------------------
\* The plan of a request.
Steps(a) ==
    IF a.tool = "symbol" THEN (IF a.inClass THEN <<>> ELSE <<"class">>) \o <<"method", "any">>
    ELSE <<"any">>

\* More is fetched when a filter will take some away.
FetchLimit(a) ==
    IF a.tool \in {"symbol", "snippet"} THEN SnippetCandidates
    ELSE IF a.tool \in {"examples", "api"} /\ a.compatibleOnly THEN Smaller(a.limit * 3, MaxLimit) ELSE a.limit

\* One search for each concept, or one for all when there are too few places.
Searches(a) ==
    LET concepts == DecomposeQuery(a.query)
    IN  IF concepts = <<>> THEN <<a.query>>
        ELSE IF FetchLimit(a) < Len(concepts) THEN <<concepts>>
        ELSE [i \in 1..Len(concepts) |-> <<concepts[i]>>]

PerSearch(a) == LET n == Len(Searches(a)) IN (FetchLimit(a) + n - 1) \div n

\* What a generation of the index has for a search.
Found(index, query, kind) ==
    IF <<query, kind>> \in DOMAIN index THEN index[<<query, kind>>] ELSE [vector |-> <<>>, keyword |-> <<>>]

EncoderOn == encoder /\ available

QueryInit ==
    /\ \E s \in Scenarios : ask = s.ask /\ world = s.world /\ logit = s.logit /\ encoder = s.encoder
    /\ generation = 1
    /\ stage = [r \in Request |-> "asked"] /\ step = [r \in Request |-> 1]
    /\ task = [r \in Request |-> <<>>] /\ answer = [r \in Request |-> NoAnswer]
    /\ model = FALSE /\ available = TRUE

-----------------------------------------------------------------------------
NewTasks(a) == [i \in 1..Len(Searches(a)) |-> NewTask]

\* search_docs, search_examples, search_api, get_code_snippet.
Search(r) ==
    /\ stage[r] = "asked" /\ ask[r].tool \notin {"none", "lookup"}
    /\ stage' = [stage EXCEPT ![r] = "searching"]
    /\ task' = [task EXCEPT ![r] = NewTasks(ask[r])]
    /\ UNCHANGED <<input, generation, step, answer, encoderVars>>

\* One of the two reads of a task; no store reads both, or several tasks, at once.
Read(r, i, half) ==
    /\ stage[r] = "searching" /\ task[r][i].at = "reading" /\ half \notin task[r][i].read
    /\ LET t == task[r][i]
           lists == Found(world[generation], Searches(ask[r])[i], Steps(ask[r])[step[r]])
           list == Take(IF half = "vector" THEN lists.vector ELSE lists.keyword, CandidateLimit(PerSearch(ask[r])))
       IN  task' = [task EXCEPT ![r][i] =
               [t EXCEPT !.read = t.read \union {half}, !.generations = t.generations \union {generation},
                         !.vector = IF half = "vector" THEN list ELSE t.vector,
                         !.keyword = IF half = "keyword" THEN list ELSE t.keyword]]
    /\ UNCHANGED <<input, generation, stage, step, answer, encoderVars>>

\* A read or the model raises: so does the request.
Fail(r) ==
    /\ stage[r] = "searching"
    /\ \E i \in 1..Len(task[r]) : task[r][i].at = "reading" \/ (task[r][i].at = "scoring" /\ model)
    /\ stage' = [stage EXCEPT ![r] = "failed"]
    /\ UNCHANGED <<input, generation, step, task, answer, encoderVars>>

Fuse(r, i) ==
    /\ stage[r] = "searching" /\ task[r][i].at = "reading" /\ task[r][i].read = {"vector", "keyword"}
    /\ LET ranked == Rerank(task[r][i].vector, task[r][i].keyword, ask[r])
       IN  task' = [task EXCEPT ![r][i] =
               IF ranked # <<>> /\ EncoderOn THEN [@ EXCEPT !.at = "loading", !.ranked = ranked]
               ELSE [@ EXCEPT !.at = "ready", !.ranked = Take(ranked, PerSearch(ask[r]))]]
    /\ UNCHANGED <<input, generation, stage, step, answer, encoderVars>>

\* Under the lock.  A load that fails turns the encoder off; one that waited
\* for the lock tries again all the same.
LoadModel(r, i) ==
    /\ stage[r] = "searching" /\ task[r][i].at = "loading"
    /\ task' = [task EXCEPT ![r][i] = [@ EXCEPT !.at = "scoring"]]
    /\ \/ model /\ UNCHANGED encoderVars
       \/ ~model /\ \E ok \in BOOLEAN : model' = ok /\ available' = (available /\ ok)
    /\ UNCHANGED <<input, generation, stage, step, answer>>

Score(r, i) ==
    /\ stage[r] = "searching" /\ task[r][i].at = "scoring"
    /\ LET ranked == task[r][i].ranked
           scored == IF model THEN CrossEncode(ranked, logit) ELSE ranked
       IN  task' = [task EXCEPT ![r][i] = [@ EXCEPT !.at = "ready", !.ranked = Take(scored, PerSearch(ask[r]))]]
    /\ UNCHANGED <<input, generation, stage, step, answer, encoderVars>>

-----------------------------------------------------------------------------
Label(a, chunk) ==
    IF a.version = NoVersion THEN "none" ELSE ComputeVersionCompatibility(a.version, chunk.pin)

Merged(a, tasks) ==
    IF Len(tasks) = 1 THEN tasks[1].ranked
    ELSE RoundRobin([i \in 1..Len(tasks) |-> tasks[i].ranked], FetchLimit(a))

\* version_filter.
Compatible(a, results) ==
    IF a.compatibleOnly /\ a.version # NoVersion
    THEN Pick(results, {i \in 1..Len(results) : Label(a, results[i].chunk) # "newer_required"})
    ELSE results

\* It, and the limit of the caller.
Filtered(a, results) ==
    IF a.tool \in {"examples", "api"} THEN Take(Compatible(a, results), a.limit) ELSE results

\* The snippets of a lookup by lines; a chunk without such lines gives none.
Snippets(a, results) ==
    LET kept == Pick(results, {i \in 1..Len(results) : Overlaps(results[i].chunk, a.lines)})
    IN  [k \in 1..Len(kept) |-> [chunk |-> kept[k].chunk, lines |-> SnippetOf(kept[k].chunk, a.lines)]]

Answer(a, results, generations) ==
    LET kept == Filtered(a, results)
    IN  [hits |-> IF a.tool \in {"symbol", "snippet"} THEN Snippets(a, kept) ELSE kept,
         ranked |-> kept, evidence |-> AssembleEvidence(kept), generations |-> generations]

\* All tasks are ready: the answer, or the next search of the cascade.
Collect(r) ==
    /\ stage[r] = "searching" /\ \A i \in 1..Len(task[r]) : task[r][i].at = "ready"
    /\ IF Merged(ask[r], task[r]) = <<>> /\ step[r] < Len(Steps(ask[r]))
       THEN /\ step' = [step EXCEPT ![r] = @ + 1]
            /\ task' = [task EXCEPT ![r] = NewTasks(ask[r])]
            /\ UNCHANGED <<stage, answer>>
       ELSE /\ stage' = [stage EXCEPT ![r] = "done"]
            /\ answer' = [answer EXCEPT ![r] =
                   Answer(ask[r], Merged(ask[r], task[r]), UNION {task[r][i].generations : i \in 1..Len(task[r])})]
            /\ UNCHANGED <<step, task>>
    /\ UNCHANGED <<input, generation, encoderVars>>

\* get_doc, get_example: one keyword read by id or path.
Lookup(r) ==
    /\ stage[r] = "asked" /\ ask[r].tool = "lookup"
    /\ stage' = [stage EXCEPT ![r] = "done"]
    /\ LET found == Found(world[generation], ask[r].query, "any").keyword
           hits == [i \in 1..Len(found) |-> [chunk |-> found[i], score |-> One]]
       IN  answer' = [answer EXCEPT ![r] =
               [hits |-> hits, ranked |-> hits, generations |-> {generation},
                evidence |-> [confidence |-> IF hits = <<>> THEN 0 ELSE One, lowConfidence |-> FALSE,
                              unknown |-> IF hits = <<>> THEN {"not found"} ELSE {}]]]
    /\ UNCHANGED <<input, generation, step, task, encoderVars>>

\* Another process writes the index anew.
Refresh ==
    /\ generation < Len(world)
    /\ generation' = generation + 1
    /\ UNCHANGED <<input, stage, step, task, answer, encoderVars>>

QueryNext ==
    \/ Refresh
    \/ \E r \in Request :
          \/ Search(r) \/ Fail(r) \/ Collect(r) \/ Lookup(r)
          \/ \E i \in 1..Len(task[r]) :
                \/ \E half \in {"vector", "keyword"} : Read(r, i, half)
                \/ Fuse(r, i) \/ LoadModel(r, i) \/ Score(r, i)

QuerySpec == QueryInit /\ [][QueryNext]_queryVars
-----------------------------------------------------------------------------
Done(r) == stage[r] = "done" /\ ask[r].tool \notin {"none", "lookup"}

\* The whole ranking of what a generation has for one search of a request, which
\* the cross-encoder may have scored.
WholeRanking(r, g, i, scored) ==
    LET lists == Found(world[g], Searches(ask[r])[i], Steps(ask[r])[step[r]])
        fused == Rerank(Take(lists.vector, MinCandidates), Take(lists.keyword, MinCandidates), ask[r])
    IN  IF scored THEN CrossEncode(fused, logit) ELSE fused

\* The whole answer, whatever the limit.
WholeAnswer(r, g, scored) ==
    LET n == Len(Searches(ask[r]))
        all == IF n = 1 THEN WholeRanking(r, g, 1, scored[1])
               ELSE InTurn([i \in 1..n |-> WholeRanking(r, g, i, scored[i])])
    IN  IF ask[r].tool \in {"examples", "api"} THEN Compatible(ask[r], all) ELSE all

\* The limit only cuts the answer ("ranking is the same for every ``limit`` and
\* a smaller one only truncates it"): it is the beginning of a ranking that does
\* not mention it, for any number of concepts, with the cross-encoder, when a
\* search has been scored by it or not (its model may not load), and without.
\* What the comment in the code leaves out stays out here: with fewer places
\* than concepts there is one search for all of them, which ranks otherwise.
LimitOnlyTruncates ==
    \A r \in Request : \A g \in 1..Len(world) : Done(r) /\ answer[r].generations = {g} =>
        \E scored \in [1..Len(Searches(ask[r])) -> IF encoder THEN BOOLEAN ELSE {FALSE}] :
            IsPrefix(answer[r].ranked, WholeAnswer(r, g, scored))

\* When the answer has a place for every concept, each that finds anything has
\* its best in it.  (With fewer places they are searched for as one.)
ConceptsAreServed ==
    \A r \in Request : Done(r) /\ ask[r].tool = "docs" =>
        LET concepts == DecomposeQuery(ask[r].query)
        IN  Len(concepts) <= ask[r].limit =>
                \A i \in 1..Len(concepts) :
                    task[r][i].ranked # <<>> => task[r][i].ranked[1].chunk.id \in Ids(answer[r].hits)

\* The label of a hit with an ordinary pin says where the caller's version stands,
\* and none said to be too new is among those filtered.
LabelsAreRight ==
    \A r \in Request : Done(r) /\ ask[r].version # NoVersion =>
        \A i \in 1..Len(answer[r].ranked) :
            LET chunk == answer[r].ranked[i].chunk
                label == Label(ask[r], chunk)
            IN  /\ OrdinaryPin(chunk.pin) => label = Direction(ask[r].version, chunk.pin, Releases)
                /\ ask[r].compatibleOnly /\ ask[r].tool \in {"examples", "api"} => label # "newer_required"

\* What is found is ranked, once; and a run of one repo, or of one file, is
\* longer than allowed only when nothing else is left.
SpreadWherePossible ==
    \A r \in Request : \A i \in 1..Len(task[r]) :
        LET t == task[r][i]
            ranked == Rerank(t.vector, t.keyword, ask[r])
            before(p) == p - MaxSameSource..p - 1
            same(p, q) == \/ \A k \in before(p) : ranked[k].chunk.repo = ranked[q].chunk.repo
                          \/ \A k \in before(p) : ranked[k].chunk.path = ranked[q].chunk.path
        IN  t.at = "reading" /\ t.read = {"vector", "keyword"} =>
                /\ Ids(ranked) = {c.id : c \in ToSet(t.vector) \union ToSet(t.keyword)}
                /\ Cardinality(Ids(ranked)) = Len(ranked)
                /\ \A p \in MaxSameSource + 1..Len(ranked) :
                      same(p, p) => \A q \in p..Len(ranked) : same(p, q)

\* Low confidence is said of an answer without one result of some relevance,
\* and of no other; an answer of which nothing is unknown is not one.
ConfidenceIsEarned ==
    \A r \in Request : Done(r) =>
        LET evidence == answer[r].evidence
            relevant == \E i \in 1..Len(answer[r].ranked) : answer[r].ranked[i].score >= LowScoreThreshold
        IN  /\ evidence.lowConfidence <=> ~relevant
            /\ evidence.unknown = {} <=> relevant

\* A snippet is of the chunks whose stored range has a line that was asked for.
\* Its text is the lines of the chunk that were, from the first and no more than
\* asked for, when they are counted from the first stored one; its range has as
\* many, or is the stored one of a text given whole.  (A request that ends before
\* it starts gives empty snippets; whether the stored range is that of the text
\* is for the ingesters to say.)
SnippetIsWhatWasAsked ==
    \A r \in Request :
        Done(r) /\ ask[r].tool = "snippet" /\ (ask[r].lines.end = 0 \/ ask[r].lines.start <= ask[r].lines.end) =>
        LET want == ask[r].lines
            asked(l) == want.start = 0 \/ (want.start <= l /\ l <= IF want.end = 0 THEN want.start + want.max - 1 ELSE want.end)
            text(chunk) == {l \in chunk.first..chunk.first + chunk.lines - 1 : asked(l)}
        IN  \A h \in 1..Len(answer[r].ranked) :
                LET chunk == answer[r].ranked[h].chunk
                    mine == {s \in 1..Len(answer[r].hits) : answer[r].hits[s].chunk = chunk}
                IN  IF \A l \in chunk.first..chunk.last : ~asked(l) THEN mine = {}
                    ELSE \E s \in mine :
                            LET given == answer[r].hits[s].lines
                                end == given.first + given.size - 1
                            IN  /\ given.first..end = {l \in text(chunk) : \A m \in text(chunk) : l < m + want.max}
                                /\ given.last = end \/ (given.last = chunk.last /\ given.size = chunk.lines)

\* What the caller reads off an answer is so: where its version stands, how
\* far the results can be trusted, and which lines of a chunk it got.
AnswerSaysWhatItIs == LabelsAreRight /\ ConfidenceIsEarned /\ SnippetIsWhatWasAsked
=============================================================================
