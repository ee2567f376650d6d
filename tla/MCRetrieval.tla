---- MODULE MCRetrieval ----
(* Retrieval on small indexes: a scenario is what two requests ask and what   *)
(* each generation of the index has for it.                                   *)
EXTENDS Retrieval, TLC

CONSTANTS r1, r2, A, B, C

Pinned(id, pin) == [id |-> id, repo |-> "x", path |-> "p", type |-> "method", pin |-> pin,
                    symbol |-> FALSE, age |-> 0, first |-> 1, last |-> 3, lines |-> 3]
Base(id) == Pinned(id, NoPin)

\* Ways the four chunks may differ.
Profiles == {
    <<Base(1), Base(2), Base(3), [Base(4) EXCEPT !.repo = "y", !.path = "q"]>>,
    <<Base(1), [Base(2) EXCEPT !.repo = "y"], [Base(3) EXCEPT !.repo = "z"], [Base(4) EXCEPT !.path = "q"]>>,
    <<[Base(1) EXCEPT !.age = 400], [Base(2) EXCEPT !.symbol = TRUE, !.repo = "y"],
      [Base(3) EXCEPT !.path = "q", !.type = "module_overview"], [Base(4) EXCEPT !.repo = "z", !.age = 100]>>}

Lists(ids, n) == UNION {{l \in [1..k -> ids] : \A i, j \in 1..k : i # j => l[i] # l[j]} : k \in 0..n}
Of(profile, l) == [i \in 1..Len(l) |-> profile[l[i]]]
Pair(v, k) == [vector |-> v, keyword |-> k]

Asks(tool, query, limit) ==
    [tool |-> tool, query |-> query, limit |-> limit, version |-> NoVersion, compatibleOnly |-> FALSE,
     symbols |-> TRUE, preferTypes |-> tool = "api", inClass |-> FALSE,
     lines |-> [start |-> 0, end |-> 0, max |-> 2]]
Nothing == Asks("none", <<A>>, 1)
Scenario(a, b, w, logits, on) ==
    [ask |-> (r1 :> a @@ r2 :> b), world |-> w, logit |-> logits, encoder |-> on]
Flat == <<0, 0, 0, 0, 0, 0>>
Key(q) == <<q, "any">>

OneList ==
    {Scenario(Asks(t, <<A>>, l), Nothing, <<(Key(<<A>>) :> Pair(Of(p, v), Of(p, k)))>>, Flat, FALSE) :
        t \in {"examples", "api"}, l \in {1, 2}, p \in Profiles, v \in Lists(1..4, 2), k \in Lists({2, 3, 4}, 3)}

LongList ==
    {Scenario(Asks("examples", <<A>>, 4), Nothing, <<(Key(<<A>>) :> Pair(Of(p, v), <<>>))>>, Flat, FALSE) :
        p \in Profiles, v \in Lists(1..4, 4)}

Several ==
    {Scenario(Asks("docs", q, l), Nothing,
              <<(Key(<<A>>) :> Pair(Of(p, v), <<>>) @@ Key(<<B>>) :> Pair(Of(p, w), <<>>)
                 @@ Key(<<C>>) :> Pair(<<Base(5), Base(6)>>, <<>>) @@ Key(<<A, C, B>>) :> Pair(Of(p, w), Of(p, v)))>>, Flat, FALSE) :
        q \in {<<A, B>>, <<Blank, A>>, <<A, C, B>>}, l \in 1..4, p \in Profiles,
        v \in Lists(1..3, 2), w \in Lists({2, 4}, 2)}

Clauses(ops, n) == {{}} \union {{[op |-> o, v |-> v]} : o \in ops, v \in 2..n}
MCReleases == 1..32
Pins ==
    {NoPin} \union {[kind |-> "plain", v |-> v, clauses |-> {}] : v \in 2..3}
    \union {p \in {[kind |-> "spec", v |-> 0, clauses |-> l \union u \union n] :
                      l \in Clauses({">=", ">"}, 3), u \in Clauses({"<", "<=", "~=", "=="}, 4), n \in Clauses({"!="}, 3)} :
               p.clauses # {}}
    \union {[kind |-> "spec", v |-> 0, clauses |-> {[op |-> "==", v |-> 2], [op |-> "<", v |-> 4]}]}
Versions ==
    {Scenario([Asks("examples", <<A>>, 2) EXCEPT !.version = u, !.compatibleOnly = f], Nothing,
              <<(Key(<<A>>) :> Pair(<<Pinned(1, p), Base(2)>>, <<>>))>>, Flat, FALSE) :
        p \in Pins, u \in {1, 2, 3, 4, 12}, f \in BOOLEAN}

Lookups ==
    {Scenario([Asks("snippet", <<A>>, 1) EXCEPT !.lines = [start |-> s, end |-> e, max |-> m]], Nothing,
              <<(Key(<<A>>) :> Pair(<<[Base(1) EXCEPT !.first = f, !.last = l, !.lines = n], [Base(2) EXCEPT !.last = 5]>>, <<>>))>>,
              Flat, FALSE) :
        s \in 0..4, e \in 0..4, m \in 1..2, f \in 1..3, l \in 3..4, n \in {1, 2, 5}}
    \union {Scenario(Asks("lookup", <<A>>, 1), Nothing, <<(Key(<<A>>) :> Pair(<<>>, k))>>, Flat, FALSE) :
               k \in {<<>>, <<Base(1)>>}}

\* Two generations under a cascade and under several concepts; the reranker
\* with two requests at once.
Cascades ==
    {Scenario([Asks("symbol", q, 1) EXCEPT !.inClass = c], Nothing, <<w, x>>, Flat, FALSE) :
        q \in {<<A>>, <<A, B>>}, c \in BOOLEAN,
        w \in {<<<<A>>, "class">> :> Pair(<<Base(1)>>, <<>>), <<<<A>>, "any">> :> Pair(<<Base(2)>>, <<Base(1)>>)},
        x \in {<<<<A>>, "method">> :> Pair(<<Base(3)>>, <<>>), <<<<B>>, "method">> :> Pair(<<>>, <<Base(3)>>)}}
Rerankings ==
    {Scenario(Asks("docs", q, l), Asks("docs", <<B>>, 2),
              <<(Key(<<A>>) :> Pair(<<Base(1), Base(2)>>, <<>>) @@ Key(<<B>>) :> Pair(<<Base(3)>>, <<Base(4)>>))>>,
              logits, TRUE) :
        q \in {<<A>>, <<A, B>>}, l \in 1..2, logits \in {Flat, <<One \div 8, One, One \div 20, 0, 0, 0>>, <<One \div 8, 0, 0, 0, 0, 0>>}}

MCRequest == {r1, r2}
MCText == {A, B, C, Blank}
MCScenarios == OneList \union LongList \union Several \union Versions \union Lookups \union Cascades \union Rerankings
MCChunk ==
    UNION {ToSet(p) : p \in Profiles} \union {Base(id) : id \in 1..6} \union {Pinned(1, p) : p \in Pins}
    \union {[Base(1) EXCEPT !.first = f, !.last = l, !.lines = n] : f \in 1..3, l \in 3..4, n \in {1, 2, 5}}
    \union {[Base(2) EXCEPT !.last = 5]}
====
