---- MODULE MCConfigWriter ----
(* The configuration on small file trees: /h is the home directory, /h/c the *)
(* configuration directory or a link, /h/d the checkout it may point into,   *)
(* /w the working directory.                                                 *)
EXTENDS ConfigWriter

Slug(r, n) == [repo |-> r, spelling |-> n]
X == Slug("x", 1)
X2 == Slug("x", 2)
Y == Slug("y", 1)
Def == Slug("p", 1)

Array(items) == [shape |-> "array", items |-> items]
Csv(items) == [shape |-> "csv", items |-> items]

File(settings) == WrittenTo(settings, TRUE)
Link(to, absolute, slash) == [Directory EXCEPT !.kind = "link", !.to = to, !.absolute = absolute, !.slash = slash]
Foreign(e) == [e EXCEPT !.safe = FALSE]
Base == (<<"h">> :> Directory) @@ (<<"w">> :> Directory)
At(l, e) == (l :> e)

MCHome == <<"h">>
MCDefaultConfig == <<"h", "c", "f">>
MCDefaultDataDir == <<"h", "x">>
MCDotenvPath == <<"w", "e">>
MCDefaultRepos == <<Def>>
MCWriter == {"p", "q"}

MCConfigPaths ==
    {<<"h", "c", "f">>, <<"h", "c", Up, "d", "f">>, <<"h", "c", "n", Up, "f">>, <<"h", "k", "f">>, <<"h", "k", Up, "f">>,
     <<"h", "d", "f", Up, "f">>}
MCDataDirs == {<<"h", "x">>, <<"h", "d">>, <<"h", "c">>, <<"h", "k">>, <<"h">>, <<"w">>, <<"h", "k", Up>>, <<>>}

\* Trees for the path properties.
CDirs == {At(<<"h", "c">>, Directory), <<>>} \union
         {At(<<"h", "c">>, Link(t[1], t[2], s)) :
             t \in {<<<<"d">>, FALSE>>, <<<<"h", "d">>, TRUE>>, <<<<"n", Up, "d">>, FALSE>>, <<<<"k">>, FALSE>>},
             s \in BOOLEAN}
DDirs == {At(<<"h", "d">>, Directory) @@ f :
             f \in {<<>>, At(<<"h", "d", "f">>, File(<<>>)), At(<<"h", "d", "f">>, Link(<<"g">>, FALSE, FALSE)),
                    At(<<"h", "d", "f">>, Link(<<"g">>, FALSE, TRUE)),
                    At(<<"h", "d", "f">>, Link(<<Up, Up, "w", "f">>, FALSE, FALSE)) @@ At(<<"w", "f">>, File(<<>>))}}
         \union {<<>>}
KLinks == {<<>>, At(<<"h", "k">>, Link(<<"c">>, FALSE, FALSE)), At(<<"h", "k">>, Link(<<"h", "d">>, TRUE, FALSE)),
           At(<<"h", "k">>, Link(<<Up, "w">>, FALSE, TRUE))}
Files(tree) == IF IsA(tree, <<"h", "c">>, "dir")
               THEN {tree, At(<<"h", "c", "f">>, File(<<>>)) @@ tree,
                     At(<<"h", "c", "f">>, Link(<<Up, "d", "f">>, FALSE, FALSE)) @@ tree}
               ELSE {tree}
Trees == UNION {Files(c @@ d @@ k @@ e @@ Base) :
                   c \in CDirs, d \in DDirs, k \in KLinks, e \in {<<>>, At(MCDotenvPath, File(<<>>))}}

NoEdit == [adding |-> TRUE, slugs |-> {}, configOnly |-> FALSE]
Scenario(tree, top, env, p, q, swaps) ==
    [fs |-> tree, real |-> top, dotenv |-> env, edit |-> ("p" :> p @@ "q" :> q), links |-> swaps]

Lookups == {Scenario(t, <<>>, <<>>, NoEdit, NoEdit, {}) : t \in Trees}

\* Layers: what each may say of each key.
Plain(settings) == At(<<"h", "c">>, Directory) @@ At(<<"h", "c", "f">>, File(settings)) @@ Base
Opt(k, values) == {<<>>} \union {k :> v : v \in values}
Layers ==
    {Scenario(Plain(t), a, b, NoEdit, NoEdit, {}) :
        t \in Opt(TaintedRepos, {Array(<<X, Y>>), Csv(<<X>>), [shape |-> "scalar", items |-> <<Y>>],
                                [shape |-> "skipped", items |-> <<X>>], Array(<<>>)}),
        a \in Opt(TaintedRepos, {<<X2>>, <<Blank>>, <<Blank, Blank>>, <<X2, Y>>}),
        b \in Opt(TaintedRepos, {<<Y>>, <<Blank>>})}
    \union
    {Scenario(Plain(t), a, b, NoEdit, NoEdit, {}) :
        t \in Opt(TaintedRefs, {Array(<<X, Y>>), Csv(<<X2>>)}), a \in Opt(TaintedRefs, {<<X2>>, <<X, Y>>}),
        b \in Opt(ConfigFile, {<<Blank>>, <<MCDefaultConfig>>, <<<<"h", "n">>>>})}
    \union
    {Scenario(Plain(t), a, b, NoEdit, NoEdit, {}) :
        t \in Opt(DataDir, {Csv(<<<<"h">>>>), Csv(<<<<"h", "x">>>>), Csv(<<<<"h", "c">>>>)}),
        a \in Opt(DataDir, {<<<<"w">>>>, <<Blank>>}), b \in Opt(DataDir, {<<<<"h", "d">>>>})}

\* Edits: two commands, on a file that is there, on one behind a link, or on none.
Edit(add, slugs) == [adding |-> add, slugs |-> slugs, configOnly |-> FALSE]
Lists == {Array(<<>>), Array(<<X2>>), Array(<<X, Blank, X2, Y>>), Csv(<<Y, X2>>), [shape |-> "scalar", items |-> <<Y>>]}
Contents == {<<>>} \union {ExtraRepos :> l : l \in Lists}
            \union {(ExtraRepos :> l) @@ (TaintedRepos :> Csv(<<Y>>)) : l \in {Array(<<X2, Y>>)}}
Commands == {Edit(TRUE, {X}), Edit(FALSE, {X}), Edit(TRUE, {Y}), Edit(FALSE, {X, Y}), [Edit(TRUE, {X}) EXCEPT !.configOnly = TRUE]}
Uppers == {<<<<>>, <<>>>>, <<(ExtraRepos :> <<Blank>>), <<>>>>, <<<<>>, (ExtraRepos :> <<Y>>)>>}

Linked(settings) == At(<<"h", "c">>, Link(<<"d">>, FALSE, FALSE)) @@ At(<<"h", "d">>, Directory)
                    @@ At(<<"h", "g">>, Directory) @@ At(<<"h", "d", "f">>, File(settings)) @@ Base
Swaps == {[at |-> <<"h", "c">>, entry |-> Link(<<x>>, FALSE, FALSE)] : x \in {"d", "g"}}
Winding == At(<<"h", "k">>, Link(<<"m">>, FALSE, FALSE)) @@ At(<<"h", "m">>, Link(<<"d">>, FALSE, FALSE))
Unread == {[at |-> <<"h", "c">>, entry |-> e] : e \in {Foreign(Link(<<"d">>, FALSE, FALSE)), Link(<<"k">>, FALSE, FALSE)}}
Elsewhere == Linked(ExtraRepos :> Array(<<X2>>)) @@ At(<<"h", "g", "f">>, File(TaintedRepos :> Csv(<<Y>>)))
Aside == [at |-> <<"h", "c", "f">>, entry |-> Link(<<Up, "g">>, FALSE, FALSE)]
Later == At(<<"h", "c">>, Link(<<"d", "n">>, FALSE, FALSE)) @@ At(<<"h", "g">>, Directory) @@ Base
Absent == {Base, At(<<"h", "c">>, Link(<<"d", "n">>, FALSE, FALSE)) @@ Base,
           At(<<"h", "c">>, Foreign(Link(<<"d">>, FALSE, FALSE))) @@ Base,
           At(<<"h", "c">>, Foreign(Directory)) @@ Base,
           At(<<"h", "c">>, Link(<<"d">>, FALSE, TRUE)) @@ At(<<"h", "d">>, WrittenTo(<<>>, FALSE)) @@ Base,
           At(<<"h", "c">>, Directory) @@ At(<<"h", "c", "f">>, WrittenTo(<<>>, FALSE)) @@ Base}

Edits ==
    {Scenario(Plain(c), u[1], u[2], p, q, {}) : c \in Contents, u \in Uppers, p \in Commands, q \in Commands}
    \union {Scenario(Linked(ExtraRepos :> Array(<<X2>>)), <<>>, <<>>, p, q, Swaps) :
               p \in Commands, q \in {NoEdit, Edit(TRUE, {Y})}}
    \union {Scenario(Linked(ExtraRepos :> Array(<<X2>>)) @@ Winding, <<>>, <<>>, Edit(TRUE, {Y}), q, Unread) :
               q \in {NoEdit, Edit(FALSE, {X})}}
    \union {Scenario(Elsewhere, <<>>, <<>>, Edit(TRUE, {Y}), Edit(FALSE, {X}), Swaps),
            Scenario(Plain(ExtraRepos :> Array(<<X2>>)), <<>>, <<>>, Edit(TRUE, {Y}), Edit(FALSE, {X}), {Aside})}
    \union {Scenario(t, <<>>, <<>>, Edit(TRUE, {X}), q, {}) : t \in Absent, q \in {Edit(TRUE, {Y}), Edit(FALSE, {X})}}
    \union {Scenario(Later, <<>>, <<>>, Edit(TRUE, {X}), q, {[at |-> <<"h", "d">>, entry |-> Link(<<"g">>, FALSE, FALSE)]}) :
               q \in {NoEdit, Edit(TRUE, {Y})}}

MCScenarios == Lookups \union Layers \union Edits
====
