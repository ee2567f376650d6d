---- MODULE MCIngest ----
(* Ingest over small clones: trees of at most MaxFiles files out of a few that *)
(* matter to the walks, and documentation files of a few lines.               *)
EXTENDS Ingest, TLC

CONSTANTS a, b, MaxFiles, MaxLens, MaxLines, MaxRecords, MaxRstLines

File(dir, stem, ext) == [dir |-> dir, stem |-> stem, ext |-> ext]

CodeUniverse == {
    File(<<>>, "app", "py"), File(<<>>, "pyproject", "toml"),
    File(<<"examples">>, "one", "py"),
    File(<<"examples", "voice">>, "bot", "py"),
    File(<<"examples", "voice", "alice">>, "bot", "py"),
    File(<<"examples", "voice", "alice", "web">>, "app", "ts"),
    File(<<"examples", "foundational">>, "01-hello", "py"),
    File(<<"bot">>, "bot", "py"), File(<<"bot", "ui">>, "app", "ts"), File(<<"bot", "node_modules">>, "x", "ts"),
    File(<<"dashboard">>, "app", "ts"),
    File(<<"src", "pkg">>, "core", "py"), File(<<"docs">>, "conf", "py")}

SourceUniverse == {
    File(<<"src", "pkg">>, "__init__", "py"), File(<<"src", "pkg">>, "core", "py"),
    File(<<"src", "pkg", "tests">>, "test_core", "py"), File(<<"src", "lib">>, "core", "py"),
    File(<<>>, "pkg", "pyi"), File(<<"docs">>, "types", "rst"),
    File(<<>>, "package", "json"), File(<<"client">>, "core", "ts"), File(<<"client", "ui">>, "core", "ts"),
    File(<<"client", "dist">>, "core", "ts"), File(<<"client">>, "core", "tsx"), File(<<>>, "pkg", "ts")}

SmallSubsets(S) == UNION {{T \in SUBSET S : Cardinality(T) = n} : n \in 0..MaxFiles}

\* Files of a few plain lines, and pages of one title with lines of which some are
\* indented or have tags.
Line(kind, name, run) ==
    [kind |-> kind, bare |-> kind, flush |-> kind, name |-> name, run |-> run, opens |-> "none", closes |-> "none"]
Text == Line("text", "", 0)
PlainLines == {Line("title", "t", 0), Line("source", "u", 0), Line("heading", "h", 0), Line("fence", "backtick", 3), Text}
Blocks == {Line("heading", "h", 0), Line("fence", "backtick", 3), Line("fence", "tilde", 3), Line("fence", "backtick", 4),
           [Text EXCEPT !.opens = "Note"], [Text EXCEPT !.closes = "Note"]}
RichLines == Blocks \union {Line("title", "t", 0), Line("blank", "", 0), [Line("fence", "backtick", 3) EXCEPT !.kind = "text", !.bare = "text"],
                            [Line("heading", "h", 0) EXCEPT !.kind = "text"], [Text EXCEPT !.opens = "Tip"],
                            [Text EXCEPT !.opens = "Note", !.closes = "Tip"]}
UpToLen(S, n) == UNION {[1..k -> S] : k \in 0..n}
Header == <<Line("title", "t", 0), Line("source", "u", 0)>>
SomeFiles == UpToLen(PlainLines, MaxLines - 1)
             \union {Header \o body : body \in UpToLen(Blocks, MaxLines) \union UpToLen(RichLines, MaxLines - 2)}

MCContent == {a, b}
Nothing == [lens |-> <<1>>, boundary |-> {}, module |-> <<>>, exports |-> <<>>, types |-> <<>>]
Both(text) == [c \in MCContent |-> text]
Cut(l, starts) == [Nothing EXCEPT !.lens = l, !.boundary = starts]
SomeTexts == UNION {{Cut(l, starts) : l \in [1..n -> {1, 2, 5}], starts \in SUBSET (1..n)} : n \in 0..MaxLens}

\* Python: definitions of two and of three lines, laid out one after the other.
Stmt(is, name, len, body) == [is |-> is, name |-> name, from |-> 1, to |-> len, body |-> body]
Lay(s, from) ==
    FoldLeft(LAMBDA laid, x : LET by == (IF laid = <<>> THEN from ELSE Last(laid).to + 1) - 1
                              IN  Append(laid, [x EXCEPT !.from = 1 + by, !.to = @ + by,
                                                         !.body = [i \in DOMAIN @ |-> [@[i] EXCEPT !.from = @ + by, !.to = @ + by]]]),
             <<>>, s)
Lines(is) == {Stmt(is, "m", n, <<>>) : n \in {2, 3}}
Bodies == UpToLen(Lines("def") \union Lines("block"), 2)
ClassOf(s) == LET body == Lay(s, 2) IN Stmt("class", "C", IF s = <<>> THEN 2 ELSE Last(body).to, body)
SomeModules == {Lay(x, 1) : x \in UpToLen({ClassOf(s) : s \in Bodies} \union Lines("def") \union Lines("block"), 2)}

\* TypeScript: members on the second and third line, also two on one line.
Member(node, as, name, line) == [node |-> node, as |-> as, name |-> name, line |-> line]
Signatures(nodes) == {Member(n, "method", "m", l) : n \in nodes, l \in {2, 3}}
ClassMembers == Signatures({"method_signature", "abstract_method_signature", "property"})
                \union {Member("method_definition", k, "m", 2) : k \in {"method", "getter", "setter"}}
                \union {Member("method_definition", "method", n, 3) : n \in {"m", Unnamed}}
InterfaceMembers == Signatures({"method_signature", "function_property", "property"})
Export(node, line, members) == [node |-> node, name |-> "T", line |-> line, members |-> members]
Typed == {Export("class", 1, m) : m \in UpToLen(ClassMembers, 2)}
         \union {Export("interface", 1, m) : m \in UpToLen(InterfaceMembers, 2)}
Untyped == {Export(n, l, <<>>) : n \in {"type_alias", "function", "enum", "const", "other"}, l \in {1, 4}}
SomeExports == {<<x>> : x \in Typed \union Untyped}
               \union {<<x, y>> : x \in Typed, y \in Untyped \union {Export("class", 1, <<>>), Export("interface", 4, <<>>)}}

\* RST: a first type, and what may follow.
RstLine(kind, name) == [kind |-> kind, name |-> name]
After == {RstLine("anchor", "B"), RstLine("row", "k"), RstLine("row", "l")}
         \union {RstLine(kind, "") : kind \in {"title", "rule", "blank", "table", "or", "union"}}
First == <<RstLine("anchor", "A"), RstLine("title", "")>>
Table == <<RstLine("table", ""), RstLine("option", ""), RstLine("blank", ""), RstLine("header", ""), RstLine("row", "j")>>
SomeTypes == {First \o r : r \in UpToLen(After, MaxRstLines)} \union {First \o Table \o r : r \in UpToLen(After, MaxRstLines - 1)}
             \union {<<RstLine("anchor", "A")>> \o r : r \in UpToLen(After, MaxRstLines - 2)}

Kinds == [Nothing EXCEPT !.module = <<Stmt("class", "C", 2, <<>>)>>, !.exports = <<Export("class", 1, <<>>)>>,
                         !.types = First \o Table]
Plain == (a :> Nothing) @@ (b :> Kinds)

RegistryRecord(subject, module, kind, since, until, fit) ==
    [subject |-> subject, module |-> module, kind |-> kind, since |-> since, until |-> until, fit |-> fit]
RegistryRecords(until) == {
    RegistryRecord(<<"p", "m">>, <<"p", "m">>, "module", 1, until, TRUE), RegistryRecord(<<"C">>, <<"p", "m">>, "class", 1, until, TRUE),
    RegistryRecord(<<"C">>, <<"p", "n">>, "class", 2, 0, TRUE), RegistryRecord(<<"C", "x">>, <<"p", "m">>, "parameter", 2, until, TRUE),
    RegistryRecord(<<"p", "m", "f">>, <<"p", "m">>, "function", 0, until, TRUE), RegistryRecord(<<"f">>, <<>>, "function", 1, until, FALSE)}
SomeRecords(until, n) == UNION {[1..k -> RegistryRecords(until)] : k \in 0..n}
MCVersions == {Malformed, NotGiven, 1, 2, 3}

Find(who, t, l, layout) ==
    [job |-> who, tree |-> t, above |-> <<"data", "repos">>, lines |-> l, texts |-> layout, registry |-> [active |-> <<>>, removals |-> <<>>]]

MCJobs ==
    {Find("code", t, <<>>, Plain) : t \in SmallSubsets(CodeUniverse)}
    \union {[Find("code", t, <<>>, Plain) EXCEPT !.above = <<"build", "repos">>] : t \in SmallSubsets(CodeUniverse)}
    \union {Find("source", t, <<>>, Plain) : t \in SmallSubsets(SourceUniverse)}
    \union {Find("docs", {}, l, Plain) : l \in SomeFiles}
    \union {Find("docs", {}, <<>>, Both(t)) : t \in SomeTexts}
    \union {Find("source", {}, <<>>, Both([Nothing EXCEPT !.module = m])) : m \in SomeModules}
    \union {Find("source", {}, <<>>, Both([Nothing EXCEPT !.exports = x])) : x \in SomeExports}
    \union {Find("source", {}, <<>>, Both([Nothing EXCEPT !.types = t])) : t \in SomeTypes}
    \union {[Find("registry", {}, <<>>, Plain) EXCEPT !.registry = [active |-> x, removals |-> y]] :
                x \in SomeRecords(3, MaxRecords), y \in SomeRecords(2, MaxRecords)}
====
