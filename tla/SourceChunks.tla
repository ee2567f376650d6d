----------------------------- MODULE SourceChunks -----------------------------
(***************************************************************************)
(* What the three parsers of API source find in a file and which chunks    *)
(* are made of it: Python (ast_extractor.py), TypeScript                   *)
(* (ts_tree_sitter_parser.py), RST type definitions (rst_type_parser.py),  *)
(* and the builders of source_ingest.py.                                   *)
(*                                                                         *)
(* A Python file is the sequence of its statements [is, name, from, to,    *)
(* body]: a "class", a "def" or a "block" (if, try, with), the last two    *)
(* being lines of the file.  A TypeScript file is the sequence of the      *)
(* statements after its exports [node, name, line, members].  An RST file  *)
(* is its lines [kind, name].  What the text of a chunk says beside the    *)
(* names of what it lists is left out.                                     *)
(***************************************************************************)
EXTENDS Lists, Integers, SequencesExt

MinMethodLines == 3

\* lists: the names in the listing of an overview.
Chunk(type, class, name, from, to, lists) ==
    [type |-> type, class |-> class, name |-> name, from |-> from, to |-> to, lists |-> lists]

\* _make_chunk_id, within one commit of a repo.
ChunkId(modulePath, c) == <<modulePath, c.type, c.class, c.name, c.from>>

NamesAmong(s) == {s[i].name : i \in 1..Len(s)}

-----------------------------------------------------------------------------
\* Python: the classes and functions of the module, the methods of a class;
\* nothing that stands deeper.
Direct(statements, is) == Picked(statements, {i \in DOMAIN statements : statements[i].is = is})

LongEnough(stub, s) == stub \/ s.to - s.from + 1 >= MinMethodLines

BuildClassChunks(class, stub) ==
    LET methods == Direct(class.body, "def")
        kept == Picked(methods, {i \in DOMAIN methods : LongEnough(stub, methods[i])})
    IN  <<Chunk("class_overview", class.name, "", class.from, class.to, NamesAmong(methods))>>
        \o [i \in 1..Len(kept) |-> Chunk("method", class.name, kept[i].name, kept[i].from, kept[i].to, {})]

\* A short function has no chunk, and is in the overview alone.
BuildChunks(module, stub) ==
    LET classes == Direct(module, "class")
        functions == Direct(module, "def")
        kept == Picked(functions, {i \in DOMAIN functions : LongEnough(stub, functions[i])})
        last == IF module = <<>> THEN 0 ELSE Last(module).to
    IN  <<Chunk("module_overview", "", "", 1, last, NamesAmong(classes \o functions))>>
        \o FlattenSeq([i \in 1..Len(classes) |-> BuildClassChunks(classes[i], stub)])
        \o [i \in 1..Len(kept) |-> Chunk("function", "", kept[i].name, kept[i].from, kept[i].to, {})]

-----------------------------------------------------------------------------
\* TypeScript: a node is an "interface", "class", "type_alias", "function",
\* "enum", "const" with a type, or "other" (an untyped or second const, a list of
\* names, a namespace).  A member is [node, name, line, as]: as is "constructor",
\* "getter", "setter" or "method", name is Unnamed for #private and computed ones.
Unnamed == "?"

Declaration(kind, class, name, line) == [kind |-> kind, class |-> class, name |-> name, line |-> line]

\* The members that become methods: those with a body and the abstract ones of a
\* class, the callable ones of an interface.
MemberNodes(node) ==
    CASE node = "class" -> {"method_definition", "abstract_method_signature"}
      [] node = "interface" -> {"method_signature", "function_property"}
      [] OTHER -> {}

ExtractMethods(s) ==
    LET found == Picked(s.members, {i \in DOMAIN s.members : /\ s.members[i].node \in MemberNodes(s.node)
                                                            /\ s.members[i].name # Unnamed})
    IN  [i \in 1..Len(found) |->
            Declaration(IF found[i].node = "method_definition" THEN found[i].as ELSE "method",
                        s.name, found[i].name, found[i].line)]

Unique(declarations) ==
    Picked(declarations, {i \in DOMAIN declarations : \A j \in 1..i - 1 : declarations[j] # declarations[i]})

ParseTsSource(exports) ==
    LET known == Picked(exports, {i \in DOMAIN exports : exports[i].node # "other"})
    IN  Unique(FlattenSeq([i \in 1..Len(known) |->
                   <<Declaration(known[i].node, "", known[i].name, known[i].line)>> \o ExtractMethods(known[i])]))

TsChunkType(kind) ==
    CASE kind \in {"interface", "class"} -> "class_overview"
      [] kind \in {"type_alias", "enum"} -> "type_definition"
      [] kind \in {"function", "const"} -> "function"
      [] OTHER -> "method"

TsChunk(d) ==
    LET type == TsChunkType(d.kind)
    IN  CASE type = "method" -> Chunk(type, d.class, d.name, d.line, d.line, {})
          [] type = "class_overview" -> Chunk(type, d.name, "", d.line, d.line, {})
          [] OTHER -> Chunk(type, "", d.name, d.line, d.line, {})

BuildTsChunks(declarations) == [i \in 1..Len(declarations) |-> TsChunk(declarations[i])]

-----------------------------------------------------------------------------
\* RST: a line is an "anchor" (.. _Name:), a "title", the "rule" under it, "blank",
\* a "table" directive, an "option", a "row" (* - key) or the "header" row, a
\* "value", "or", a "union" (with a bar) or other "text".
NextOf(ls, from, ok) ==
    CHOOSE j \in from..Len(ls) + 1 :
        /\ j <= Len(ls) => ls[j].kind \in ok
        /\ \A k \in from..j - 1 : ls[k].kind \notin ok

RstKinds == {"anchor", "title", "rule", "blank", "table", "option", "row", "header", "value", "or", "union", "text"}
Past(ls, from, kinds) == NextOf(ls, from, RstKinds \ kinds)
KindAt(ls, i) == IF i <= Len(ls) THEN ls[i].kind ELSE "end"

Keys(ls, rows) == [k \in 1..Cardinality(rows) |-> ls[InOrder(rows)[k]].name]

\* The keys of a table: its rows up to "or", another directive, two blank lines
\* or the end of the section.
ParseListTable(ls, table, end) ==
    LET first == Past(ls, Past(ls, table + 1, {"option"}), {"blank"})
        stop == CHOOSE j \in first..Len(ls) + 1 :
                    LET over(i) == \/ i >= end
                                   \/ ls[i].kind \in {"or", "table"}
                                   \/ ls[i].kind = "blank" /\ i + 1 < end /\ ls[i + 1].kind = "blank"
                    IN  over(j) /\ \A k \in first..j - 1 : ~over(k)
    IN  Keys(ls, {i \in first..stop - 1 : ls[i].kind = "row"})

TypeDefinition(ls, anchor, from, end) ==
    LET tables == InOrder({i \in from..end - 1 : ls[i].kind = "table"})
        either == \E i \in from..end - 1 : ls[i].kind = "or"
        def(kind, fields) == [name |-> ls[anchor].name, from |-> anchor, to |-> end - 1, kind |-> kind, fields |-> fields]
    IN  CASE Len(tables) > 1 /\ either ->
               def("dict_or", FlattenSeq([i \in 1..Len(tables) |-> ParseListTable(ls, tables[i], end)]))
          [] tables # <<>> /\ ~(Len(tables) > 1 /\ either) -> def("dict", ParseListTable(ls, tables[1], end))
          [] OTHER -> def(IF from < end /\ ls[from].kind = "union" THEN "enum" ELSE "alias", <<>>)

\* After an anchor come blank lines, one line taken for the title, its rule and
\* blank lines.
TitleOf(ls, anchor) == Past(ls, anchor + 1, {"blank"})

ContentOf(ls, anchor) ==
    LET rule == TitleOf(ls, anchor) + 1
    IN  Past(ls, IF KindAt(ls, rule) = "rule" THEN rule + 1 ELSE rule, {"blank"})

\* From each anchor, the section up to the next one.  A section that the file
\* ends before is dropped.
ParseRstTypes(ls) ==
    LET types[i \in 1..Len(ls) + 1] ==
            LET anchor == NextOf(ls, i, {"anchor"})
                from == ContentOf(ls, anchor)
                end == NextOf(ls, from, {"anchor"})
            IN  IF anchor > Len(ls) \/ TitleOf(ls, anchor) > Len(ls) \/ from > Len(ls) THEN <<>>
                ELSE <<TypeDefinition(ls, anchor, from, end)>> \o types[end]
    IN  types[1]

-----------------------------------------------------------------------------
\* Files as their parsers find them.  Statements are on lines of their own, one
\* after the other, and those of a class inside it.
IsList(x) == x \in Seq(Range(x))

AreLaid(statements) ==
    \A i \in DOMAIN statements :
        /\ {statements[i].from, statements[i].to} \subseteq Nat /\ statements[i].from <= statements[i].to
        /\ \A k \in DOMAIN statements : i < k => statements[i].to < statements[k].from

IsPython(module) ==
    /\ IsList(module) /\ AreLaid(module)
    /\ \A s \in Range(module) : s.is = "class" =>
          /\ IsList(s.body) /\ AreLaid(s.body)
          /\ \A m \in Range(s.body) : s.from <= m.from /\ m.to <= s.to

IsTypeScript(exports) ==
    /\ IsList(exports)
    /\ \A s \in Range(exports) :
          /\ s.node \in {"class", "interface", "type_alias", "enum", "function", "const", "other"}
          /\ s.node \in {"class", "interface"} => IsList(s.members)
          /\ s.node = "class" => \A m \in Range(s.members) :
                /\ m.node \in {"method_definition", "abstract_method_signature", "method_signature", "property"}
                /\ m.as \in {"constructor", "getter", "setter", "method"}
          /\ s.node = "interface" => \A m \in Range(s.members) : m.node \in {"method_signature", "function_property", "property"}

IsRst(ls) == IsList(ls) /\ \A l \in Range(ls) : l.kind \in RstKinds

-----------------------------------------------------------------------------
\* What the chunks of a file must be.  A class or function at the top of a Python
\* file, and a method of such a class, is named in the overview above it and, long
\* enough or in a stub, has a chunk of its own.
NamedIn(chunks, class, name) == \E c \in Range(chunks) : c.class = class /\ name \in c.lists
Has(chunks, type, class, name, from) ==
    \E c \in Range(chunks) : c.type = type /\ c.class = class /\ c.name = name /\ c.from = from

PythonIsFound(module, stub) ==
    LET chunks == BuildChunks(module, stub)
        found(type, class, s) == /\ NamedIn(chunks, class, s.name)
                                 /\ stub \/ s.to > s.from + 1 => Has(chunks, type, class, s.name, s.from)
    IN  \A s \in Range(module) :
            /\ s.is = "def" => found("function", "", s)
            /\ s.is = "class" => /\ NamedIn(chunks, "", s.name) /\ Has(chunks, "class_overview", s.name, "", s.from)
                                 /\ \A m \in Range(s.body) : m.is = "def" => found("method", s.name, m)

PythonIdsDiffer(module, stub) ==
    LET chunks == BuildChunks(module, stub)
    IN  \A i, k \in DOMAIN chunks : ChunkId("", chunks[i]) = ChunkId("", chunks[k]) => i = k

\* A declaration after `export` has a chunk, and a member with a plain name of a
\* class or interface among them, but for data and what has no body anywhere.
TypeScriptIsFound(exports) ==
    LET chunks == BuildTsChunks(ParseTsSource(exports))
        method(s, m) == /\ m.node # "property" /\ m.name # Unnamed
                        /\ s.node = "class" => \E n \in Range(s.members) :
                                                  n.name = m.name /\ n.node \notin {"method_signature", "property"}
    IN  \A s \in Range(exports) : s.node # "other" =>
            IF s.node \in {"class", "interface"}
            THEN /\ Has(chunks, "class_overview", s.name, "", s.line)
                 /\ \A m \in Range(s.members) : method(s, m) =>
                       \E c \in Range(chunks) : c.type = "method" /\ c.class = s.name /\ c.name = m.name
            ELSE \E type \in {"function", "type_definition"} : Has(chunks, type, "", s.name, s.line)

TypeScriptIdsDiffer(exports) ==
    LET found == ParseTsSource(exports)
    IN  \A i, k \in DOMAIN found : TsChunk(found[i]) = TsChunk(found[k]) =>
            i = k \/ (found[i].line = found[k].line /\ found[i].kind # found[k].kind)

\* Where each anchor has a title and something follows, each is a type, up to the
\* next one; and where "or" stands between its tables and none is broken by two
\* blank lines, its fields are the keys of all their rows.
TypesAreFound(ls) ==
    LET types == ParseRstTypes(ls)
        anchors == {i \in DOMAIN ls : ls[i].kind = "anchor"}
        end(a) == NextOf(ls, a + 1, {"anchor"})
        wellFormed == \A a \in anchors :
            /\ KindAt(ls, TitleOf(ls, a)) = "title"
            /\ \E i \in DOMAIN ls : i > TitleOf(ls, a) /\ ls[i].kind \notin {"rule", "blank"}
        marks(a) == {i \in a..end(a) - 1 : ls[i].kind \in {"table", "or", "row"}}
        isLast(i, places) == i \in places /\ \A k \in places : k <= i
        usual(a) == /\ \A i \in marks(a) : ls[i].kind = "table" <=>
                          \A k \in marks(a) : isLast(k, {l \in marks(a) : l < i}) => ls[k].kind = "or"
                    /\ \A i \in a + 1..end(a) - 1 : ls[i].kind # "blank" \/ ls[i - 1].kind # "blank"
    IN  wellFormed =>
            /\ Len(types) = Cardinality(anchors)
            /\ \A a \in anchors : \E t \in Range(types) :
                  /\ t.name = ls[a].name /\ t.from = a /\ t.to = end(a) - 1
                  /\ usual(a) => t.fields = Keys(ls, {i \in a..end(a) - 1 : ls[i].kind = "row"})
===============================================================================
