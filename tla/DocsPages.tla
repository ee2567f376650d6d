----------------------------- MODULE DocsPages ------------------------------
(***************************************************************************)
(* llms-full.txt split into pages, cleaned of its tags, split into sections*)
(* and served again (services/ingest/docs_crawler.py, shared/markdown.py,  *)
(* services/retrieval/hybrid.py).                                          *)
(*                                                                         *)
(* A line is told by what its beginning makes it: "title" for "# name",    *)
(* "heading" for "## name", "source" for "Source: name", "fence" for three *)
(* or more of one mark, "blank", "text" for anything else.  kind is that   *)
(* as the line stands, bare when the structural tags on it are gone, flush *)
(* when the blanks before it are gone as well.  name is a heading's title, *)
(* a page's address or a fence's mark, run the length of the fence.  opens *)
(* is the admonition that begins on the line and ends on a later one,      *)
(* closes the one that ends on it and began on an earlier one.             *)
(***************************************************************************)
EXTENDS Chunking

Kind == {"title", "heading", "source", "fence", "blank", "text"}
TextLine == [kind : Kind, bare : Kind, flush : Kind, name : STRING, run : Nat, opens : STRING, closes : STRING]
As(line, kind) == [line EXCEPT !.kind = kind, !.flush = kind]
Untagged(line) == [line EXCEPT !.kind = line.bare]

IsHeading(line) == line.kind \in {"title", "heading"}

\* The fence that is open after each line, if one is: it is closed by one of the
\* same mark and no shorter, or never.
Fence(mark, run) == [mark |-> mark, run |-> run]
NoFence == Fence("none", 0)

AfterLine(open, line) ==
    CASE line.kind # "fence" -> open
      [] line.kind = "fence" /\ open = NoFence -> Fence(line.name, line.run)
      [] OTHER -> IF line.name = open.mark /\ line.run >= open.run THEN NoFence ELSE open

OpenFence(lines) ==
    LET f[i \in 0..Len(lines)] == IF i = 0 THEN NoFence ELSE AfterLine(f[i - 1], lines[i])
    IN  f

InsideFence(lines, i) == OpenFence(lines)[i - 1] # NoFence

-----------------------------------------------------------------------------
PageStarts(lines) ==
    InOrder({i \in 1..Len(lines) - 1 : lines[i].kind = "title" /\ lines[i + 1].kind = "source"})

SplitIntoPages(lines) ==
    LET starts == PageStarts(lines)
    IN  [p \in 1..Len(starts) |->
            LET from == starts[p]
                to == IF p < Len(starts) THEN starts[p + 1] - 1 ELSE Len(lines)
            IN  [url |-> lines[from + 1].name, first |-> from, last |-> to,
                 title |-> lines[from], body |-> SubSeq(lines, from + 2, to)]]

\* An admonition reaches from the tag that opens it to the nearest that closes it,
\* or is none.  The lines after the first are quoted, and so begin with a ">".
Admonition(body, i, j) ==
    /\ body[i].opens # "none" /\ body[j].closes = body[i].opens
    /\ \A k \in i + 1..j - 1 : body[k].closes # body[i].opens

Quoted(body, k) == \E i \in 1..k - 1, j \in k..Len(body) : Admonition(body, i, j)

CleanMintlifyTags(body) ==
    [k \in 1..Len(body) |-> IF Quoted(body, k) THEN As(body[k], "text") ELSE Untagged(body[k])]

\* A text without the blanks before it: its first line loses those before it too.
FirstOf(s, k) == s[k].kind # "blank" /\ \A j \in 1..k - 1 : s[j].kind = "blank"
Stripped(s) == [k \in 1..Len(s) |-> IF FirstOf(s, k) THEN As(s[k], s[k].flush) ELSE s[k]]

FullContent(page) == <<page.title>> \o Stripped(CleanMintlifyTags(page.body))

-----------------------------------------------------------------------------
SectionStarts_Fenced(body) ==   \* mutant: a heading inside a code block begins a section
    InOrder({i \in 1..Len(body) : IsHeading(body[i])})

SectionStarts(body) ==
    InOrder({i \in 1..Len(body) : IsHeading(body[i]) /\ ~InsideFence(body, i)})

\* A section from heading to heading, heading included.
SplitIntoSections(body) ==
    LET starts == SectionStarts(body)
    IN  [s \in 1..Len(starts) |->
            SubSeq(body, starts[s], IF s < Len(starts) THEN starts[s + 1] - 1 ELSE Len(body))]

\* What is kept of a section: its heading, whatever its level, as one of the second
\* and the rest stripped.
SectionChunk(section) == <<As(section[1], "heading")>> \o Stripped(Tail(section))

\* A page as it is put together again of its sections.
Served(content) ==
    LET sections == SplitIntoSections(content)
    IN  FlattenSeq([s \in 1..Len(sections) |-> SectionChunk(sections[s])])

\* The titles listed for a page, each once, and the lines found for a title, to
\* the next heading that is not deeper.
HeadingTitles(body) == {body[i].name : i \in {j \in 1..Len(body) : IsHeading(body[j]) /\ ~InsideFence(body, j)}}

EndsSection(body, from, i) == IsHeading(body[i]) /\ (body[i].kind = "title" \/ body[from].kind = "heading")

ExtractSection(body, name) ==
    LET starts == {i \in 1..Len(body) : IsHeading(body[i]) /\ ~InsideFence(body, i) /\ body[i].name = name}
        from == Min(starts)
        ends == {i \in from + 1..Len(body) : EndsSection(body, from, i) /\ ~InsideFence(body, i)}
    IN  IF starts = {} THEN <<>>
        ELSE SubSeq(body, from, IF ends = {} THEN Len(body) ELSE Min(ends) - 1)

-----------------------------------------------------------------------------
\* Read alone, a part of some lines has the code that it has among them.
SameBlocks(part, lines, from) ==
    LET alone == OpenFence(part)
        among == OpenFence(lines)
    IN  \A k \in 1..Len(part) : alone[k] = among[from - 1 + k]

\* Cleaning makes no line outside the admonitions code, and no code text, if they
\* do not cross and a block that begins in one ends in it.
Bare(body) == [k \in 1..Len(body) |-> Untagged(body[k])]

WellNested(body) ==
    \A i, j \in 1..Len(body) : i < j /\ Admonition(body, i, j) =>
        /\ OpenFence(Bare(body))[i] = OpenFence(Bare(body))[j]
        /\ \A k, l \in i + 1..Len(body) : k <= j /\ k < l /\ Admonition(body, k, l) => l <= j

CleaningMovesNoCode(body) ==
    WellNested(body) => \A k \in 1..Len(body) :
        Quoted(body, k) \/ OpenFence(CleanMintlifyTags(body))[k] = OpenFence(Bare(body))[k]

\* The sections are the page, and a code block is in one of them, whole.
SectionsAreWhole(content) ==
    LET starts == SectionStarts(content)
        sections == SplitIntoSections(content)
    IN  /\ FlattenSeq(sections) = content
        /\ \A s \in 1..Len(starts) : SameBlocks(sections[s], content, starts[s])

\* Unless stripping changes what a section begins with, the page is served with the
\* code and the sections it was written with.
ServedAsWritten(content) ==
    LET sections == SplitIntoSections(content)
        served == Served(content)
    IN  (\A s \in 1..Len(sections) : Stripped(Tail(sections[s])) = Tail(sections[s])) =>
            /\ Len(served) = Len(content) /\ SameBlocks(served, content, 1)
            /\ HeadingTitles(served) = HeadingTitles(content)

\* What is listed can be asked for: it is a part of the page that begins with the
\* title, and has the same code.
TitlesRoundTrip(content) ==
    \A name \in HeadingTitles(content) :
        LET section == ExtractSection(content, name)
        IN  \E from \in 1..Len(content) :
                /\ IsHeading(content[from]) /\ content[from].name = name
                /\ section # <<>> /\ section = SubSeq(content, from, from - 1 + Len(section))
                /\ SameBlocks(section, content, from)
=============================================================================
