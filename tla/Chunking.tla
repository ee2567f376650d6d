------------------------------ MODULE Chunking ------------------------------
(***************************************************************************)
(* How a text becomes chunks (services/ingest): code by definitions or by  *)
(* lines (github_ingest.py), a documentation section by paragraphs         *)
(* (docs_crawler.py), and the line numbers a code chunk is given.          *)
(*                                                                         *)
(* A text is the length of its units (lines, or paragraphs) and which of   *)
(* them begin a definition.  A chunk is always a piece of the text as it   *)
(* stands, so it is the interval of offsets [from, to).                    *)
(***************************************************************************)
EXTENDS Lists, Integers, SequencesExt

CONSTANTS CharsPerToken, MaxTokens, OverlapTokens

ASSUME ChunkingAssumption ==
    CharsPerToken \in Nat \ {0} /\ MaxTokens \in Nat \ {0} /\ OverlapTokens \in Nat

MaxChars == MaxTokens * CharsPerToken
OverlapChars == OverlapTokens * CharsPerToken
EstimateTokens(length) == length \div CharsPerToken

Smaller(a, b) == IF a <= b THEN a ELSE b
Larger(a, b) == IF a >= b THEN a ELSE b

\* A text laid out: where its units begin and end, `sep` characters apart, the
\* first after one that ends at -sep.
Layout(text, sep) ==
    LET end[i \in 0..Len(text.lens)] == IF i = 0 THEN -sep ELSE end[i - 1] + sep + text.lens[i]
    IN  [n |-> Len(text.lens), end |-> end, sep |-> sep, boundary |-> text.boundary]

Start(t, i) == t.end[i - 1] + t.sep
End(t, i) == t.end[i]
Size(t) == IF t.n = 0 THEN 0 ELSE t.end[t.n]
Piece(t, i, j) == [from |-> Start(t, i), to |-> End(t, j)]
Length(c) == c.to - c.from

-----------------------------------------------------------------------------
\* The first unit of the overlap kept from units first..last: as many of the
\* last ones as fit; last + 1 for none.
OverlapFirst(t, first, last) ==
    CHOOSE j \in first..last + 1 :
        /\ j <= last => End(t, last) - Start(t, j) + t.sep <= OverlapChars
        /\ \A k \in first..j - 1 : End(t, last) - Start(t, k) + t.sep > OverlapChars

AddUnit_OverlapOnly(t, acc, i) ==   \* mutant: the unit that did not fit is not kept
    IF acc.first < i /\ End(t, i - 1) - Start(t, acc.first) + (End(t, i) - Start(t, i)) + t.sep > MaxChars
    THEN [chunks |-> Append(acc.chunks, Piece(t, acc.first, i - 1)), first |-> i + 1]
    ELSE acc

\* One unit into the buffer, which is flushed first when the unit does not fit.
AddUnit(t, acc, i) ==
    IF acc.first < i /\ End(t, i - 1) - Start(t, acc.first) + (End(t, i) - Start(t, i)) + t.sep > MaxChars
    THEN [chunks |-> Append(acc.chunks, Piece(t, acc.first, i - 1)),
          first |-> OverlapFirst(t, acc.first, i - 1)]
    ELSE acc

ChunkByUnits(t) ==
    LET buffer[i \in 0..t.n] == IF i = 0 THEN [chunks |-> <<>>, first |-> 1] ELSE AddUnit(t, buffer[i - 1], i)
        last == buffer[t.n]
    IN  IF last.first > t.n THEN last.chunks ELSE Append(last.chunks, Piece(t, last.first, t.n))

\* The segments: from each definition to the next, the preamble with the first.
Segments(t) ==
    LET starts == InOrder(t.boundary)
    IN  [j \in 1..Len(starts) |->
            [from |-> IF j = 1 THEN 0 ELSE Start(t, starts[j]),
             to |-> IF j < Len(starts) THEN Start(t, starts[j + 1]) ELSE Size(t)]]

\* Adjacent segments are merged while they fit.
AddSegment(merged, s) ==
    IF merged # <<>> /\ EstimateTokens(s.to - Last(merged).from) <= MaxTokens
    THEN Append(Front(merged), [from |-> Last(merged).from, to |-> s.to])
    ELSE Append(merged, s)

MergeSegments(segments) ==
    LET merged[k \in 0..Len(segments)] == IF k = 0 THEN <<>> ELSE AddSegment(merged[k - 1], segments[k])
    IN  merged[Len(segments)]

\* Each chunk but the first begins with the end of the one before it.
ChunkByBoundaries(t) ==
    LET merged == MergeSegments(Segments(t))
    IN  [i \in 1..Len(merged) |->
            IF i = 1 THEN merged[i]
            ELSE [from |-> Larger(merged[i - 1].from, merged[i].from - OverlapChars), to |-> merged[i].to]]

ChunkCode(text, preferBoundaries) ==
    LET t == Layout(text, 0)
    IN  IF EstimateTokens(Size(t)) <= MaxTokens THEN <<[from |-> 0, to |-> Size(t)]>>
        ELSE IF preferBoundaries /\ t.boundary # {} THEN ChunkByBoundaries(t)
        ELSE ChunkByUnits(t)

\* A section of a page; its paragraphs are two characters apart.
ChunkSection(text) ==
    LET t == Layout(text, 2)
    IN  IF EstimateTokens(Size(t)) <= MaxTokens
        THEN IF Size(t) > 0 THEN <<[from |-> 0, to |-> Size(t)]>> ELSE <<>>
        ELSE ChunkByUnits(t)

\* The line numbers of the chunks, counted on from chunk to chunk.
LinesOf(t, c) ==
    IF Length(c) = 0 THEN {} ELSE {i \in 1..t.n : Start(t, i) < c.to /\ c.from < End(t, i)}

NextRange(t, ranges, c) ==
    LET start == Larger(1, IF ranges = <<>> THEN 1 ELSE Last(ranges).to + 1)
        lines == Larger(1, Cardinality(LinesOf(t, c)))
    IN  Append(ranges, [from |-> start, to |-> Smaller(start + lines - 1, t.n)])

ChunkLineRanges(text, chunks) ==
    LET t == Layout(text, 0)
        ranges[k \in 0..Len(chunks)] == IF k = 0 THEN <<>> ELSE NextRange(t, ranges[k - 1], chunks[k])
    IN  ranges[Len(chunks)]

-----------------------------------------------------------------------------
\* What chunks must be: together they are the text but for what stands between
\* two units, each goes on where the one before it ended or within the overlap
\* before that, and each adds something.
Covers(chunks, t) ==
    /\ chunks = <<>> => Size(t) = 0
    /\ chunks # <<>> => chunks[1].from = 0 /\ Last(chunks).to = Size(t)
    /\ \A i \in 1..Len(chunks) - 1 :
          /\ chunks[i + 1].from <= chunks[i].to + t.sep /\ chunks[i].to < chunks[i + 1].to
          /\ chunks[i].to - chunks[i + 1].from <= OverlapChars

\* What a chunk adds is longer than the limit only if nothing could be cut off it.
LongOnlyUncut(chunks, cuts, limit) ==
    \A i \in 1..Len(chunks) :
        LET old == IF i = 1 THEN 0 ELSE chunks[i - 1].to
        IN  chunks[i].to - old > limit => \A c \in cuts : c <= old \/ chunks[i].to <= c

\* Where a text may be cut: after a unit, or before a definition but the first.
UnitCuts(t) == {End(t, i) : i \in 1..t.n}
DefinitionCuts(t) == {Start(t, i) : i \in {b \in t.boundary : \E a \in t.boundary : a < b}}
=============================================================================
