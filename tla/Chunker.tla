------------------------------ MODULE Chunker ------------------------------
(***************************************************************************)
(* The chunking strategies of ingestion/chunker.py.  A text is a sequence  *)
(* of blocks, each a paragraph of its own: a heading, a numbered item or   *)
(* clause, or plain; the regular expressions that tell them apart are left *)
(* out.  A block counts its characters.  The tokens of a string are a      *)
(* quarter of its characters, rounded down: joined blocks may have more of *)
(* them than the blocks have one by one.                                   *)
(***************************************************************************)
EXTENDS Integers, SequencesExt

CONSTANTS
    Short,        \* SHORT_DOC_THRESHOLD
    MaxTokens,    \* TARGET_TOKENS
    Overlap       \* OVERLAP_TOKENS

ASSUME ChunkerAssumption ==
    /\ Short \in Nat /\ MaxTokens \in Nat /\ Overlap \in Nat
    /\ Short <= MaxTokens /\ Overlap < MaxTokens

\* A text: [tables, blocks, strategy]; blocks are [kind, chars].
Strategies == {"paragraph_aware", "list_aware", "clause_aware",
               "heading_aware", "table_per_chunk"}
Kinds == {"plain", "numbered", "heading"}

IsText(text) ==
    /\ text.blocks \in Seq([kind : Kinds, chars : Nat \ {0}])
    /\ text.strategy \in Strategies /\ text.tables \in Nat

\* A segment is a sequence of positions of blocks.
Run(from, to) == [i \in 1..(to - from + 1) |-> from + i - 1]
All(blocks) == Run(1, Len(blocks))
Each(segment) == [i \in 1..Len(segment) |-> <<segment[i]>>]

\* The characters of a segment as one string.  Blocks stand a blank line apart;
\* before a numbered one there may be less (`item`).
BlankLine == 2

Length(blocks, segment, item) ==
    LET gap(n) == IF n = 1 THEN 0
                  ELSE IF blocks[segment[n]].kind = "numbered" THEN item
                  ELSE BlankLine
        upTo[n \in 0..Len(segment)] ==
            IF n = 0 THEN 0 ELSE upTo[n - 1] + gap(n) + blocks[segment[n]].chars
    IN  upTo[Len(segment)]

Estimate(chars) == chars \div 4

Tokens(blocks, segment) == Estimate(Length(blocks, segment, BlankLine))

\* Segments, tokens[n] of the n-th, are collected until the next one would be
\* too much.  The last one collected is repeated in the next chunk if it has no
\* more than `carry`.
Collect(segments, tokens, carry, n, so) ==
    LET again == tokens[n - 1] <= carry
    IN  IF so.current = <<>> \/ so.tokens + tokens[n] <= MaxTokens
        THEN [so EXCEPT !.current = @ \o segments[n], !.tokens = @ + tokens[n]]
        ELSE [full |-> Append(so.full, so.current),
              current |-> (IF again THEN segments[n - 1] ELSE <<>>) \o segments[n],
              tokens |-> (IF again THEN tokens[n - 1] ELSE 0) + tokens[n]]

Pack(segments, tokens, carry) ==
    LET after[n \in 0..Len(segments)] ==
            IF n = 0 THEN [full |-> <<>>, current |-> <<>>, tokens |-> 0]
            ELSE Collect(segments, tokens, carry, n, after[n - 1])
        end == after[Len(segments)]
    IN  IF end.current = <<>> THEN end.full ELSE Append(end.full, end.current)

NoCarry == -1

\* What the loops take the segments to be: each by itself.
PackAll(blocks, segments, carry) ==
    Pack(segments, [n \in 1..Len(segments) |-> Tokens(blocks, segments[n])], carry)

\* The sections that begin at blocks of a kind; what precedes the first is one.
Sections(blocks, kind) ==
    LET upTo[n \in 0..Len(blocks)] ==
            IF n = 0 THEN <<>>
            ELSE IF n = 1 \/ blocks[n].kind = kind THEN Append(upTo[n - 1], <<n>>)
            ELSE Append(Front(upTo[n - 1]), Append(Last(upTo[n - 1]), n))
    IN  upTo[Len(blocks)]

Has(blocks, kind) == \E i \in 1..Len(blocks) : blocks[i].kind = kind

\* Mutant: what is carried over is not measured.
ParagraphsCarryAll(blocks) == PackAll(blocks, Each(All(blocks)), 1000)

Paragraphs(blocks) == PackAll(blocks, Each(All(blocks)), Overlap)

\* Mutant: the items are packed one by one.
ListItems(blocks) ==
    IF Has(blocks, "numbered") THEN PackAll(blocks, Each(All(blocks)), NoCarry)
    ELSE Paragraphs(blocks)

\* An item reaches to the next one or to the end of the text, and adjacent
\* items are merged: from the first item on the text is one list block, with a
\* newline between items.
List(blocks) ==
    IF Has(blocks, "numbered")
    THEN LET first == CHOOSE i \in 1..Len(blocks) :
                         /\ blocks[i].kind = "numbered"
                         /\ \A j \in 1..(i - 1) : blocks[j].kind # "numbered"
             before == Run(1, first - 1)
             list == Run(first, Len(blocks))
             merged == Estimate(Length(blocks, list, 1))
         IN  IF before = <<>> THEN Pack(<<list>>, <<merged>>, NoCarry)
             ELSE Pack(<<before, list>>, <<Tokens(blocks, before), merged>>, NoCarry)
    ELSE Paragraphs(blocks)

Clauses(blocks) ==
    IF Has(blocks, "numbered")
    THEN PackAll(blocks, Sections(blocks, "numbered"), NoCarry)
    ELSE Paragraphs(blocks)

\* Sections that are too long are split like paragraphs.
Headings(blocks) ==
    IF Has(blocks, "heading")
    THEN FlattenSeq([s \in 1..Len(Sections(blocks, "heading")) |->
             LET section == Sections(blocks, "heading")[s]
             IN  IF Tokens(blocks, section) > MaxTokens
                 THEN PackAll(blocks, Each(section), Overlap)
                 ELSE <<section>>])
    ELSE Paragraphs(blocks)

Split(text) ==
    IF Tokens(text.blocks, All(text.blocks)) <= Short THEN <<All(text.blocks)>>
    ELSE CASE text.strategy = "list_aware" -> List(text.blocks)
           [] text.strategy = "clause_aware" -> Clauses(text.blocks)
           [] text.strategy = "heading_aware" -> Headings(text.blocks)
           [] OTHER -> Paragraphs(text.blocks)

\* chunk_document, numbered from 0.  table_per_chunk puts the tables first and
\* drops an empty text.
Chunks(text) ==
    LET tables == IF text.strategy = "table_per_chunk" THEN text.tables ELSE 0
        texts == IF text.strategy = "table_per_chunk" /\ text.blocks = <<>>
                 THEN <<>> ELSE Split(text)
    IN  [i \in 1..(tables + Len(texts)) |->
            IF i <= tables THEN [index |-> i - 1, table |-> i, parts |-> <<>>]
            ELSE [index |-> i - 1, table |-> 0, parts |-> texts[i - tables]]]

-----------------------------------------------------------------------------
(* What a chunking of a text must be *)

\* In order and without gaps: a chunk begins after the last block of the one
\* before, or with it.
NothingMissing(text, chunks) ==
    LET texts == {n \in 1..Len(chunks) : chunks[n].table = 0 /\ chunks[n].parts # <<>>}
        blocks == Len(text.blocks)
    IN  /\ blocks > 0 =>
             \E n, m \in texts :
                 /\ texts \subseteq n..m
                 /\ chunks[n].parts[1] = 1 /\ Last(chunks[m].parts) = blocks
        /\ \A n \in texts :
             LET parts == chunks[n].parts
             IN  /\ \A i \in 1..(Len(parts) - 1) : parts[i + 1] = parts[i] + 1
                 /\ \A m \in texts : m < n /\ (m + 1)..(n - 1) \cap texts = {} =>
                      LET last == Last(chunks[m].parts)
                      IN  parts[1] \in {last, last + 1} /\ Last(parts) > last
        /\ text.strategy = "table_per_chunk" =>
             {c.table : c \in ToSet(chunks)} \ {0} = 1..text.tables

\* Adjacent numbered blocks stay together in list_aware.
ListsWhole(text, chunks) ==
    text.strategy = "list_aware" =>
        \A i \in 1..(Len(text.blocks) - 1) :
            text.blocks[i].kind = "numbered" /\ text.blocks[i + 1].kind = "numbered" =>
                \E c \in ToSet(chunks) : {i, i + 1} \subseteq ToSet(c.parts)

\* What the loop counts as MaxTokens may have, of each block, three characters
\* its estimate drops and the blank line after it.
Fits(blocks, parts) ==
    Length(blocks, parts, BlankLine) <= 4 * MaxTokens + (3 + BlankLine) * Len(parts)

\* Where text is split by paragraphs, a chunk exceeds that only if it is one
\* block, or a block with one before it that is within the overlap.
SizesBounded(text, chunks) ==
    text.strategy \in {"paragraph_aware", "heading_aware", "table_per_chunk"} =>
        \A c \in ToSet(chunks) :
            \/ Fits(text.blocks, c.parts)
            \/ Len(c.parts) = 1
            \/ /\ Len(c.parts) = 2
               /\ Estimate(text.blocks[c.parts[1]].chars) <= Overlap
=============================================================================
