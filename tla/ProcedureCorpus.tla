--------------------------- MODULE ProcedureCorpus ---------------------------
(***************************************************************************)
(* How a procedure manual becomes chunks: the parsing of one manual by     *)
(* ProcedureCorpusBuilder (services/procedure_corpus.py).                  *)
(*                                                                         *)
(* A text is the sequence of the kinds of its lines.  A line has length 1, *)
(* and heading titles, which differ from one another, are named by their   *)
(* line.  The parser treats a line by its kind and its neighbours only.    *)
(***************************************************************************)
EXTENDS Integers, FiniteSets, SequencesExt

CONSTANT SoftMax       \* soft_max_chunk_chars

ASSUME SoftMaxAssumption == SoftMax \in Nat \ {0}

\* Headings and their levels.  "meta" is the title Procedure metadata, at
\* level 2, and "Meta" the same title in other letters.
Level == [h1 |-> 1, h2 |-> 2, h3 |-> 3, meta |-> 2, Meta |-> 2]
Headings == DOMAIN Level

\* Fence lines: their marker, its length, and whether an info string follows.
Fence ==
  [ticks     |-> [marker |-> "tick", length |-> 3, info |-> FALSE],
   json      |-> [marker |-> "tick", length |-> 3, info |-> TRUE],
   longticks |-> [marker |-> "tick", length |-> 4, info |-> FALSE],
   tildes    |-> [marker |-> "tilde", length |-> 3, info |-> FALSE]]
Fences == DOMAIN Fence

\* The lines that go on with a block, by the line it starts with: quote lines,
\* table rows, list items and what is indented, and for a paragraph what
\* starts no other block.  An indented quote line ("iquote") is a quote line.
Quotes == {"quote", "iquote"}
Plain  == {"text", "payload", "indent"}
Joins  == [quote |-> Quotes, iquote |-> Quotes, table |-> {"table"},
           list |-> {"list", "indent", "iquote"}, text |-> Plain, payload |-> Plain,
           indent |-> Plain, hr |-> {}]

Kinds == {"blank"} \cup DOMAIN Joins \cup Fences \cup Headings

\* normalize_manual_text: a line of spaces is empty, and empty lines at the end
\* are dropped.
Normalized(raw) ==
  LET lines == [i \in DOMAIN raw |-> IF raw[i] = "spaces" THEN "blank" ELSE raw[i]]
      used  == {i \in DOMAIN lines : lines[i] # "blank"}
  IN  SubSeq(lines, 1, IF used = {} THEN 0 ELSE Max(used))

----------------------------------------------------------------------------
(* _extract_metadata *)

Ticks == Fences \ {"tildes"}

\* The match of METADATA_JSON_FENCE_RE at such a heading, if there is one: the
\* first json fence before the next heading below level 1, up to a later line
\* that begins with three backticks.
MetaLines(text) == {i \in DOMAIN text : text[i] \in {"meta", "Meta"}}

MetadataAt(text, i) ==
  {f \in [open : {l \in i + 1 .. Len(text) : text[l] = "json"},
          close : {l \in i + 3 .. Len(text) : text[l] \in Ticks}] :
     /\ \A l \in i + 1 .. f.open - 1 :
          text[l] # "json" /\ (text[l] \in Headings => Level[text[l]] = 1)
     /\ f.close > f.open + 1
     /\ \A l \in f.open + 2 .. f.close - 1 : text[l] \notin Ticks}

\* Exactly one match in the text, and it is the JSON of the metadata.
HasMetadata(text) ==
  \E i \in MetaLines(text) : \E f \in MetadataAt(text, i) :
    /\ \A j \in MetaLines(text) : j < i \/ j > f.close => MetadataAt(text, j) = {}
    /\ \E l \in f.open + 1 .. f.close - 1 : text[l] = "payload"
    /\ \A l, m \in f.open + 1 .. f.close - 1 :
         text[l] # "blank" /\ text[m] # "blank" => l = m

----------------------------------------------------------------------------
(* _tokenize_blocks, on the lines first..last of a section *)

Closes(open, line) ==
  /\ line \in Fences
  /\ Fence[line].marker = Fence[open].marker
  /\ Fence[line].length >= Fence[open].length
  /\ ~ Fence[line].info

\* The last line of the block that starts at i.  A fence that is not closed
\* goes to the end of the section; a quote and a list pass over a blank line
\* when the next one goes on with them.
BlockEnd(text, i, last) ==
  LET closes == {l \in i + 1 .. last : Closes(text[i], text[l])}
      GoesOn(l) == \/ text[l] \in Joins[text[i]]
                   \/ /\ text[l] = "blank" /\ text[i] \in Quotes \cup {"list"}
                      /\ l < last /\ text[l + 1] \in Joins[text[i]]
  IN  IF text[i] \notin Fences
      THEN Max({j \in i .. last : \A l \in i + 1 .. j : GoesOn(l)})
      ELSE IF closes # {} THEN Min(closes)
      ELSE Max({l \in i .. last : text[l] # "blank"})

Blocks(text, first, last) ==
  LET from[i \in first .. last + 1] ==
        IF i > last THEN <<>>
        ELSE IF text[i] = "blank" THEN from[i + 1]
        ELSE LET end == BlockEnd(text, i, last)
             IN  <<[first |-> i, last |-> end]>> \o from[end + 1]
  IN  from[first]

----------------------------------------------------------------------------
(* _parse_sections *)

NestKeepingSiblings(text, path, h) ==
  LET kept == {n \in 0 .. Len(path) : n > 0 => Level[text[path[n]]] <= Level[text[h]]}
  IN  Append(SubSeq(path, 1, Max(kept)), h)

\* The heading h takes from the stack those of its level and below.
Nest(text, path, h) ==
  LET kept == {n \in 0 .. Len(path) : n > 0 => Level[text[path[n]]] < Level[text[h]]}
  IN  Append(SubSeq(path, 1, Max(kept)), h)

\* The stack after each line.
Paths(text) ==
  LET path[l \in 0 .. Len(text)] ==
        IF l = 0 THEN <<>>
        ELSE IF text[l] \in Headings THEN Nest(text, path[l - 1], l)
        ELSE path[l - 1]
  IN  path

\* The last line before the next heading after line h.
SectionEnd(text, h) ==
  LET next == {l \in h + 1 .. Len(text) : text[l] \in Headings}
  IN  IF next = {} THEN Len(text) ELSE Min(next) - 1

\* The section of the heading h, 0 for the preamble; that of the metadata has
\* no blocks.
Section(text, h) ==
  [path   |-> Paths(text)[h],
   blocks |-> IF h > 0 /\ text[h] = "meta" THEN <<>>
              ELSE Blocks(text, h + 1, SectionEnd(text, h))]

----------------------------------------------------------------------------
(* _chunk_document, _split_section_content *)

\* The length of blocks joined by empty lines, each line ending in a newline
\* but the last of its block.
JoinedLength(blocks) ==
  FoldLeft(LAMBDA n, b : n + 2 * (b.last - b.first) + 1, 0, blocks) + 2 * (Len(blocks) - 1)

AddUncounted(groups, b) ==
  IF groups # <<>> /\ JoinedLength(Last(groups)) + 2 * (b.last - b.first) + 1 <= SoftMax
  THEN Append(Front(groups), Append(Last(groups), b))
  ELSE Append(groups, <<b>>)

\* Greedily, as many blocks as fit.
Add(groups, b) ==
  IF groups # <<>> /\ JoinedLength(Append(Last(groups), b)) <= SoftMax
  THEN Append(Front(groups), Append(Last(groups), b))
  ELSE Append(groups, <<b>>)

SplitSection(blocks) ==
  IF blocks = <<>> THEN <<>>
  ELSE IF JoinedLength(blocks) <= SoftMax THEN <<blocks>>
  ELSE FoldLeft(Add, <<>>, blocks)

SectionChunks(text, h) ==
  LET s     == Section(text, h)
      parts == SplitSection(s.blocks)
  IN  [n \in DOMAIN parts |-> [path |-> s.path, blocks |-> parts[n]]]

\* The chunks of the preamble and of the section after each heading.
Chunks(text) ==
  FlattenSeq([n \in 1 .. Len(text) + 1 |->
    IF n = 1 \/ text[n - 1] \in Headings THEN SectionChunks(text, n - 1) ELSE <<>>])

----------------------------------------------------------------------------
(* What the chunks of a text should be *)

\* The headings above line l that no later one closed.
Above(text, l) ==
  {g \in 1 .. l : text[g] \in Headings /\
     \A h \in g + 1 .. l : text[h] \in Headings => Level[text[h]] > Level[text[g]]}

Content(text) == {l \in DOMAIN text : text[l] \notin {"blank"} \cup Headings}

\* The lines that are to be searched: all but the metadata's own.
Operational(text) ==
  {l \in Content(text) : Above(text, l) # {} => text[Max(Above(text, l))] # "meta"}

LinesOf(text, chunk) ==
  Content(text) \cap UNION {b.first .. b.last : b \in ToSet(chunk.blocks)}

\* The line of the fence that is open after line l, or 0.
OpenFence(text) ==
  LET open[l \in 0 .. Len(text)] ==
        IF l = 0 THEN 0
        ELSE LET before == open[l - 1]
             IN  IF before = 0 THEN IF text[l] \in Fences THEN l ELSE 0
                 ELSE IF Closes(text[before], text[l]) THEN 0 ELSE before
  IN  open

\* No line that looks like a heading stands inside a fence.
WellFenced(text) ==
  LET open == OpenFence(text)
  IN  \A l \in DOMAIN text : text[l] \in Headings => open[l] = 0

\* Lines that mean something together only: those of a fenced block, and
\* neighbours in a table, a list, a quotation or a paragraph.
Inseparable(text, open, l, m) ==
  \/ \A k \in l .. m - 1 : open[k] # 0
  \/ m = l + 1 /\ open[l] = 0 /\ text[l] = text[m] /\ text[l] \in DOMAIN Joins \ {"hr"}

\* Every operational line is in one chunk, in the order of the text and under
\* the headings that are above it there; a chunk is within the limit or one
\* block; and no fence, table, list, quotation or paragraph is cut.
KeepsText(text, chunks) ==
  LET lines == [n \in DOMAIN chunks |-> LinesOf(text, chunks[n])]
      open  == OpenFence(text)
  IN  /\ UNION ToSet(lines) = Operational(text)
      /\ \A n \in DOMAIN chunks :
           /\ \A l \in lines[n] : Above(text, l) = ToSet(chunks[n].path)
           /\ \A k \in 1 .. n - 1 : \A l \in lines[n], m \in lines[k] : m < l
           /\ JoinedLength(chunks[n].blocks) <= SoftMax \/ Len(chunks[n].blocks) = 1
           /\ WellFenced(text) =>
                \A l \in lines[n], m \in Operational(text) :
                  l < m /\ Inseparable(text, open, l, m) => m \in lines[n]
=============================================================================
