------------------------------- MODULE Chunker -------------------------------
(***************************************************************************)
(* How a body is cut into the chunks that are embedded and stored          *)
(* (memory/service/markdown_chunk.go, memory/service/chunk.go).            *)
(*                                                                         *)
(* A line is [level, words]: level 0 is text, 1 to 6 a heading whose title *)
(* is its words.  A word stands for its length in runes; what separates    *)
(* two words counts one.  A chunk is [path, carried, words]: the headings  *)
(* above it, the runes it repeats of the chunk before, and its own words.  *)
(***************************************************************************)
EXTENDS Integers, Sequences, SequencesExt, Functions

Size(words) == IF words = << >> THEN 0 ELSE SumFunctionOnSet(words, DOMAIN words) + Len(words) - 1

\* Words as many as fit, and always one.
ChunkText(words, maxRunes) ==
  LET add(parts, word) ==
        IF parts # << >> /\ Size(Last(parts)) + 1 + word <= maxRunes
        THEN [parts EXCEPT ![Len(parts)] = Append(@, word)]
        ELSE Append(parts, <<word>>)
  IN  FoldLeft(add, << >>, words)

\* The stack is cut back to the parent's level, filled up to it with nothing,
\* and the heading put on top.
Pushed(stack, heading) ==
  LET parent == heading.level - 1
      cut == SubSeq(stack, 1, IF parent < Len(stack) THEN parent ELSE Len(stack))
  IN  cut \o [i \in 1..parent - Len(cut) |-> << >>] \o <<heading.words>>

\* Text up to the next heading, under the headings above it; a heading with no
\* text of its own gives no section.
splitSections(doc) ==
  LET flushed(s) == IF s.body = << >> THEN s.sections
                    ELSE Append(s.sections, [headings |-> s.stack, body |-> s.body])
      read(s, line) ==
        IF line.level = 0 THEN [s EXCEPT !.body = @ \o line.words]
        ELSE [sections |-> flushed(s), stack |-> Pushed(s.stack, line), body |-> << >>]
  IN  flushed(FoldLeft(read, [sections |-> << >>, stack |-> << >>, body |-> << >>], doc))

\* At most so much of the part before, and all of it when it is shorter; where
\* a sentence ends it is less, half at least.
overlapFrom(previous, runes) == IF Size(previous) <= runes THEN Size(previous) ELSE runes

present(headings) == SelectSeq(headings, LAMBDA h : h # << >>)

chunksOf(section, maxRunes, overlap) ==
  LET parts == ChunkText(section.body, maxRunes) IN
  [i \in DOMAIN parts |->
     [path |-> present(section.headings), words |-> parts[i],
      carried |-> IF i = 1 THEN 0 ELSE overlapFrom(parts[i - 1], overlap)]]

chunkMarkdown(doc, maxRunes, overlap) ==
  LET sections == splitSections(doc) IN
  FlattenSeq([i \in DOMAIN sections |-> chunksOf(sections[i], maxRunes, overlap)])

\* A body of headings alone is cut as plain text, the marks of its headings in it.
ChunkContent(doc, maxRunes, overlap) ==
  LET chunks == chunkMarkdown(doc, maxRunes, overlap)
      plain == ChunkText(FlattenSeq([i \in DOMAIN doc |-> <<doc[i].level>> \o doc[i].words]), maxRunes)
  IN  IF chunks # << >> THEN chunks
      ELSE [i \in DOMAIN plain |-> [path |-> << >>, carried |-> 0, words |-> plain[i]]]

\* "> " before the path, " > " between its headings, a blank line after it.
Breadcrumb(path) ==
  IF path = << >> THEN 0
  ELSE 4 + SumFunctionOnSet([i \in DOMAIN path |-> Size(path[i])], DOMAIN path) + 3 * (Len(path) - 1)

\* The runes stored for a chunk.
Stored(chunk) ==
  Breadcrumb(chunk.path) + Size(chunk.words) + (IF chunk.carried > 0 THEN chunk.carried + 1 ELSE 0)
=============================================================================
