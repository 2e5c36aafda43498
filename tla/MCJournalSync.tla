---------------------------- MODULE MCJournalSync ----------------------------
(* A body of one chunk and one of two, as the chunker cuts them; and what the *)
(* chunker keeps of every small body.                                       *)
EXTENDS JournalSync, TLC

CONSTANTS a, s, about, short, long

C == INSTANCE Chunker

Line(words) == [level |-> 0, words |-> words]
Heading(level, title) == [level |-> level, words |-> <<title>>]

MCChunks == (short :> 1) @@ (long :> 2)

\* The two bodies, in so many chunks as the chunker cuts.
ASSUME BodiesOfTheRun ==
  /\ Len(C!ChunkContent(<<Line(<<3, 2>>)>>, 6, 2)) = MCChunks[short]
  /\ Len(C!ChunkContent(<<Heading(1, 2), Line(<<3, 2, 4>>)>>, 6, 2)) = MCChunks[long]

Lines == {Heading(l, 10 + l) : l \in 1..3} \cup {Line(<<3>>), Line(<<4, 2, 7>>)}
Bodies == C!SeqOf(Lines, 5)
WordsOf(doc) == C!FlattenSeq([i \in DOMAIN doc |-> IF doc[i].level = 0 THEN doc[i].words ELSE << >>])

\* Every word of a body is in one chunk, in its order; a chunk's own words fit
\* the limit unless it is one word that does not (ChunkContent).
ASSUME NoWordIsLost ==
  \A doc \in Bodies, limit \in {3, 6} :
    LET chunks == C!ChunkContent(doc, limit, 2) IN
    /\ WordsOf(doc) # << >> =>
         C!FlattenSeq([i \in DOMAIN chunks |-> chunks[i].words]) = WordsOf(doc)
    /\ doc # << >> => chunks # << >>
    /\ \A i \in DOMAIN chunks : C!Size(chunks[i].words) <= limit \/ Len(chunks[i].words) = 1

\* The headings a line is under: each with no other as high or higher between.
Above(doc, i) ==
  LET over == {j \in 1..i : /\ doc[j].level > 0
                            /\ \A k \in j + 1..i : doc[k].level > 0 => doc[k].level > doc[j].level}
      inOrder == C!SetToSortSeq(over, <)
  IN  [n \in DOMAIN inOrder |-> doc[inOrder[n]].words]

\* A section's path is the headings it is under, whatever levels the document
\* skips or starts at (splitSections, newChunk).
ASSUME PathIsAncestors ==
  \A doc \in Bodies :
    LET opens == {i \in DOMAIN doc : doc[i].level = 0 /\ (i > 1 => doc[i - 1].level > 0)}
        first == C!SetToSortSeq(opens, <)
        sections == C!splitSections(doc)
    IN  /\ Len(sections) = Len(first)
        /\ \A n \in DOMAIN first : C!present(sections[n].headings) = Above(doc, first[n])

\* What is stored for a chunk can be longer than the limit it was cut to, by
\* its path and what it repeats; entries are cut to that limit again when they
\* are read (domain/tier.go, MaxBodyRunes), so the end of such a chunk is stored and embedded
\* and never shown, which chunk.go:8 says the shared limit is there to prevent.
ASSUME StoredBeyondTheCap ==
  LET chunks == C!ChunkContent(<<Heading(1, 3), Line(<<3, 2, 4>>)>>, 6, 2) IN
  \E i \in DOMAIN chunks : C!Stored(chunks[i]) > 6
============================================================================
