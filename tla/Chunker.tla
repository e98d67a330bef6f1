------------------------------- MODULE Chunker -------------------------------
(***************************************************************************)
(* TextChunker of src/library: how a text is cut into passages.            *)
(*                                                                         *)
(* A text is a sequence of paragraphs, a paragraph the sequence of the     *)
(* lengths of its sentences.  The characters of the units are numbered     *)
(* from 0; a buffer or a chunk is the interval <<from, to>> of the numbers *)
(* from .. to - 1, and only the newline after a paragraph is blank.        *)
(***************************************************************************)
EXTENDS Integers, SequencesExt

CONSTANTS ChunkSize, ChunkOverlap    (* config.chunk_size, chunk_overlap       *)

ASSUME ChunkAssumption == ChunkSize \in Int /\ ChunkOverlap \in Int

Larger(a, b) == IF a > b THEN a ELSE b
Smaller(a, b) == IF a < b THEN a ELSE b

Window == Larger(ChunkSize, 1)
Overlap == Smaller(Larger(ChunkOverlap, 0), Window - 1)

NewLine == [length |-> 1, blank |-> TRUE]
Sentence(n) == [length |-> n, blank |-> FALSE]

(* A sentence longer than the window is cut hard, the rest is a unit.         *)
Cut(n) ==
  [i \in 1..(n \div Window) |-> Sentence(Window)]
  \o (IF n % Window = 0 THEN <<>> ELSE <<Sentence(n % Window)>>)

Units(text) ==
  FlattenSeq([p \in DOMAIN text |->
                FlattenSeq([s \in DOMAIN text[p] |-> Cut(text[p][s])]) \o <<NewLine>>])

(* One turn of the loop of split: done are the chunks so far, from .. to the
   buffer.  A buffer the unit would overflow becomes a chunk and leaves its
   tail behind.                                                               *)
Pack(acc, u) ==
  IF acc.to > acc.from /\ acc.to - acc.from + u.length > Window
  THEN [done |-> Append(acc.done, <<acc.from, acc.to>>),
        from |-> Larger(acc.from, acc.to - Overlap), to |-> acc.to + u.length]
  ELSE [acc EXCEPT !.to = @ + u.length]

(* The characters of a text that are no newline.                              *)
Ends(units) == [i \in 0..Len(units) |-> FoldLeft(LAMBDA n, u : n + u.length, 0, SubSeq(units, 1, i))]
Inked(text) ==
  LET units == Units(text)
      ends == Ends(units)
  IN UNION {ends[i - 1] .. (ends[i] - 1) : i \in {j \in DOMAIN units : ~units[j].blank}}

Within(piece, ink) == {n \in ink : piece[1] <= n /\ n < piece[2]}
Strip(piece, ink) == LET kept == Within(piece, ink) IN <<Min(kept), Max(kept) + 1>>

(* split: what is left in the buffer is the last chunk; a blank one is none.  *)
Split(text) ==
  LET packed == FoldLeft(Pack, [done |-> <<>>, from |-> 0, to |-> 0], Units(text))
      ink == Inked(text)
      pieces == SelectSeq(Append(packed.done, <<packed.from, packed.to>>),
                          LAMBDA piece : Within(piece, ink) # {})
  IN [i \in DOMAIN pieces |-> Strip(pieces[i], ink)]

(* What the passages of a text are for: none is longer than the window and the
   overlap (test_rag.py:49), no character is lost, and what two passages share
   is no more than the overlap.                                               *)
Passages(text, pieces) ==
  /\ \A i \in DOMAIN pieces : pieces[i][2] - pieces[i][1] \in 1..(Window + Overlap)
  /\ \A n \in Inked(text) : \E i \in DOMAIN pieces : n \in pieces[i][1]..(pieces[i][2] - 1)
  /\ \A i \in 2..Len(pieces) :
       pieces[i - 1][1] <= pieces[i][1] /\ pieces[i - 1][2] - pieces[i][1] <= Overlap

=============================================================================
