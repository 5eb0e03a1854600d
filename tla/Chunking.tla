------------------------------ MODULE Chunking ------------------------------
(***************************************************************************)
(* ChunkService.chunk: the windows over a document's text, one step per    *)
(* round of the loop.  Of a character it matters whether strip() removes   *)
(* it at the ends of a chunk; of a chunk, which part of the text it is.    *)
(***************************************************************************)
EXTENDS Integers, Sequences

CONSTANTS
    Texts,       \* what _normalize may return: TRUE is a character, FALSE a blank
    Sizes,       \* values of chunk_size
    Overlaps     \* values of overlap

\* _normalize strips the text as a whole.
Normalized(t) == t # <<>> => t[1] /\ t[Len(t)]

ASSUME ChunkAssumption ==
    /\ Texts \subseteq Seq(BOOLEAN) /\ \A t \in Texts : Normalized(t)
    /\ Sizes \subseteq Int /\ Overlaps \subseteq Int

VARIABLES text, size, overlap,
    start,       \* characters before the next window
    chunks,      \* their first and last characters, by chunk_index
    outcome

chunkVars == <<text, size, overlap, start, chunks, outcome>>

ChunkInit ==
    /\ text \in Texts /\ size \in Sizes /\ overlap \in Overlaps
    /\ start = 0 /\ chunks = <<>> /\ outcome = "called"

Accepted == size > 0 /\ overlap >= 0 /\ overlap < size

Enter ==
    /\ outcome = "called"
    /\ outcome' = IF ~Accepted THEN "refused"
                  ELSE IF text = <<>> THEN "returned" ELSE "looping"
    /\ UNCHANGED <<text, size, overlap, start, chunks>>

End == IF start + size <= Len(text) THEN start + size ELSE Len(text)

\* chunk_text is what lies between the first and the last of these.
Marks == {i \in (start + 1)..End : text[i]}

Stripped ==
    {[from |-> i, to |-> j] : i \in {k \in Marks : \A m \in Marks : k <= m},
                              j \in {k \in Marks : \A m \in Marks : m <= k}}

\* Mutant: windows do not overlap.
NextStartAtEnd == End

NextStart == End - overlap

\* The while condition: NextStart never gets to the end of the text.
Window ==
    /\ outcome = "looping" /\ start < Len(text)
    /\ IF Marks = {} THEN UNCHANGED chunks
       ELSE \E chunk \in Stripped : chunks' = Append(chunks, chunk)
    /\ IF End >= Len(text) THEN outcome' = "returned" /\ UNCHANGED start
                           ELSE start' = NextStart /\ UNCHANGED outcome
    /\ UNCHANGED <<text, size, overlap>>

ChunkNext == Enter \/ Window

ChunkSpec == ChunkInit /\ [][ChunkNext]_chunkVars
-----------------------------------------------------------------------------
Span == [from: 1..Len(text), to: 1..Len(text)]

ChunkTypeOK ==
    /\ text \in Texts /\ size \in Sizes /\ overlap \in Overlaps
    /\ start \in Nat /\ chunks \in Seq(Span)
    /\ outcome \in {"called", "refused", "looping", "returned"}
    /\ outcome = "looping" => Accepted /\ start < Len(text)

\* A passage that is at most one character longer than the overlap is whole
\* in some chunk, wherever the windows fall; in particular no character is
\* lost.  Each chunk fits the size, and the loop advances: it makes no more
\* chunks than it has passed characters.
PassageKept(i, j) == \E k \in DOMAIN chunks : chunks[k].from <= i /\ j <= chunks[k].to

PassagesKept ==
    /\ \A k \in DOMAIN chunks : chunks[k].to - chunks[k].from < size
    /\ Len(chunks) <= start + 1
    /\ outcome = "returned" =>
          \A i, j \in DOMAIN text :
             text[i] /\ text[j] /\ i <= j /\ j - i <= overlap => PassageKept(i, j)
=============================================================================
