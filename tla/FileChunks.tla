----------------------------- MODULE FileChunks -----------------------------
(***************************************************************************)
(* The chunks of an uploaded file (infra/rag/files.py): how its text is    *)
(* cut into overlapping pieces, which pieces go to the model with a        *)
(* question, and the window in which the reader shows them. Of the text    *)
(* only its length and the places of its newlines are told apart.          *)
(***************************************************************************)
EXTENDS ChunkSizes, Integers, Sequences, FiniteSets, FiniteSetsExt

VARIABLES
  length, breaks, \* the text, trimmed, and the positions of its newlines
  chunks,         \* the pieces so far, from and to (exclusive)
  start, done,    \* where the next piece begins, where the last one ended
  stage,          \* see TypeOK
  budget, chosen, used, \* the pieces taken for a question, and their size
  pending,        \* the pieces to be tried next
  window          \* the first and the last piece the reader shows

text == <<length, breaks>>
selection == <<budget, chosen, used, pending>>
vars == <<text, chunks, start, done, stage, selection, window>>

Piece == [from : Nat, to : Nat]

TypeOK ==
  /\ length \in 1 .. MaxText /\ breaks \subseteq 1 .. length - 2
  /\ chunks \in Seq(Piece) /\ start \in 0 .. length /\ done \in 0 .. length
  /\ stage \in {"cutting", "stored", "spreading", "ranking", "sampling", "asked"}
  /\ budget \in Nat /\ chosen \subseteq DOMAIN chunks
  /\ used \in Nat /\ pending \in Seq(Int) /\ window \in Nat \X Nat

Least(a, b) == IF a < b THEN a ELSE b
Most(a, b)  == IF a < b THEN b ELSE a

Init ==
  /\ length \in 1 .. MaxText /\ breaks \in SUBSET (1 .. length - 2)
  /\ chunks = <<>> /\ start = 0 /\ done = 0 /\ stage = "cutting"
  /\ budget = 0 /\ chosen = {} /\ used = 0 /\ pending = <<>>
  /\ window = <<0, 0>>
-----------------------------------------------------------------------------
(* chunk_text, one turn of its loop per step.                              *)

\* Where a piece ends: with the last newline of the second half of the window,
\* or with the window.
Ends(s) ==
  LET last == Least(s + ChunkChars, length)
      late == {i \in breaks : s + ChunkChars \div 2 < i /\ i < last}
  IN  IF last < length /\ late # {} THEN {i \in late : \A j \in late : j <= i} ELSE {last}

\* Mutant of NextStart: a piece begins where the last one ended.
NextStartAbutting(s, e) == Most(e, s + 1)

NextStart(s, e) == Most(e - Overlap, s + 1)

\* A piece of newlines only is empty once it is trimmed.
Worded(s, e) == \E i \in s .. e - 1 : i \notin breaks

Cut ==
  /\ stage = "cutting"
  /\ \E e \in Ends(start) :
       /\ chunks' = IF Worded(start, e) THEN Append(chunks, [from |-> start, to |-> e])
                                        ELSE chunks
       /\ done' = e
       /\ start' = IF e < length THEN NextStart(start, e) ELSE start
       /\ stage' = IF e < length THEN "cutting" ELSE "stored"
  /\ UNCHANGED <<text, selection, window>>
-----------------------------------------------------------------------------
(* select_file_chunk_indices: what goes with a question. How the pieces    *)
(* rank, and which of them the index finds, is left to the question.       *)

\* The trimmed text of a piece, from its first to its last word.
Body(c) ==
  LET words == {i \in chunks[c].from .. chunks[c].to - 1 : i \notin breaks}
  IN  {i \in chunks[c].from .. chunks[c].to - 1 : \E a, b \in words : a <= i /\ i <= b}
Size(c) == Cardinality(Body(c))
Total   == MapThenSumSet(Size, DOMAIN chunks)

\* Every step-th piece from the first one on.
Spread(first, step) ==
  [k \in 1 .. (Len(chunks) - first) \div step + 1 |-> first + (k - 1) * step]

\* A short file goes whole; a question about all of it starts with a sample.
Ask(left, broad) ==
  /\ stage = "stored" /\ budget' = left
  /\ IF Total <= Least(FullLimit, left)
     THEN chosen' = DOMAIN chunks /\ used' = Total /\ pending' = <<>> /\ stage' = "asked"
     ELSE /\ chosen' = {} /\ used' = 0
          /\ pending' = IF broad
                        THEN <<1>> \o LET step == Most(1, Len(chunks) \div 6)
                                      IN  Spread(1 + step, step)
                        ELSE <<>>
          /\ stage' = "spreading"
  /\ UNCHANGED <<text, chunks, start, done, window>>

\* Mutant of Refused: the size of the piece itself is not counted.
RefusedLate(c) == chosen # {} /\ (used >= budget \/ Cardinality(chosen) >= MaxChosen)

Refused(c) == chosen # {} /\ (used + Size(c) > budget \/ Cardinality(chosen) >= MaxChosen)

\* add: a sample ends with the first piece that is refused, a ranking goes on.
Try ==
  /\ stage \in {"spreading", "ranking", "sampling"} /\ pending # <<>>
  /\ LET c == Head(pending)
         new == c \in DOMAIN chunks /\ c \notin chosen
     IN  /\ chosen' = IF new /\ ~Refused(c) THEN chosen \cup {c} ELSE chosen
         /\ used' = IF new /\ ~Refused(c) THEN used + Size(c) ELSE used
         /\ pending' = IF stage # "ranking" /\ new /\ Refused(c) THEN <<>> ELSE Tail(pending)
  /\ UNCHANGED <<text, chunks, start, done, stage, budget, window>>

Rank ==
  /\ stage = "spreading" /\ pending = <<>> /\ stage' = "ranking"
  /\ UNCHANGED <<text, chunks, start, done, selection, window>>

\* The next piece of the index or of the ranking, with its neighbours.
Consider(c) ==
  /\ stage = "ranking" /\ pending = <<>>
  /\ c \in DOMAIN chunks /\ Cardinality(chosen) < MaxChosen /\ used < budget
  /\ pending' = <<c, c - 1, c + 1>>
  /\ UNCHANGED <<text, chunks, start, done, stage, budget, chosen, used, window>>

\* Nothing ranked: a sample of the file is better than nothing.
Sample ==
  /\ stage = "ranking" /\ pending = <<>>
  /\ stage' = IF chosen = {} THEN "sampling" ELSE "asked"
  /\ pending' = IF chosen = {} /\ chunks # <<>>
                THEN Spread(1, Most(1, Len(chunks) \div Least(MaxChosen, Len(chunks))))
                ELSE <<>>
  /\ UNCHANGED <<text, chunks, start, done, budget, chosen, used, window>>

Answer ==
  /\ stage = "sampling" /\ pending = <<>> /\ stage' = "asked"
  /\ UNCHANGED <<text, chunks, start, done, selection, window>>

\* file_reader_window: any window a reader asks for, clamped to the file.
Read(from, count) ==
  /\ stage = "stored" /\ chunks # <<>>
  /\ LET first == Least(Most(from, 1), Len(chunks))
     IN  window' = <<first, Least(first + Least(Most(count, 1), ReaderMax) - 1, Len(chunks))>>
  /\ UNCHANGED <<text, chunks, start, done, stage, selection>>

Finish == stage = "asked" /\ UNCHANGED vars

Next ==
  \/ Cut \/ Try \/ Rank \/ Sample \/ Answer \/ Finish
  \/ \E left \in Budgets, broad \in BOOLEAN : Ask(left, broad)
  \/ \E c \in DOMAIN chunks : Consider(c)
  \/ \E from, count \in 0 .. ReaderMax + 1 : Read(from, count)

Spec == Init /\ [][Next]_vars
-----------------------------------------------------------------------------
\* Whatever stands in the text so far, if it is no longer than the overlap, is
\* whole in one piece: a sentence that a cut goes through is not lost to the
\* search of the pieces, nor to the model that is given one of them (chunk_text).
PassagesAreWhole ==
  \A a \in 0 .. done, n \in 1 .. Most(1, Overlap) :
    a + n <= done /\ a \notin breaks /\ a + n - 1 \notin breaks =>
      \E c \in DOMAIN chunks : chunks[c].from <= a /\ a + n <= chunks[c].to

\* What a question takes of a file is something, and fits: the budget is only
\* exceeded by a first piece that is larger than it, which the caller cuts, and
\* the number of pieces only by a file short enough to go whole
\* (select_file_chunk_indices and format_cached_file_context).
QuestionFits ==
  /\ used <= budget \/ Cardinality(chosen) <= 1
  /\ stage = "asked" /\ chunks # <<>> => chosen # {}
  /\ Cardinality(chosen) > MaxChosen => chosen = DOMAIN chunks /\ used <= FullLimit
=============================================================================
