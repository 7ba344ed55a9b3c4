----------------------------- MODULE ChunkSizes -----------------------------
(***************************************************************************)
(* The settings that FileChunks depends on (core/config.py), with what they *)
(* must satisfy.                                                            *)
(***************************************************************************)
EXTENDS Naturals

CONSTANTS ChunkChars, Overlap, \* FILE_CHUNK_CHARS, FILE_CHUNK_OVERLAP
          FullLimit,           \* FILE_FULL_CONTEXT_LIMIT
          MaxChosen,           \* FILE_CONTEXT_MAX_CHUNKS
          Budgets,             \* what the question has left for this file
          ReaderMax,           \* FILE_READER_MAX_CHUNKS
          MaxText              \* bound: the longest text

ASSUME ChunkAssumption ==
  /\ ChunkChars \in Nat /\ Overlap \in Nat /\ ChunkChars > 0
  /\ 2 * Overlap <= ChunkChars
  /\ Budgets \subseteq Nat /\ MaxChosen \in Nat \ {0} /\ MaxText \in Nat
=============================================================================
