------------------------------ MODULE MC_BitPos ------------------------------
(* Every 10-bit argument, and around each power of two up to the top bit  *)
(* of a 31-bit word: the words with one bit, all bits below it, or both    *)
(* the top and the bottom bit set.                                         *)
EXTENDS BitPos

MCWidth == 31
MCInputs ==
  (1 .. 1023)
  \cup {2^i : i \in 0 .. MCWidth - 1}
  \cup {2^i - 1 + 2^i : i \in 0 .. MCWidth - 1}
  \cup {2^i + 1 : i \in 1 .. MCWidth - 1}
=============================================================================
