----------------------------- MODULE MCIndexing -----------------------------
(***************************************************************************)
(* An instance of Indexing: three pages of two rows.  One row cannot be    *)
(* scanned, one session has no messages, one none that can be scanned, and *)
(* one has three, of which one cannot; of another a recipient cannot.      *)
(***************************************************************************)
EXTENDS Indexing, TLC

CONSTANTS a1, a2, a3, b1, c1, e1

MCMessagesOf == <<<<a1, a2, a3>>, <<>>, <<b1>>, <<c1>>, <<>>, <<e1>>>>
MCBrokenParts ==
  [m \in {a1, a2, a3, b1, c1, e1} |-> IF m = a3 THEN {"recipients"} ELSE {}]
\* All of them, some in the middle, and all but a page of the newest.
MCRanges == {1 .. 6, 2 .. 4, 3 .. 6}
=============================================================================
