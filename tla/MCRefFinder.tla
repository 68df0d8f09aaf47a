---------------------------- MODULE MCRefFinder ----------------------------
(***************************************************************************)
(* RefFinder on a turn of 32 sequence numbers with two gops.               *)
(***************************************************************************)
EXTENDS RefFinder

Frame(a, b, k) == [start |-> a, end |-> b, kind |-> k]

\* A key frame, a delta frame, padding and delta frames, one of them of two packets.
Gop(n) ==
  {Frame(n, n + 1, "key"), Frame(n + 2, n + 2, "delta"), Frame(n + 3, n + 3, "padding")}
    \cup {Frame(n + i, n + i, "delta") : i \in 4..13} \cup {Frame(n + 14, n + 15, "delta")}

MCFrameOf == [s \in SeqNums |-> CHOOSE f \in Gop(0) \cup Gop(16) : s \in f.start..f.end]
=============================================================================
