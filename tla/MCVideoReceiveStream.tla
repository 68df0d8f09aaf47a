------------------------ MODULE MCVideoReceiveStream ------------------------
(***************************************************************************)
(* A short stream for TLC; the encoder begins anew within it and uses the  *)
(* same ids again.                                                         *)
(***************************************************************************)
EXTENDS VideoReceiveStream

MCIds == <<1, 2, 1, 2>>

MCFrames == {f \in [id : 1..2, refs : {{}} \cup {{1}}, ts : 1..Len(MCIds)] :
               f.id = MCIds[f.ts] /\ (f.refs = {} \/ (f.ts > 1 /\ f.refs = {f.id - 1}))}
=============================================================================
