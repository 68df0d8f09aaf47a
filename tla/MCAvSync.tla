------------------------------ MODULE MCAvSync ------------------------------
(* AvSync in units of 10 ms, with the limits of seconds cut to tenths of them. *)
EXTENDS AvSync

MCOffsets == {-12, 9, 20}
MCLateness == {-1, 5}
MCPlayoutDelays == {<<0, 60>>, <<25, 60>>}

=============================================================================
