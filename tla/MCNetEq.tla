------------------------------ MODULE MCNetEq ------------------------------
(***************************************************************************)
(* Small instances of NetEq: AAC whose packets tell their rate, AAC whose  *)
(* rate is in the session description, Opus, and RED around Opus.          *)
(***************************************************************************)
EXTENDS NetEq

MCRed == {"red"}
MCAac == {"latm", "latm44", "latm44as48"}
MCRewritten == [f \in {"red", "opus", "latm", "latm44"} |-> IF f = "latm44" THEN "latm44as48" ELSE f]
MCRate == [f \in {"red", "opus", "latm", "latm44as48"} |-> IF f = "opus" THEN "mono" ELSE "stereo"]

Smc(index) == [audioMuxVersion |-> 0, numSubFrames |-> 0, numProgram |-> 0, numLayer |-> 0,
               audioObjectType |-> 2, samplingFrequencyIndex |-> index, channelConfiguration |-> 2]
Payload(smc) == [size |-> 100, loas_sync_word |-> TRUE, useSameStreamMux |-> FALSE, smc |-> smc]

MCLatmFormat ==
  ("latm" :> [cpresent |-> TRUE, digits |-> 0, smc |-> Smc(3)]) @@
  ("latm44as48" :> [cpresent |-> FALSE, digits |-> 12, smc |-> Smc(4)])

\* 96: AAC; 111: Opus; 63: RED.
MCCodecMaps == {(96 :> "latm") @@ (111 :> "opus") @@ (63 :> "red"), 96 :> "latm44"}

Rtp(pt, seq, ts) == [pt |-> pt, seq |-> seq, ts |-> ts, sid |-> FALSE, sound |-> TRUE,
                     payload |-> Payload(Smc(3)), blocks |-> <<>>]

\* Packets in order and out of order, one that is too long to be looked at, one at
\* 32 kHz, one that is refused, noise, and redundancy.
MCPackets ==
  {Rtp(96, 1, 60), Rtp(96, 2, 0),
   [Rtp(96, 8, 24) EXCEPT !.payload.size = MaxBytes],
   [Rtp(96, 4, 8) EXCEPT !.payload = Payload(Smc(5))],
   [Rtp(96, 5, 12) EXCEPT !.payload.useSameStreamMux = TRUE],
   Rtp(111, 3, 4), [Rtp(111, 4, 8) EXCEPT !.sid = TRUE],
   [Rtp(63, 5, 12) EXCEPT !.blocks = <<[pt |-> 111, offset |-> 4], [pt |-> 111, offset |-> 0]>>]}
=============================================================================
