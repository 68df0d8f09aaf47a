-------------------------------- MODULE Latm --------------------------------
(***************************************************************************)
(* What the sample rate of an AAC stream in LATM is taken to be: by the    *)
(* header of each packet (NetEqImpl::ValidateLatm, neteq_impl.cc), or by   *)
(* the config of the session description (SdpAudioFormat, audio_format.cc) *)
(* when that does not say that packets have a header.                      *)
(*                                                                         *)
(* A payload is a record: its size in bytes, and the fields of its header. *)
(* A format has cpresent, and config: the number of hexadecimal digits and *)
(* the fields, 0 digits when there is none.  Both have the fields of a     *)
(* StreamMuxConfig.                                                        *)
(***************************************************************************)
EXTENDS Integers

aac_frequency_list ==
  <<96000, 88200, 64000, 48000, 44100, 32000, 24000, 22050, 16000, 12000, 11025, 8000, 7350>>

DefaultRate == 48000
MaxBytes == 1500      \* a payload this long is not looked at

\* audioMuxVersion, allStreamsSameTimeFraming, numSubFrames, numProgram, numLayer,
\* audioObjectType, samplingFrequencyIndex, channelConfiguration.
SmcBits == 1 + 1 + 6 + 4 + 3 + 5 + 4 + 4
\* Before them in a packet: the sync word, the length and useSameStreamMux.
LoasBits == 11 + 13 + 1

ValidSmc(c) ==
  /\ c.audioMuxVersion = 0 /\ c.numSubFrames = 0 /\ c.numProgram = 0 /\ c.numLayer = 0
  /\ c.audioObjectType < 31
  /\ c.samplingFrequencyIndex < 12
  /\ c.channelConfiguration \in {1, 2}

\* SBR doubles the rate.
RateOf(c) ==
  aac_frequency_list[c.samplingFrequencyIndex + 1] * (IF c.audioObjectType \in {5, 29} THEN 2 ELSE 1)

Failed == [ok |-> FALSE, rate |-> DefaultRate]
Found(c) == [ok |-> TRUE, rate |-> RateOf(c)]

\* BitStreamReader reads a field while there are bits left.
BitStreamReaderInit(payload) == payload.size > 0 /\ payload.size < MaxBytes
CanRead(bytes, bits) == bits <= 8 * bytes

\* When the reader cannot be set up the function returns kFail, which as a truth value
\* is true: such a payload is valid and has the default rate.
ValidateLatm(payload) ==
  CASE ~BitStreamReaderInit(payload) -> [ok |-> TRUE, rate |-> DefaultRate]
    [] BitStreamReaderInit(payload) /\
       ~(/\ CanRead(payload.size, LoasBits + SmcBits)
         /\ payload.loas_sync_word /\ ~payload.useSameStreamMux
         /\ ValidSmc(payload.smc)) -> Failed
    [] OTHER -> Found(payload.smc)

GetInfoFromConfig(format) ==
  IF /\ format.digits > 0 /\ format.digits % 2 = 0
     /\ CanRead(format.digits \div 2, SmcBits)
     /\ ValidSmc(format.smc)
  THEN Found(format.smc) ELSE Failed

\* The rate of a packet of this format.
LatmInfo(format, payload) ==
  IF format.cpresent THEN ValidateLatm(payload) ELSE GetInfoFromConfig(format)

\* A timestamp at a rate, and the same instant at 48 kHz.
ScaleTo48k(ts, rate) == (ts * 48000) \div rate
=============================================================================
