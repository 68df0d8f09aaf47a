-------------------------- MODULE DecoderDatabase --------------------------
(***************************************************************************)
(* DecoderDatabase (decoder_database.cc): which payload types NetEq knows, *)
(* the decoder object of each, made when it is first asked for, and the    *)
(* active one.  NetEq calls it under its lock, so a method is an operator  *)
(* from the database db to its next state.  The AAC decoder objects share  *)
(* db.aac.                                                                 *)
(*                                                                         *)
(* made counts the decoder objects made, so that an object has an identity *)
(* that a packet parsed by it can keep; decoder[pt] = 0 is no object.      *)
(***************************************************************************)
EXTENDS Integers, FiniteSets, Functions

CONSTANTS Red,             \* the SDP formats that are RED,
          Aac,             \* that AudioDecoderAacImpl decodes,
          Rewritten        \* and what DecoderInfo stores for each format

NoType == -1

-----------------------------------------------------------------------------
(* The one FFmpeg decoder that every AAC decoder object of a session       *)
(* shares (rtd_dec.c, reached through AudioDecoderAacImpl and the sink of  *)
(* the demuxer): audio_decoder_inited, whether audio_decoder_ctx is there, *)
(* and whether audio_frame is.  The calls are serialised by                *)
(* audio_decode_mutex; FFmpeg finds and opens its decoder.                 *)
NewAacDecoder == [inited |-> FALSE, ctx |-> FALSE, frame |-> FALSE]

\* A decoder object is made, or reset: only the first time opens the context.
AudioDecoderInit(aac) ==
  IF aac.inited THEN aac ELSE [inited |-> TRUE, ctx |-> TRUE, frame |-> TRUE]

\* A decoder object is destroyed: the flag keeps saying that the decoder is there.
AudioDecoderUninit(aac) == [aac EXCEPT !.ctx = FALSE, !.frame = FALSE]

\* A decode that can reach FFmpeg; any other returns RTD_DEFAULT_AUDIO_FRAME_SAMPLES
\* samples that nothing was written to.
CanDecode(aac) == aac.inited /\ aac.ctx /\ aac.frame

-----------------------------------------------------------------------------

EmptyDatabase == [format |-> <<>>, decoder |-> <<>>, made |-> 0,
                  active_decoder_type_ |-> NoType, aac |-> NewAacDecoder]

Knows(db, pt) == pt \in DOMAIN db.format
IsRed(db, pt) == Knows(db, pt) /\ db.format[pt] \in Red
IsAac(db, pt) == Knows(db, pt) /\ db.format[pt] \in Aac

\* Every payload type of the packets is known.
CheckPayloadTypes(db, packets) == \A i \in DOMAIN packets : Knows(db, packets[i].pt)

Destroyed(db, pts) ==
  IF \E pt \in pts : IsAac(db, pt) /\ db.decoder[pt] # 0 THEN AudioDecoderUninit(db.aac) ELSE db.aac

RemoveTypes(db, pts) ==
  [db EXCEPT !.format = Restrict(@, DOMAIN @ \ pts),
             !.decoder = Restrict(@, DOMAIN @ \ pts),
             !.aac = Destroyed(db, pts),
             !.active_decoder_type_ = IF @ \in pts THEN NoType ELSE @]

\* The constructor writes over the clock of a LATM format.
DecoderInfo(format) == Rewritten[format]

\* A LATM format at another clock than the one it is stored with never equals what
\* was stored, so it is removed and entered anew each time.
Changed(db, codecs) ==
  {pt \in DOMAIN db.format : pt \notin DOMAIN codecs \/ codecs[pt] # db.format[pt]}

SetCodecs(db, codecs) ==
  LET kept == RemoveTypes(db, Changed(db, codecs))
      new  == DOMAIN codecs \ DOMAIN kept.format
  IN  [kept EXCEPT
         !.format = [p \in DOMAIN codecs |-> IF p \in new THEN DecoderInfo(codecs[p]) ELSE @[p]],
         !.decoder = [p \in DOMAIN codecs |-> IF p \in new THEN 0 ELSE @[p]]]

\* GetDecoder makes the object of a payload type that has none.
GetDecoder(db, pt) ==
  IF ~Knows(db, pt) \/ IsRed(db, pt) THEN db
  ELSE IF db.decoder[pt] # 0 THEN db
  ELSE [db EXCEPT !.decoder[pt] = db.made + 1, !.made = @ + 1,
                  !.aac = IF IsAac(db, pt) THEN AudioDecoderInit(@) ELSE @]

DecoderChanges(db, pt) == db.active_decoder_type_ # pt

\* Moving from one active decoder to another deletes the object of the first.
SetActiveDecoder(db, pt) ==
  LET old == {db.active_decoder_type_} \ {pt, NoType}
  IN  [db EXCEPT !.active_decoder_type_ = pt,
                 !.aac = Destroyed(db, old),
                 !.decoder = [p \in DOMAIN @ |-> IF p \in old THEN 0 ELSE @[p]]]

\* Reset of a decoder: that of AAC initialises the shared one again.
ResetDecoder(db, pt) ==
  IF IsAac(db, pt) THEN [db EXCEPT !.aac = AudioDecoderInit(@)] ELSE db
=============================================================================
