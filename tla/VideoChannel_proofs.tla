------------------------ MODULE VideoChannel_proofs ------------------------
(***************************************************************************)
(* Proofs about the video channel, for all descriptions, SSRCs and numbers *)
(* of packets and calls, as it is without the field trial that keeps       *)
(* packets of an unknown SSRC: the sets of SSRCs are those of the streams, *)
(* no default stream is made for a packet under old criteria, packets of   *)
(* one SSRC come once and in order but for those kept by the transport,    *)
(* every stream has the configuration of its channel, and the signalled    *)
(* streams are those of the last description.                              *)
(*                                                                         *)
(* The first part is about one call of the media channel, from its state c *)
(* to d.  A description makes many such calls, one for each stream, which  *)
(* are folds; what each call keeps the fold keeps (SequenceFacts).         *)
(***************************************************************************)
EXTENDS VideoChannel, FiniteSetTheorems, SequenceTheorems, SequenceFacts

Fields ==
  {"receive_streams_", "receive_ssrcs_", "send_streams_", "send_ssrcs_", "sending_",
   "rtcp_receiver_report_ssrc_", "negotiated_codecs_", "send_codec_", "allow_codec_switching_",
   "requested_encoder_switch_", "reduced_size", "recv_codecs_", "recv_flexfec_payload_type_",
   "unsignaled_stream_params_", "default_sink_", "default_delay", "pending_criteria", "cooldown",
   "buffered", "unknown_ssrc_packet_buffer_", "delivered", "ok"}

\* What the operators read and replace is there, and packets are not kept.
Shape(c) ==
  /\ DOMAIN c = Fields
  /\ \A s \in DOMAIN c.receive_streams_ : {"params", "default"} \subseteq DOMAIN c.receive_streams_[s]
  /\ \A s \in DOMAIN c.send_streams_ : "params" \in DOMAIN c.send_streams_[s]
                                       /\ s \in Ssrcs(c.send_streams_[s].params)
  /\ "ssrcs" \in DOMAIN c.unsignaled_stream_params_
  /\ c.buffered = FALSE

Books(c) == Exact(c.receive_streams_, c.receive_ssrcs_) /\ Exact(c.send_streams_, c.send_ssrcs_)

Sound(c) == Shape(c) /\ Books(c)

\* What every call keeps but the one for a packet.
Tame(c, d) ==
  /\ Sound(d)
  /\ d.pending_criteria = c.pending_criteria
  /\ d.delivered = c.delivered
  /\ Defaults(d) \subseteq Defaults(c)

-----------------------------------------------------------------------------
(* The sets of SSRCs.                                                       *)

LEMMA ExactWithout ==
  ASSUME NEW f, NEW S, Exact(f, S), NEW gone \in SUBSET DOMAIN f
  PROVE  Exact([s \in DOMAIN f \ gone |-> f[s]], S \ UNION {Ssrcs(f[s].params) : s \in gone})
<1> DEFINE g == [s \in DOMAIN f \ gone |-> f[s]]
           U(s) == Ssrcs(f[s].params)
<1>1. DOMAIN g = DOMAIN f \ gone /\ \A s \in DOMAIN g : g[s] = f[s]
  OBVIOUS
<1>2. S = UNION {U(s) : s \in DOMAIN f}
  BY DEF Exact
<1>3. \A s \in DOMAIN f : First(f[s].params) = s /\ \A t \in DOMAIN f \ {s} : U(s) \cap U(t) = {}
  BY DEF Exact
<1>4. \A s \in DOMAIN g : Ssrcs(g[s].params) = U(s) /\ First(g[s].params) = s
  BY <1>1, <1>3
<1> HIDE DEF g, U
<1>5. S \ UNION {U(s) : s \in gone} = UNION {U(s) : s \in DOMAIN g}
  BY <1>1, <1>2, <1>3
<1>6. UNION {U(s) : s \in DOMAIN g} = UNION {Ssrcs(g[s].params) : s \in DOMAIN g}
  BY <1>4
<1>7. \A s \in DOMAIN g : \A t \in DOMAIN g \ {s} : Ssrcs(g[s].params) \cap Ssrcs(g[t].params) = {}
  BY <1>1, <1>3, <1>4
<1>8. Exact(g, S \ UNION {U(s) : s \in gone})
  BY <1>4, <1>5, <1>6, <1>7 DEF Exact
<1> QED
  BY <1>8 DEF g, U

LEMMA ExactWith ==
  ASSUME NEW f, NEW S, Exact(f, S), NEW first, NEW r, first \notin DOMAIN f,
         First(r.params) = first, Ssrcs(r.params) \cap S = {}
  PROVE  Exact(With(f, first, r), S \cup Ssrcs(r.params))
<1> DEFINE g == With(f, first, r)
           U(s) == Ssrcs(g[s].params)
<1>1. DOMAIN g = DOMAIN f \cup {first} /\ g[first] = r /\ \A s \in DOMAIN f : g[s] = f[s]
  BY DEF With
<1>2. S = UNION {Ssrcs(f[s].params) : s \in DOMAIN f}
  BY DEF Exact
<1>3. \A s \in DOMAIN f : /\ First(f[s].params) = s
                          /\ \A t \in DOMAIN f \ {s} : Ssrcs(f[s].params) \cap Ssrcs(f[t].params) = {}
  BY DEF Exact
<1>4. U(first) = Ssrcs(r.params) /\ \A s \in DOMAIN f : U(s) = Ssrcs(f[s].params)
  BY <1>1
<1>5. \A s \in DOMAIN g : First(g[s].params) = s
  BY <1>1, <1>3
<1> HIDE DEF g, U
<1>6. S \cup Ssrcs(r.params) = UNION {U(s) : s \in DOMAIN g}
  BY <1>1, <1>2, <1>4
<1>7. \A s \in DOMAIN f : U(s) \subseteq S
  BY <1>2, <1>4
<1>8. \A s \in DOMAIN g : \A t \in DOMAIN g \ {s} : U(s) \cap U(t) = {}
  BY <1>1, <1>3, <1>4, <1>7
<1>9. Exact(g, S \cup Ssrcs(r.params))
  BY <1>5, <1>6, <1>8 DEF Exact, U
<1> QED
  BY <1>9 DEF g

LEMMA ExactSame ==
  ASSUME NEW f, NEW S, Exact(f, S), NEW g, DOMAIN g = DOMAIN f,
         \A s \in DOMAIN f : g[s].params = f[s].params
  PROVE  Exact(g, S)
BY DEF Exact

-----------------------------------------------------------------------------
(* Calls that change what streams are configured with, not which there are. *)

Same(c, d) ==
  /\ DOMAIN d = Fields /\ d.buffered = c.buffered
  /\ d.unsignaled_stream_params_ = c.unsignaled_stream_params_
  /\ d.pending_criteria = c.pending_criteria /\ d.delivered = c.delivered
  /\ d.receive_ssrcs_ = c.receive_ssrcs_ /\ d.send_ssrcs_ = c.send_ssrcs_
  /\ DOMAIN d.receive_streams_ = DOMAIN c.receive_streams_
  /\ \A s \in DOMAIN c.receive_streams_ :
       /\ {"params", "default"} \subseteq DOMAIN d.receive_streams_[s]
       /\ d.receive_streams_[s].params = c.receive_streams_[s].params
       /\ d.receive_streams_[s].default = c.receive_streams_[s].default
  /\ DOMAIN d.send_streams_ = DOMAIN c.send_streams_
  /\ \A s \in DOMAIN c.send_streams_ :
       /\ "params" \in DOMAIN d.send_streams_[s]
       /\ d.send_streams_[s].params = c.send_streams_[s].params

LEMMA SameTame ==
  ASSUME NEW c, NEW d, Sound(c), Same(c, d)
  PROVE  Tame(c, d) /\ Defaults(d) = Defaults(c)
<1>1. Shape(d)
  BY DEF Sound, Shape, Same
<1>2. Books(d)
  <2>1. Exact(d.receive_streams_, d.receive_ssrcs_)
    BY ExactSame DEF Sound, Books, Same
  <2>2. Exact(d.send_streams_, d.send_ssrcs_)
    BY ExactSame DEF Sound, Books, Same
  <2> QED
    BY <2>1, <2>2 DEF Books
<1>3. Defaults(d) = Defaults(c)
  BY DEF Same, Defaults
<1> QED
  BY <1>1, <1>2, <1>3 DEF Tame, Sound, Same

LEMMA TameItself ==
  ASSUME NEW c, Sound(c)
  PROVE  Tame(c, c)
BY DEF Tame

LEMMA TameAgain ==
  ASSUME NEW c, NEW d, NEW e, Tame(c, d), Tame(d, e)
  PROVE  Tame(c, e)
BY DEF Tame

LEMMA TameOk ==
  ASSUME NEW c, NEW d, NEW b, Tame(c, d)
  PROVE  Tame(c, Ok(d, b))
<1>1. DOMAIN d = Fields
  BY DEF Tame, Sound, Shape
<1>2. Same(d, Ok(d, b))
  BY <1>1 DEF Same, Ok, Fields, Tame, Sound, Shape
<1> QED
  BY <1>2, SameTame, TameAgain DEF Tame

\* A stream that is sent keeps the parameters it was made for.
LEMMA SenderKeepsParams ==
  ASSUME NEW s, "params" \in DOMAIN s, NEW x
  PROVE  /\ "params" \in DOMAIN Sender!SetSend(s, x) /\ Sender!SetSend(s, x).params = s.params
         /\ "params" \in DOMAIN Sender!SetCodec(s, x) /\ Sender!SetCodec(s, x).params = s.params
         /\ "params" \in DOMAIN Sender!SetSendParameters(s, x)
         /\ Sender!SetSendParameters(s, x).params = s.params
<1>1. ASSUME NEW r, "params" \in DOMAIN r
      PROVE  /\ "params" \in DOMAIN Sender!UpdateSendState(r)
             /\ Sender!UpdateSendState(r).params = r.params
  BY <1>1 DEF Sender!UpdateSendState
<1>2. ASSUME NEW r, "params" \in DOMAIN r
      PROVE  /\ "params" \in DOMAIN Sender!RecreateWebRtcStream(r)
             /\ Sender!RecreateWebRtcStream(r).params = r.params
  BY <1>1, <1>2 DEF Sender!RecreateWebRtcStream
<1>3. ASSUME NEW r, NEW y, "params" \in DOMAIN r
      PROVE  "params" \in DOMAIN Sender!SetCodec(r, y) /\ Sender!SetCodec(r, y).params = r.params
  BY <1>2, <1>3 DEF Sender!SetCodec
<1>4. "params" \in DOMAIN Sender!SetSend(s, x) /\ Sender!SetSend(s, x).params = s.params
  BY <1>1 DEF Sender!SetSend
<1>5. "params" \in DOMAIN Sender!SetSendParameters(s, x) /\ Sender!SetSendParameters(s, x).params = s.params
  <2> DEFINE set == IF x.rtcp = <<>> THEN s ELSE [s EXCEPT !.reduced_size = x.rtcp[1]]
  <2>1. "params" \in DOMAIN set /\ set.params = s.params
    OBVIOUS
  <2>2. \/ Sender!SetSendParameters(s, x) = Sender!SetCodec(set, x.send_codec[1])
        \/ Sender!SetSendParameters(s, x) = Sender!RecreateWebRtcStream(set)
        \/ Sender!SetSendParameters(s, x) = s
    BY DEF Sender!SetSendParameters
  <2> HIDE DEF set
  <2> QED
    BY <1>2, <1>3, <2>1, <2>2
<1> QED
  BY <1>3, <1>4, <1>5

LEMMA EachStreamSame ==
  ASSUME NEW c, Sound(c)
  PROVE  /\ RecreateAll(c, c) = c
         /\ \A x : RecreateAll(c, x) = c
BY DEF RecreateAll, Sound, Shape

LEMMA SetLocalSsrcTame ==
  ASSUME NEW c, Sound(c), NEW ssrc
  PROVE  Tame(c, SetLocalSsrcOnAll(c, ssrc))
<1> DEFINE d == EachStream(c, LAMBDA r : [r EXCEPT !.local_ssrc = ssrc])
<1>1. Same(c, d)
  BY DEF Same, EachStream, Sound, Shape, Fields
<1>2. Tame(c, d) /\ Sound(d)
  BY <1>1, SameTame DEF Tame
<1>3. SetLocalSsrcOnAll(c, ssrc) = RecreateAll(d, c)
  BY DEF SetLocalSsrcOnAll
<1> HIDE DEF d
<1> QED
  BY <1>2, <1>3, EachStreamSame

LEMMA SetFeedbackTame ==
  ASSUME NEW c, Sound(c)
  PROVE  Tame(c, SetFeedbackParametersOnAll(c))
<1> DEFINE d == EachStream(c, LAMBDA r : [r EXCEPT !.reduced_size = c.reduced_size,
                                                   !.config.nack = NackOf(c.send_codec_[1])])
<1>1. Same(c, d)
  BY DEF Same, EachStream, Sound, Shape, Fields
<1>2. Tame(c, d) /\ Sound(d)
  BY <1>1, SameTame DEF Tame
<1>3. SetFeedbackParametersOnAll(c) = RecreateAll(d, c)
  BY DEF SetFeedbackParametersOnAll
<1> HIDE DEF d
<1> QED
  BY <1>2, <1>3, EachStreamSame

LEMMA SetSendTame ==
  ASSUME NEW c, Sound(c), NEW send
  PROVE  Tame(c, SetSend(c, send))
<1> DEFINE d == [c EXCEPT !.sending_ = send,
                          !.send_streams_ = [s \in DOMAIN @ |-> Sender!SetSend(@[s], send)]]
<1>1. Same(c, d)
  BY SenderKeepsParams DEF Same, Sound, Shape, Fields
<1>2. SetSend(c, send) = Ok(c, FALSE) \/ SetSend(c, send) = Ok(d, TRUE)
  BY DEF SetSend
<1> HIDE DEF d
<1> QED
  BY <1>1, <1>2, SameTame, TameItself, TameOk

LEMMA SetSendParametersTame ==
  ASSUME NEW c, Sound(c), NEW params
  PROVE  Tame(c, SetSendParameters(c, params))
<1> DEFINE rtcp == [c EXCEPT !.reduced_size = params.reduced_size]
           changed == GetChangedSendParameters(c, params)
           set == [rtcp EXCEPT
                     !.negotiated_codecs_ = IF changed.negotiated = <<>> THEN @ ELSE changed.negotiated[1],
                     !.send_codec_ = IF changed.send_codec = <<>> THEN @ ELSE changed.send_codec,
                     !.send_streams_ = [s \in DOMAIN @ |-> Sender!SetSendParameters(@[s], changed)]]
<1>1. Same(c, rtcp)
  BY DEF Same, Sound, Shape, Fields
<1>2. Tame(c, rtcp) /\ Sound(rtcp)
  BY <1>1, SameTame DEF Tame
<1>3. Same(rtcp, set)
  <2> HIDE DEF rtcp, changed
  <2> QED
    BY <1>2, SenderKeepsParams DEF Same, Sound, Shape, Fields
<1>4. Tame(rtcp, set) /\ Sound(set)
  <2> HIDE DEF rtcp, set
  <2> QED
    BY <1>2, <1>3, SameTame DEF Tame
<1>5. Tame(rtcp, ApplyChangedParams(rtcp, changed))
  <2>1. \/ ApplyChangedParams(rtcp, changed) = set
        \/ ApplyChangedParams(rtcp, changed) = SetFeedbackParametersOnAll(set)
    BY DEF ApplyChangedParams
  <2> HIDE DEF rtcp, changed, set
  <2> QED
    BY <1>4, <2>1, SetFeedbackTame, TameAgain
<1>6. \/ SetSendParameters(c, params) = Ok(ApplyChangedParams(rtcp, changed), TRUE)
      \/ SetSendParameters(c, params) = Ok(c, FALSE)
  BY DEF SetSendParameters
<1> HIDE DEF rtcp, changed
<1>7. Tame(c, ApplyChangedParams(rtcp, changed)) /\ Tame(c, c)
  BY <1>2, <1>5, TameItself, TameAgain
<1> QED
  BY <1>6, <1>7, TameOk

LEMMA SetRecvParametersTame ==
  ASSUME NEW c, Sound(c), NEW params
  PROVE  Tame(c, SetRecvParameters(c, params))
<1> DEFINE set == RecvCodecs(c, params)
           Configure(r) == [r EXCEPT !.config = IF set.recv_codecs_ # c.recv_codecs_
                                                THEN ConfigureCodecs(set.recv_codecs_) ELSE @,
                                     !.flexfec = set.recv_flexfec_payload_type_]
           d == EachStream(set, Configure)
<1>1. Same(c, set)
  BY DEF Same, Sound, Shape, Fields, RecvCodecs
<1>2. Tame(c, set) /\ Sound(set)
  BY <1>1, SameTame DEF Tame
<1>3. Same(set, d)
  <2> HIDE DEF set
  <2> QED
    BY <1>2 DEF Same, Sound, Shape, Fields, EachStream
<1>4. Tame(set, d) /\ Sound(d)
  BY <1>2, <1>3, SameTame DEF Tame
<1>5. SetRecvParameters(c, params) = Ok(RecreateAll(d, c), TRUE) \/ SetRecvParameters(c, params) = Ok(c, FALSE)
  BY DEF SetRecvParameters
<1> HIDE DEF set, d
<1>6. Tame(c, d) /\ RecreateAll(d, c) = d
  BY <1>2, <1>4, TameAgain, EachStreamSame
<1> QED
  BY <1>5, <1>6, TameItself, TameOk

LEMMA SetSinkSame ==
  ASSUME NEW c, Sound(c), NEW ssrc, NEW to
  PROVE  Same(c, SetSink(c, ssrc, to))
BY DEF Same, Sound, Shape, Fields, SetSink, Ok

LEMMA SetDelaySame ==
  ASSUME NEW c, Sound(c), NEW ssrc, NEW delay
  PROVE  Same(c, SetBaseMinimumPlayoutDelayMs(c, ssrc, delay))
<1> DEFINE set == IF ssrc = 0 THEN [c EXCEPT !.default_delay = delay] ELSE c
           to == IF ssrc = 0 THEN Defaults(c) ELSE {ssrc} \cap DOMAIN c.receive_streams_
           d == [set EXCEPT !.receive_streams_ =
                   [s \in DOMAIN @ |-> IF s \in to THEN [@[s] EXCEPT !.delay = delay] ELSE @[s]]]
<1>1. SetBaseMinimumPlayoutDelayMs(c, ssrc, delay) = Ok(d, ssrc = 0 \/ to # {})
  BY Zenon DEF SetBaseMinimumPlayoutDelayMs
<1>2. Same(c, set) /\ set.receive_streams_ = c.receive_streams_
  BY DEF Same, Sound, Shape, Fields
<1> HIDE DEF set, to
<1>3. Same(c, d) /\ DOMAIN d = Fields
  BY <1>2 DEF Same, Sound, Shape, Fields
<1> HIDE DEF d
<1> QED
  BY <1>1, <1>3 DEF Same, Ok, Fields

LEMMA SetDefaultSinkSame ==
  ASSUME NEW c, Sound(c), NEW to
  PROVE  Same(c, SetDefaultSink(c, to))
<1> DEFINE set == [c EXCEPT !.default_sink_ = to]
<1>1. Same(c, set)
  BY DEF Same, Sound, Shape, Fields
<1>2. Sound(set)
  BY <1>1, SameTame DEF Tame
<1>3. SetDefaultSink(c, to) = set \/ \E s : SetDefaultSink(c, to) = SetSink(set, s, to)
  BY DEF SetDefaultSink
<1> HIDE DEF set
<1>4. \A s : Same(set, SetSink(set, s, to))
  BY <1>2, SetSinkSame
<1> QED
  BY <1>1, <1>3, <1>4 DEF Same

-----------------------------------------------------------------------------
(* Calls that make streams and delete them.                                 *)

LEMMA DeleteTame ==
  ASSUME NEW c, Sound(c), NEW gone \in SUBSET DOMAIN c.receive_streams_
  PROVE  Tame(c, DeleteReceiveStreams(c, gone))
<1> DEFINE d == DeleteReceiveStreams(c, gone)
<1>1. /\ DOMAIN d = Fields
      /\ d.receive_streams_ = [s \in DOMAIN c.receive_streams_ \ gone |-> c.receive_streams_[s]]
      /\ d.receive_ssrcs_ = c.receive_ssrcs_ \ UNION {Ssrcs(c.receive_streams_[s].params) : s \in gone}
      /\ d.send_streams_ = c.send_streams_ /\ d.send_ssrcs_ = c.send_ssrcs_
      /\ d.pending_criteria = c.pending_criteria /\ d.delivered = c.delivered
      /\ d.buffered = c.buffered /\ d.unsignaled_stream_params_ = c.unsignaled_stream_params_
  BY DEF DeleteReceiveStreams, Sound, Shape, Fields
<1> HIDE DEF d
<1>2. DOMAIN d.receive_streams_ = DOMAIN c.receive_streams_ \ gone
      /\ \A s \in DOMAIN d.receive_streams_ : d.receive_streams_[s] = c.receive_streams_[s]
  BY <1>1
<1>3. Shape(d)
  BY <1>1, <1>2 DEF Sound, Shape
<1>4. Exact(d.receive_streams_, d.receive_ssrcs_)
  <2>1. Exact(c.receive_streams_, c.receive_ssrcs_)
    BY DEF Sound, Books
  <2> QED
    BY <1>1, <2>1, ExactWithout
<1>5. Exact(d.send_streams_, d.send_ssrcs_)
  BY <1>1 DEF Sound, Books
<1>6. Defaults(d) \subseteq Defaults(c)
  BY <1>2 DEF Defaults
<1>7. Tame(c, d)
  BY <1>1, <1>3, <1>4, <1>5, <1>6 DEF Tame, Sound, Books
<1> QED
  BY <1>7 DEF d

LEMMA DeleteOneTame ==
  ASSUME NEW c, Sound(c), NEW first \in DOMAIN c.receive_streams_
  PROVE  /\ Tame(c, DeleteReceiveStream(c, first))
         /\ first \notin DOMAIN DeleteReceiveStream(c, first).receive_streams_
         /\ DeleteReceiveStream(c, first).buffered = c.buffered
         /\ DeleteReceiveStream(c, first).unsignaled_stream_params_ = c.unsignaled_stream_params_
<1>1. DeleteReceiveStream(c, first) = DeleteReceiveStreams(c, {first})
  <2>1. UNION {Ssrcs(c.receive_streams_[s].params) : s \in {first}} = Ssrcs(c.receive_streams_[first].params)
    OBVIOUS
  <2> QED
    BY <2>1 DEF DeleteReceiveStream, DeleteReceiveStreams, Without
<1>2. /\ first \notin DOMAIN DeleteReceiveStream(c, first).receive_streams_
      /\ DeleteReceiveStream(c, first).buffered = c.buffered
      /\ DeleteReceiveStream(c, first).unsignaled_stream_params_ = c.unsignaled_stream_params_
  BY DEF DeleteReceiveStream, Without, Sound, Shape, Fields
<1> QED
  BY <1>1, <1>2, DeleteTame

LEMMA RemoveRecvTame ==
  ASSUME NEW c, Sound(c), NEW ssrc
  PROVE  Tame(c, RemoveRecvStream(c, ssrc))
BY DeleteOneTame, TameItself, TameOk DEF RemoveRecvStream

LEMMA ResetTame ==
  ASSUME NEW c, Sound(c)
  PROVE  Tame(c, ResetUnsignaledRecvStream(c))
<1> DEFINE set == [c EXCEPT !.unsignaled_stream_params_ = NoParams, !.cooldown = FALSE]
<1>1. /\ DOMAIN set = Fields /\ set.unsignaled_stream_params_ = NoParams
      /\ set.receive_streams_ = c.receive_streams_ /\ set.receive_ssrcs_ = c.receive_ssrcs_
      /\ set.send_streams_ = c.send_streams_ /\ set.send_ssrcs_ = c.send_ssrcs_
      /\ set.buffered = c.buffered /\ set.pending_criteria = c.pending_criteria
      /\ set.delivered = c.delivered
  BY DEF Sound, Shape, Fields
<1>2. ResetUnsignaledRecvStream(c) = DeleteReceiveStreams(set, Defaults(c))
  BY DEF ResetUnsignaledRecvStream
<1> HIDE DEF set
<1>3. Tame(c, set)
  BY <1>1 DEF Tame, Sound, Shape, Books, Defaults, NoParams
<1>4. Defaults(c) \in SUBSET DOMAIN set.receive_streams_
  BY <1>1 DEF Defaults
<1>5. Tame(set, DeleteReceiveStreams(set, Defaults(c)))
  BY <1>3, <1>4, DeleteTame DEF Tame
<1> QED
  BY <1>2, <1>3, <1>5, TameAgain

\* A stream that the caller says is a default one may be new.
LEMMA AddRecvAs ==
  ASSUME NEW c, Sound(c), NEW sp, "ssrcs" \in DOMAIN sp, NEW default \in BOOLEAN
  PROVE  LET d == AddRecvStreamAs(c, sp, default)
         IN  /\ Sound(d) /\ d.pending_criteria = c.pending_criteria /\ d.delivered = c.delivered
             /\ ~default => Defaults(d) \subseteq Defaults(c)
<1> DEFINE first == First(sp)
           taken == sp.ssrcs # <<>> /\ first \in DOMAIN c.receive_streams_
           freed == IF taken THEN DeleteReceiveStream(c, first) ELSE c
           stream == WebRtcVideoReceiveStream(freed, sp, default)
           added == [freed EXCEPT !.receive_ssrcs_ = @ \cup Ssrcs(sp),
                                  !.receive_streams_ = With(@, first, stream)]
           unsignalled == [c EXCEPT !.unsignaled_stream_params_ = sp]
           d == AddRecvStreamAs(c, sp, default)
<1>1. /\ Tame(c, freed)
      /\ sp.ssrcs # <<>> => first \notin DOMAIN freed.receive_streams_
  BY DeleteOneTame, TameItself
<1>2. stream.params = sp /\ stream.default = default /\ {"params", "default"} \subseteq DOMAIN stream
  BY DEF WebRtcVideoReceiveStream
<1>3. Tame(c, unsignalled)
  <2>1. /\ DOMAIN unsignalled = Fields /\ unsignalled.unsignaled_stream_params_ = sp
        /\ unsignalled.receive_streams_ = c.receive_streams_ /\ unsignalled.receive_ssrcs_ = c.receive_ssrcs_
        /\ unsignalled.send_streams_ = c.send_streams_ /\ unsignalled.send_ssrcs_ = c.send_ssrcs_
        /\ unsignalled.buffered = c.buffered /\ unsignalled.pending_criteria = c.pending_criteria
        /\ unsignalled.delivered = c.delivered
    BY DEF Sound, Shape, Fields
  <2> HIDE DEF unsignalled
  <2> QED
    BY <2>1 DEF Tame, Sound, Shape, Books, Defaults
<1>4. ASSUME sp.ssrcs # <<>>, Ssrcs(sp) \cap freed.receive_ssrcs_ = {}
      PROVE  /\ Sound(added) /\ added.pending_criteria = c.pending_criteria
             /\ added.delivered = c.delivered
             /\ ~default => Defaults(added) \subseteq Defaults(c)
  <2> HIDE DEF freed, stream, first
  <2>1. /\ DOMAIN added = Fields /\ added.receive_ssrcs_ = freed.receive_ssrcs_ \cup Ssrcs(sp)
        /\ added.receive_streams_ = With(freed.receive_streams_, first, stream)
        /\ added.send_streams_ = freed.send_streams_ /\ added.send_ssrcs_ = freed.send_ssrcs_
        /\ added.unsignaled_stream_params_ = freed.unsignaled_stream_params_
        /\ added.buffered = freed.buffered /\ added.pending_criteria = freed.pending_criteria
        /\ added.delivered = freed.delivered
    BY <1>1 DEF Tame, Sound, Shape, Fields
  <2> HIDE DEF added
  <2>2. /\ DOMAIN added.receive_streams_ = DOMAIN freed.receive_streams_ \cup {first}
        /\ added.receive_streams_[first] = stream
        /\ \A s \in DOMAIN freed.receive_streams_ :
             added.receive_streams_[s] = freed.receive_streams_[s]
    BY <1>1, <1>4, <2>1 DEF With
  <2>3. Shape(added)
    BY <1>1, <1>2, <2>1, <2>2 DEF Tame, Sound, Shape
  <2>4. Exact(added.receive_streams_, added.receive_ssrcs_)
    <3>1. Exact(freed.receive_streams_, freed.receive_ssrcs_)
      BY <1>1 DEF Tame, Sound, Books
    <3>2. First(stream.params) = first /\ Ssrcs(stream.params) \cap freed.receive_ssrcs_ = {}
      BY <1>2, <1>4 DEF first
    <3>3. first \notin DOMAIN freed.receive_streams_
      BY <1>1, <1>4
    <3>4. Exact(With(freed.receive_streams_, first, stream), freed.receive_ssrcs_ \cup Ssrcs(stream.params))
      BY <3>1, <3>2, <3>3, ExactWith
    <3> QED
      BY <1>2, <2>1, <3>4
  <2>5. Exact(added.send_streams_, added.send_ssrcs_)
    BY <1>1, <2>1 DEF Tame, Sound, Books
  <2>6. ~default => Defaults(added) \subseteq Defaults(freed)
    BY <1>2, <2>2 DEF Defaults
  <2> QED
    BY <1>1, <2>1, <2>3, <2>4, <2>5, <2>6 DEF Tame, Sound, Books
<1>5. \/ d = Ok(unsignalled, TRUE) \/ d = Ok(c, FALSE) \/ d = Ok(freed, FALSE)
      \/ /\ sp.ssrcs # <<>> /\ Ssrcs(sp) \cap freed.receive_ssrcs_ = {}
         /\ d = Ok(RecreateWebRtcVideoStream(added, first), TRUE)
  <2>1. CASE sp.ssrcs = <<>>
    BY <2>1 DEF AddRecvStreamAs, ValidateStreamParams
  <2>2. CASE sp.ssrcs # <<>> /\ ~ValidateStreamParams(sp)
    BY <2>2 DEF AddRecvStreamAs
  <2>3. CASE ValidateStreamParams(sp) /\ taken /\ (default \/ ~c.receive_streams_[first].default)
    BY <2>3 DEF AddRecvStreamAs, ValidateStreamParams
  <2>4. CASE ~(\/ sp.ssrcs = <<>>
               \/ sp.ssrcs # <<>> /\ ~ValidateStreamParams(sp)
               \/ ValidateStreamParams(sp) /\ taken /\ (default \/ ~c.receive_streams_[first].default))
    BY <2>4 DEF AddRecvStreamAs, ValidateReceiveSsrcAvailability
  <2> QED
    BY <2>1, <2>2, <2>3, <2>4
<1>6. \A e : ~e.buffered => RecreateWebRtcVideoStream(e, first) = e
  BY DEF RecreateWebRtcVideoStream, BackfillBufferedPackets
<1> HIDE DEF first, freed, added, unsignalled, d
<1>7. ASSUME NEW e, Sound(e), e.pending_criteria = c.pending_criteria, e.delivered = c.delivered,
             ~default => Defaults(e) \subseteq Defaults(c), NEW b
      PROVE  /\ Sound(Ok(e, b)) /\ Ok(e, b).pending_criteria = c.pending_criteria
             /\ Ok(e, b).delivered = c.delivered
             /\ ~default => Defaults(Ok(e, b)) \subseteq Defaults(c)
  <2>1. Tame(e, Ok(e, b))
    BY <1>7, TameItself, TameOk
  <2> QED
    BY <1>7, <2>1 DEF Tame
<1>8. CASE d = Ok(unsignalled, TRUE)
  BY <1>3, <1>7, <1>8 DEF Tame, d
<1>9. CASE d = Ok(c, FALSE)
  <2>1. Tame(c, Ok(c, FALSE))
    BY TameItself, TameOk
  <2> QED
    BY <1>9, <2>1 DEF Tame, d
<1>10. CASE d = Ok(freed, FALSE)
  BY <1>1, <1>7, <1>10 DEF Tame, d
<1>11. CASE /\ sp.ssrcs # <<>> /\ Ssrcs(sp) \cap freed.receive_ssrcs_ = {}
            /\ d = Ok(RecreateWebRtcVideoStream(added, first), TRUE)
  <2>1. Sound(added) /\ ~added.buffered
    BY <1>4, <1>11 DEF Sound, Shape
  <2>2. d = Ok(added, TRUE)
    BY <1>6, <1>11, <2>1
  <2> QED
    BY <1>4, <1>7, <1>11, <2>2 DEF d
<1> QED
  BY <1>5, <1>8, <1>9, <1>10, <1>11

LEMMA AddRecvTame ==
  ASSUME NEW c, Sound(c), NEW sp, "ssrcs" \in DOMAIN sp
  PROVE  Tame(c, AddRecvStream(c, sp))
BY AddRecvAs DEF AddRecvStream, Tame

LEMMA AddSendTame ==
  ASSUME NEW c, Sound(c), NEW sp \in StreamParams
  PROVE  Tame(c, AddSendStream(c, sp))
<1> DEFINE first == First(sp)
           new == Sender!WebRtcVideoSendStream(sp, c.send_codec_, c.reduced_size)
           stream == Sender!SetSend(new, c.sending_)
           added == [c EXCEPT !.send_ssrcs_ = @ \cup Ssrcs(sp), !.send_streams_ = With(@, first, stream)]
           report == [added EXCEPT !.rtcp_receiver_report_ssrc_ = first]
           d == AddSendStream(c, sp)
<1>1. stream.params = sp /\ "params" \in DOMAIN stream
  <2>1. new.params = sp /\ "params" \in DOMAIN new
    BY SenderKeepsParams DEF Sender!WebRtcVideoSendStream
  <2> HIDE DEF new
  <2> QED
    BY <2>1, SenderKeepsParams
<1>2. \/ d = Ok(c, FALSE)
      \/ /\ sp.ssrcs # <<>> /\ Ssrcs(sp) \cap c.send_ssrcs_ = {}
         /\ d = Ok(SetLocalSsrcOnAll(report, first), TRUE) \/ d = Ok(added, TRUE)
  <2>1. CASE ValidateStreamParams(sp) /\ ValidateSendSsrcAvailability(c, sp)
    BY <2>1 DEF AddSendStream, ValidateStreamParams, ValidateSendSsrcAvailability
  <2>2. CASE ~(ValidateStreamParams(sp) /\ ValidateSendSsrcAvailability(c, sp))
    BY <2>2 DEF AddSendStream
  <2> QED
    BY <2>1, <2>2
<1>3. ASSUME sp.ssrcs # <<>>, Ssrcs(sp) \cap c.send_ssrcs_ = {}
      PROVE  Tame(c, added)
  <2>1. first \in Ssrcs(sp)
    <3>1. sp.ssrcs \in Seq(Int)
      BY DEF StreamParams
    <3>2. 1 \in DOMAIN sp.ssrcs /\ Head(sp.ssrcs) = sp.ssrcs[1]
      BY <1>3, <3>1
    <3> QED
      BY <3>2 DEF Ssrcs, First, Range
  <2>2. Exact(c.send_streams_, c.send_ssrcs_)
    BY DEF Sound, Books
  <2>3. first \notin DOMAIN c.send_streams_
    BY <1>3, <2>1, <2>2 DEF Exact, Sound, Shape
  <2> HIDE DEF first, stream
  <2>4. /\ DOMAIN added = Fields /\ added.send_ssrcs_ = c.send_ssrcs_ \cup Ssrcs(sp)
        /\ added.send_streams_ = With(c.send_streams_, first, stream)
        /\ added.receive_streams_ = c.receive_streams_ /\ added.receive_ssrcs_ = c.receive_ssrcs_
        /\ added.unsignaled_stream_params_ = c.unsignaled_stream_params_
        /\ added.buffered = c.buffered /\ added.pending_criteria = c.pending_criteria
        /\ added.delivered = c.delivered
    BY DEF Sound, Shape, Fields
  <2> HIDE DEF added
  <2>5. /\ DOMAIN added.send_streams_ = DOMAIN c.send_streams_ \cup {first}
        /\ added.send_streams_[first] = stream
        /\ \A s \in DOMAIN c.send_streams_ : added.send_streams_[s] = c.send_streams_[s]
    BY <2>3, <2>4 DEF With
  <2>6. Shape(added)
    BY <1>1, <2>1, <2>4, <2>5 DEF Sound, Shape
  <2>7. Exact(added.send_streams_, added.send_ssrcs_)
    <3>1. First(stream.params) = first /\ Ssrcs(stream.params) \cap c.send_ssrcs_ = {}
      BY <1>1, <1>3 DEF first
    <3>2. Exact(With(c.send_streams_, first, stream), c.send_ssrcs_ \cup Ssrcs(stream.params))
      BY <2>2, <2>3, <3>1, ExactWith
    <3> QED
      BY <1>1, <2>4, <3>2
  <2>8. Exact(added.receive_streams_, added.receive_ssrcs_)
    BY <2>4 DEF Sound, Books
  <2> QED
    BY <2>4, <2>6, <2>7, <2>8 DEF Tame, Sound, Books, Defaults
<1>4. ASSUME Tame(c, added)
      PROVE  Tame(c, SetLocalSsrcOnAll(report, first))
  <2> HIDE DEF added, first
  <2>1. Same(added, report)
    BY <1>4 DEF Tame, Same, Sound, Shape, Fields
  <2> HIDE DEF report
  <2>2. Tame(c, report) /\ Sound(report)
    BY <1>4, <2>1, SameTame, TameAgain DEF Tame
  <2> QED
    BY <2>2, SetLocalSsrcTame, TameAgain
<1> HIDE DEF added, report, d, first
<1>5. Tame(c, c)
  BY TameItself
<1>6. Tame(c, d)
  BY <1>2, <1>3, <1>4, <1>5, TameOk
<1> QED
  BY <1>6 DEF d

LEMMA RemoveSendTame ==
  ASSUME NEW c, Sound(c), NEW ssrc
  PROVE  Tame(c, RemoveSendStream(c, ssrc))
<1> DEFINE left == [c EXCEPT !.send_streams_ = Without(@, ssrc),
                             !.send_ssrcs_ = @ \ Ssrcs(c.send_streams_[ssrc].params)]
           to == IF DOMAIN left.send_streams_ = {} THEN DefaultReportSsrc
                 ELSE CHOOSE s \in DOMAIN left.send_streams_ :
                        \A t \in DOMAIN left.send_streams_ : s <= t
           report == [left EXCEPT !.rtcp_receiver_report_ssrc_ = to]
           d == RemoveSendStream(c, ssrc)
<1>1. \/ d = Ok(c, FALSE)
      \/ /\ ssrc \in DOMAIN c.send_streams_
         /\ d = Ok(SetLocalSsrcOnAll(report, to), TRUE) \/ d = Ok(left, TRUE)
  BY DEF RemoveSendStream
<1>2. ASSUME ssrc \in DOMAIN c.send_streams_
      PROVE  Tame(c, left)
  <2>1. /\ DOMAIN left = Fields
        /\ left.send_streams_ = [s \in DOMAIN c.send_streams_ \ {ssrc} |-> c.send_streams_[s]]
        /\ left.send_ssrcs_ = c.send_ssrcs_ \ Ssrcs(c.send_streams_[ssrc].params)
        /\ left.receive_streams_ = c.receive_streams_ /\ left.receive_ssrcs_ = c.receive_ssrcs_
        /\ left.unsignaled_stream_params_ = c.unsignaled_stream_params_
        /\ left.buffered = c.buffered /\ left.pending_criteria = c.pending_criteria
        /\ left.delivered = c.delivered
    BY DEF Sound, Shape, Fields, Without
  <2> HIDE DEF left
  <2>2. /\ DOMAIN left.send_streams_ = DOMAIN c.send_streams_ \ {ssrc}
        /\ \A s \in DOMAIN left.send_streams_ : left.send_streams_[s] = c.send_streams_[s]
    BY <2>1
  <2>3. Shape(left)
    BY <2>1, <2>2 DEF Sound, Shape
  <2>4. Exact(left.send_streams_, left.send_ssrcs_)
    <3>1. UNION {Ssrcs(c.send_streams_[s].params) : s \in {ssrc}} = Ssrcs(c.send_streams_[ssrc].params)
      OBVIOUS
    <3>2. Exact(c.send_streams_, c.send_ssrcs_)
      BY DEF Sound, Books
    <3>3. {ssrc} \in SUBSET DOMAIN c.send_streams_
      BY <1>2
    <3>4. Exact([s \in DOMAIN c.send_streams_ \ {ssrc} |-> c.send_streams_[s]],
                c.send_ssrcs_ \ UNION {Ssrcs(c.send_streams_[s].params) : s \in {ssrc}})
      BY <3>2, <3>3, ExactWithout
    <3> QED
      BY <2>1, <3>1, <3>4
  <2>5. Exact(left.receive_streams_, left.receive_ssrcs_)
    BY <2>1 DEF Sound, Books
  <2> QED
    BY <2>1, <2>3, <2>4, <2>5 DEF Tame, Sound, Books, Defaults
<1>3. ASSUME Tame(c, left)
      PROVE  Tame(c, SetLocalSsrcOnAll(report, to))
  <2> HIDE DEF left, to
  <2>1. Same(left, report)
    BY <1>3 DEF Tame, Same, Sound, Shape, Fields
  <2> HIDE DEF report
  <2>2. Tame(c, report) /\ Sound(report)
    BY <1>3, <2>1, SameTame, TameAgain DEF Tame
  <2> QED
    BY <2>2, SetLocalSsrcTame, TameAgain
<1> HIDE DEF left, report, d, to
<1>4. Tame(c, c)
  BY TameItself
<1>5. Tame(c, d)
  BY <1>1, <1>2, <1>3, <1>4, TameOk
<1> QED
  BY <1>5 DEF d

-----------------------------------------------------------------------------
(* A description: streams go and streams come.                              *)

Kept(d) == Tame(ch, d)
Streams == wpc.then.content.streams

OldRemote == INSTANCE SequenceFacts WITH
               FoldStep <- LAMBDA acc, sp : RemoveOld(acc, sp, Streams)
NewRemote == INSTANCE SequenceFacts WITH FoldStep <- AddNew
OldLocal  == INSTANCE SequenceFacts WITH
               FoldStep <- LAMBDA acc, sp : RemoveOldLocal(acc, sp, Streams)
NewLocal  == INSTANCE SequenceFacts WITH FoldStep <- AddNewLocal

LEMMA StepsTame ==
  ASSUME NEW c, Tame(ch, c), NEW sp \in StreamParams, NEW streams
  PROVE  /\ Tame(ch, RemoveOld(c, sp, streams)) /\ Tame(ch, AddNew(c, sp))
         /\ Tame(ch, RemoveOldLocal(c, sp, streams)) /\ Tame(ch, AddNewLocal(c, sp))
<1>1. Sound(c) /\ "ssrcs" \in DOMAIN sp
  BY DEF Tame, StreamParams
<1>2. /\ Tame(ch, ResetUnsignaledRecvStream(c)) /\ \A s : Tame(ch, RemoveRecvStream(c, s))
      /\ Tame(ch, AddRecvStream(c, sp)) /\ Tame(ch, AddSendStream(c, sp))
      /\ \A s : Tame(ch, RemoveSendStream(c, s))
  BY <1>1, ResetTame, RemoveRecvTame, AddRecvTame, AddSendTame, RemoveSendTame, TameAgain
<1>3. Tame(ch, RemoveOld(c, sp, streams))
  <2>1. CASE sp.ssrcs = <<>> /\ ~HasNoSsrcs(streams)
    BY <1>2, <2>1, TameOk DEF RemoveOld
  <2>2. CASE sp.ssrcs # <<>> /\ ~Known(streams, sp)
    BY <1>2, <2>2, TameOk DEF RemoveOld
  <2>3. CASE ~(\/ sp.ssrcs = <<>> /\ ~HasNoSsrcs(streams)
               \/ sp.ssrcs # <<>> /\ ~Known(streams, sp))
    BY <2>3 DEF RemoveOld
  <2> QED
    BY <2>1, <2>2, <2>3
<1>4. Tame(ch, AddNew(c, sp))
  BY <1>2, TameOk DEF AddNew
<1>5. Tame(ch, RemoveOldLocal(c, sp, streams))
  BY <1>2, TameOk DEF RemoveOldLocal
<1>6. Tame(ch, AddNewLocal(c, sp))
  BY <1>2, TameOk DEF AddNewLocal
<1> QED
  BY <1>3, <1>4, <1>5, <1>6

LEMMA UpdateRemoteTame ==
  ASSUME Sound(ch), remote_streams_ \in Seq(StreamParams), Streams \in Seq(StreamParams)
  PROVE  Tame(ch, UpdateRemoteStreams(ch, Streams))
<1> DEFINE base == Ok(ch, TRUE)
           left == OldRemote!Folded(base, remote_streams_)
<1>1. Kept(base)
  BY TameItself, TameOk DEF Kept
<1>2. Kept(left)
  <2> DEFINE Values == OldRemote!Visited(base, remote_streams_)
             Good == {c \in Values : Kept(c)}
  <2>1. \A c : \A x \in StreamParams : Kept(c) => Kept(RemoveOld(c, x, Streams))
    BY StepsTame DEF Kept
  <2> HIDE DEF base
  <2>2. /\ base \in Values => base \in Good
        /\ \A c \in Good : \A x \in StreamParams : RemoveOld(c, x, Streams) \in Values => RemoveOld(c, x, Streams) \in Good
    BY <1>1, <2>1
  <2> HIDE DEF Good
  <2>3. OldRemote!Folded(base, remote_streams_) \in Good
    BY <2>2, OldRemote!FoldPreserves, Zenon
  <2> QED
    BY <2>3 DEF Good, left
<1>3. Kept(NewRemote!Folded(left, Streams))
  <2> DEFINE Values == NewRemote!Visited(left, Streams)
             Good == {c \in Values : Kept(c)}
  <2>1. \A c : \A x \in StreamParams : Kept(c) => Kept(AddNew(c, x))
    BY StepsTame DEF Kept
  <2> HIDE DEF left
  <2>2. /\ left \in Values => left \in Good
        /\ \A c \in Good : \A x \in StreamParams : AddNew(c, x) \in Values => AddNew(c, x) \in Good
    BY <1>2, <2>1
  <2> HIDE DEF Good
  <2>3. NewRemote!Folded(left, Streams) \in Good
    BY <2>2, NewRemote!FoldPreserves, Zenon
  <2> QED
    BY <2>3 DEF Good
<1>4. left = FoldLeft(LAMBDA acc, sp : RemoveOld(acc, sp, Streams), base, remote_streams_)
  BY Zenon DEF OldRemote!Folded, OldRemote!Greatest, FoldLeft, MapThenFoldSet, Max
<1>5. NewRemote!Folded(left, Streams) = FoldLeft(AddNew, left, Streams)
  <2> HIDE DEF left
  <2> QED
    BY Zenon DEF NewRemote!Folded, NewRemote!Greatest, FoldLeft, MapThenFoldSet, Max
<1> QED
  BY <1>3, <1>4, <1>5 DEF UpdateRemoteStreams, Kept

LEMMA UpdateLocalTame ==
  ASSUME Sound(ch), local_streams_ \in Seq(StreamParams), Streams \in Seq(StreamParams)
  PROVE  Tame(ch, UpdateLocalStreams(ch, Streams))
<1> DEFINE base == Ok(ch, TRUE)
           left == OldLocal!Folded(base, local_streams_)
<1>1. Kept(base)
  BY TameItself, TameOk DEF Kept
<1>2. Kept(left)
  <2> DEFINE Values == OldLocal!Visited(base, local_streams_)
             Good == {c \in Values : Kept(c)}
  <2>1. \A c : \A x \in StreamParams : Kept(c) => Kept(RemoveOldLocal(c, x, Streams))
    BY StepsTame DEF Kept
  <2> HIDE DEF base
  <2>2. /\ base \in Values => base \in Good
        /\ \A c \in Good : \A x \in StreamParams : RemoveOldLocal(c, x, Streams) \in Values => RemoveOldLocal(c, x, Streams) \in Good
    BY <1>1, <2>1
  <2> HIDE DEF Good
  <2>3. OldLocal!Folded(base, local_streams_) \in Good
    BY <2>2, OldLocal!FoldPreserves, Zenon
  <2> QED
    BY <2>3 DEF Good, left
<1>3. Kept(NewLocal!Folded(left, Streams))
  <2> DEFINE Values == NewLocal!Visited(left, Streams)
             Good == {c \in Values : Kept(c)}
  <2>1. \A c : \A x \in StreamParams : Kept(c) => Kept(AddNewLocal(c, x))
    BY StepsTame DEF Kept
  <2> HIDE DEF left
  <2>2. /\ left \in Values => left \in Good
        /\ \A c \in Good : \A x \in StreamParams : AddNewLocal(c, x) \in Values => AddNewLocal(c, x) \in Good
    BY <1>2, <2>1
  <2> HIDE DEF Good
  <2>3. NewLocal!Folded(left, Streams) \in Good
    BY <2>2, NewLocal!FoldPreserves, Zenon
  <2> QED
    BY <2>3 DEF Good
<1>4. left = FoldLeft(LAMBDA acc, sp : RemoveOldLocal(acc, sp, Streams), base, local_streams_)
  BY Zenon DEF OldLocal!Folded, OldLocal!Greatest, FoldLeft, MapThenFoldSet, Max
<1>5. NewLocal!Folded(left, Streams) = FoldLeft(AddNewLocal, left, Streams)
  <2> HIDE DEF left
  <2> QED
    BY Zenon DEF NewLocal!Folded, NewLocal!Greatest, FoldLeft, MapThenFoldSet, Max
<1> QED
  BY <1>3, <1>4, <1>5 DEF UpdateLocalStreams, Kept

-----------------------------------------------------------------------------
(* A packet.                                                                *)

LEMMA DeliverSound ==
  ASSUME NEW c, Sound(c), NEW packet
  PROVE  LET d == DeliverPacket(c, packet)
         IN  /\ Sound(d) /\ d.pending_criteria = c.pending_criteria /\ Defaults(d) = Defaults(c)
             /\ d.delivered = c.delivered \/ d.delivered = Append(c.delivered, packet.id)
<1> DEFINE e == [c EXCEPT !.delivered = Append(@, packet.id)]
<1>1. /\ DOMAIN e = Fields
      /\ e.receive_streams_ = c.receive_streams_ /\ e.receive_ssrcs_ = c.receive_ssrcs_
      /\ e.send_streams_ = c.send_streams_ /\ e.send_ssrcs_ = c.send_ssrcs_
      /\ e.unsignaled_stream_params_ = c.unsignaled_stream_params_
      /\ e.buffered = c.buffered /\ e.pending_criteria = c.pending_criteria
      /\ e.delivered = Append(c.delivered, packet.id)
  BY DEF Sound, Shape, Fields
<1>2. DeliverPacket(c, packet) = e \/ DeliverPacket(c, packet) = c
  BY DEF DeliverPacket
<1> HIDE DEF e
<1>3. Sound(e) /\ e.pending_criteria = c.pending_criteria /\ Defaults(e) = Defaults(c)
  BY <1>1 DEF Sound, Shape, Books, Defaults
<1> QED
  BY <1>1, <1>2, <1>3

LEMMA UnsignalledSound ==
  ASSUME NEW c, Sound(c), NEW ssrc
  PROVE  LET d == OnUnsignalledSsrc(c, ssrc)
         IN  Sound(d) /\ d.pending_criteria = c.pending_criteria /\ d.delivered = c.delivered
<1> DEFINE freed == IF Defaults(c) = {} THEN c ELSE RemoveRecvStream(c, CHOOSE s \in Defaults(c) : TRUE)
           sp == [c.unsignaled_stream_params_ EXCEPT !.ssrcs = <<ssrc>>]
           made == AddRecvStreamAs(freed, sp, TRUE)
           later == SetBaseMinimumPlayoutDelayMs(made, ssrc, made.default_delay)
           d == SetSink(later, ssrc, made.default_sink_)
<1>1. Tame(c, freed)
  BY RemoveRecvTame, TameItself
<1>2. "ssrcs" \in DOMAIN sp
  BY DEF Sound, Shape
<1>3. Sound(made) /\ made.pending_criteria = c.pending_criteria /\ made.delivered = c.delivered
  <2> HIDE DEF freed, sp
  <2> QED
    BY <1>1, <1>2, AddRecvAs DEF Tame
<1>4. d = OnUnsignalledSsrc(c, ssrc)
  BY DEF OnUnsignalledSsrc
<1> HIDE DEF made
<1>5. Tame(made, later) /\ Sound(later)
  BY <1>3, SetDelaySame, SameTame DEF Tame
<1> HIDE DEF later
<1>6. Tame(later, d)
  BY <1>5, SetSinkSame, SameTame
<1> HIDE DEF d
<1> QED
  BY <1>3, <1>4, <1>5, <1>6 DEF Tame

LEMMA PacketSound ==
  ASSUME NEW c, Sound(c), NEW packet
  PROVE  LET d == OnPacketReceived(c, packet)
         IN  /\ Sound(d) /\ d.pending_criteria = c.pending_criteria
             /\ Defaults(d) \subseteq Defaults(c) \/ c.pending_criteria = 0
             /\ d.delivered = c.delivered \/ d.delivered = Append(c.delivered, packet.id)
<1> DEFINE told == OnUnsignalledSsrc(c, packet.ssrc)
           made == DeliverPacket(told, packet)
           hot == [made EXCEPT !.cooldown = TRUE]
           d == OnPacketReceived(c, packet)
<1>1. \/ d = DeliverPacket(c, packet)
      \/ d = hot /\ c.pending_criteria = 0
      \/ d = c
  <2>1. CASE CallKnows(c, packet.ssrc)
    BY <2>1 DEF OnPacketReceived, MakesDefault
  <2>2. CASE ~CallKnows(c, packet.ssrc) /\ MakesDefault(c, packet)
    BY <2>2 DEF OnPacketReceived, MakesDefault
  <2>3. CASE ~CallKnows(c, packet.ssrc) /\ ~MakesDefault(c, packet)
    BY <2>3 DEF OnPacketReceived, Sound, Shape
  <2> QED
    BY <2>1, <2>2, <2>3
<1>2. /\ Sound(made) /\ made.pending_criteria = c.pending_criteria
      /\ made.delivered = c.delivered \/ made.delivered = Append(c.delivered, packet.id)
  <2>1. Sound(told) /\ told.pending_criteria = c.pending_criteria /\ told.delivered = c.delivered
    BY UnsignalledSound
  <2> HIDE DEF told
  <2> QED
    BY <2>1, DeliverSound
<1>3. Sound(hot) /\ hot.pending_criteria = c.pending_criteria /\ hot.delivered = made.delivered
  <2> HIDE DEF made
  <2>1. Same(made, hot)
    BY <1>2 DEF Same, Sound, Shape, Fields
  <2> HIDE DEF hot
  <2> QED
    BY <1>2, <2>1, SameTame DEF Tame
<1> HIDE DEF hot, d
<1>4. /\ Sound(d) /\ d.pending_criteria = c.pending_criteria
      /\ Defaults(d) \subseteq Defaults(c) \/ c.pending_criteria = 0
  BY <1>1, <1>3, DeliverSound
<1>5. d.delivered = c.delivered \/ d.delivered = Append(c.delivered, packet.id)
  <2> HIDE DEF made
  <2> QED
    BY <1>1, <1>2, <1>3, DeliverSound
<1> QED
  BY <1>4, <1>5 DEF d

-----------------------------------------------------------------------------
(* The tasks of the worker.                                                 *)

Criteria == [mid : BOOLEAN, ssrcs : SUBSET Int, pts : BOOLEAN]

Task ==
  [do : {"local"}, content : LocalContents] \cup [do : {"remote"}, content : RemoteContents]
  \cup [do : {"demuxing", "enable"}, to : BOOLEAN]
  \cup [do : {"sink", "delay", "close", "writable", "complete"}]
  \cup [do : {"packet"}, id : Nat, under : Criteria]

Completes(ts) == {i \in DOMAIN ts : ts[i].do = "complete"}

\* A packet given under other criteria than s is followed by word of the change.
Fresh(ts, s) ==
  \A i \in DOMAIN ts : ts[i].do = "packet" /\ ts[i].under # s =>
    \E j \in DOMAIN ts : i < j /\ ts[j].do = "complete"

LEMMA CompletesFinite ==
  ASSUME NEW ts \in Seq(Task)
  PROVE  IsFiniteSet(Completes(ts)) /\ Cardinality(Completes(ts)) \in Nat
<1>1. Completes(ts) \subseteq 1..Len(ts) /\ Len(ts) \in Nat
  BY DEF Completes
<1>2. IsFiniteSet(1..Len(ts))
  BY <1>1, FS_Interval
<1> QED
  BY <1>1, <1>2, FS_Subset, FS_CardinalityType

LEMMA PostTask ==
  ASSUME NEW ts \in Seq(Task), NEW t \in Task, NEW s, t.do # "complete",
         t.do = "packet" => t.under = s
  PROVE  /\ Append(ts, t) \in Seq(Task) /\ Completes(Append(ts, t)) = Completes(ts)
         /\ Fresh(ts, s) => Fresh(Append(ts, t), s)
<1> DEFINE u == Append(ts, t)
<1>1. /\ u \in Seq(Task) /\ Len(ts) \in Nat /\ DOMAIN ts = 1..Len(ts) /\ DOMAIN u = 1..(Len(ts) + 1)
      /\ u[Len(ts) + 1] = t /\ \A i \in 1..Len(ts) : u[i] = ts[i]
  OBVIOUS
<1> HIDE DEF u
<1>2. Completes(u) = Completes(ts)
  BY <1>1 DEF Completes
<1>3. Fresh(ts, s) => Fresh(u, s)
  BY <1>1 DEF Fresh
<1> QED
  BY <1>1, <1>2, <1>3 DEF u

LEMMA PostComplete ==
  ASSUME NEW ts \in Seq(Task), NEW s
  PROVE  LET u == Append(ts, [do |-> "complete"])
         IN  /\ u \in Seq(Task) /\ Fresh(u, s)
             /\ Cardinality(Completes(u)) = Cardinality(Completes(ts)) + 1
<1> DEFINE t == [do |-> "complete"]
           u == Append(ts, t)
<1>1. t \in Task /\ t.do = "complete"
  BY DEF Task
<1> HIDE DEF t
<1>2. /\ u \in Seq(Task) /\ Len(ts) \in Nat /\ DOMAIN ts = 1..Len(ts) /\ DOMAIN u = 1..(Len(ts) + 1)
      /\ u[Len(ts) + 1] = t /\ \A i \in 1..Len(ts) : u[i] = ts[i]
  BY <1>1
<1> HIDE DEF u
<1>3. Completes(u) = Completes(ts) \cup {Len(ts) + 1} /\ Len(ts) + 1 \notin Completes(ts)
  BY <1>1, <1>2 DEF Completes
<1>4. Cardinality(Completes(u)) = Cardinality(Completes(ts)) + 1
  BY <1>3, CompletesFinite, FS_AddElement
<1>5. Fresh(u, s)
  <2>1. \A i \in DOMAIN u : u[i].do = "packet" => i < Len(ts) + 1
    BY <1>1, <1>2
  <2> QED
    BY <1>1, <1>2, <2>1 DEF Fresh
<1> QED
  BY <1>2, <1>4, <1>5 DEF u, t

LEMMA TakeTask ==
  ASSUME NEW ts \in Seq(Task), ts # <<>>, NEW s
  PROVE  /\ Head(ts) \in Task /\ Tail(ts) \in Seq(Task)
         /\ Fresh(ts, s) => Fresh(Tail(ts), s)
         /\ Cardinality(Completes(ts))
              = Cardinality(Completes(Tail(ts))) + (IF Head(ts).do = "complete" THEN 1 ELSE 0)
         /\ Cardinality(Completes(ts)) = 0 /\ Fresh(ts, s) /\ Head(ts).do = "packet" => Head(ts).under = s
<1> DEFINE u == Tail(ts)
           rest == Completes(ts) \ {1}
           next == [i \in Completes(u) |-> i + 1]
<1>1. /\ u \in Seq(Task) /\ Len(ts) \in Nat \ {0} /\ DOMAIN ts = 1..Len(ts) /\ DOMAIN u = 1..(Len(ts) - 1)
      /\ \A i \in 1..(Len(ts) - 1) : u[i] = ts[i + 1]
      /\ Head(ts) = ts[1] /\ Head(ts) \in Task
  OBVIOUS
<1>2. IsFiniteSet(Completes(u)) /\ IsFiniteSet(Completes(ts)) /\ IsFiniteSet(rest)
  BY <1>1, CompletesFinite, FS_RemoveElement
<1> HIDE DEF u
<1>3. Cardinality(Completes(u)) = Cardinality(rest)
  <2>1. \A i \in Completes(u) : i + 1 \in rest
    BY <1>1 DEF Completes
  <2>2. \A i \in rest : i - 1 \in Completes(u) /\ (i - 1) + 1 = i
    BY <1>1 DEF Completes
  <2>3. \A i, j \in Completes(u) : i + 1 = j + 1 => i = j
    BY <1>1 DEF Completes
  <2>4. next \in [Completes(u) -> rest] /\ \A i \in Completes(u) : next[i] = i + 1
    BY <2>1
  <2>5. next \in Injection(Completes(u), rest)
    BY <2>3, <2>4 DEF Injection, IsInjective
  <2>6. \A i \in rest : next[i - 1] = i
    BY <2>2, <2>4
  <2>7. next \in Surjection(Completes(u), rest)
    BY <2>2, <2>4, <2>6 DEF Surjection
  <2>8. next \in Bijection(Completes(u), rest)
    BY <2>5, <2>7 DEF Bijection
  <2> QED
    BY <1>2, <2>8, FS_Bijection DEF ExistsBijection
<1>4. Cardinality(Completes(ts)) = Cardinality(rest) + (IF Head(ts).do = "complete" THEN 1 ELSE 0)
  <2>1. CASE Head(ts).do = "complete"
    <3>1. 1 \in Completes(ts)
      BY <1>1, <2>1 DEF Completes
    <3> QED
      BY <1>2, <2>1, <3>1, FS_RemoveElement, FS_CardinalityType
  <2>2. CASE Head(ts).do # "complete"
    <3>1. rest = Completes(ts)
      BY <1>1, <2>2 DEF Completes
    <3>2. Cardinality(rest) \in Nat
      BY <1>2, FS_CardinalityType
    <3> HIDE DEF rest
    <3>3. Cardinality(rest) = Cardinality(rest) + 0
      BY <3>2
    <3> QED
      BY <2>2, <3>1, <3>3, Zenon
  <2> QED
    BY <2>1, <2>2
<1>5. ASSUME Fresh(ts, s)
      PROVE  Fresh(u, s)
  <2> SUFFICES ASSUME NEW i \in DOMAIN u, u[i].do = "packet", u[i].under # s
               PROVE  \E j \in DOMAIN u : i < j /\ u[j].do = "complete"
    BY DEF Fresh
  <2>1. i + 1 \in DOMAIN ts /\ ts[i + 1] = u[i]
    BY <1>1
  <2>2. PICK j \in DOMAIN ts : i + 1 < j /\ ts[j].do = "complete"
    BY <1>5, <2>1 DEF Fresh
  <2>3. j - 1 \in DOMAIN u /\ i < j - 1 /\ u[j - 1] = ts[j]
    BY <1>1, <2>2
  <2> QED
    BY <2>2, <2>3
<1>6. Cardinality(Completes(ts)) = 0 /\ Fresh(ts, s) /\ Head(ts).do = "packet" => Head(ts).under = s
  <2>1. Cardinality(Completes(ts)) = 0 => Completes(ts) = {}
    BY <1>2, FS_EmptySet
  <2> QED
    BY <1>1, <2>1 DEF Completes, Fresh
<1> QED
  BY <1>1, <1>3, <1>4, <1>5, <1>6 DEF u

-----------------------------------------------------------------------------
(* What the transport keeps, and what it posts.                             *)

Packets == [ssrc : VideoSsrcs \cup {OtherSsrc}, id : Nat, rtx : BOOLEAN]

StashOk(b) ==
  /\ b \in [buffer_ : Seq(Packets), insert_pos_ : 0..(MaxStashedPackets - 1)]
  /\ Len(b.buffer_) <= MaxStashedPackets

LEMMA StoredSeq ==
  ASSUME NEW b, StashOk(b)
  PROVE  Stored(b) \in Seq(Packets)
<1>1. MaxStashedPackets \in Nat \ {0} /\ b.buffer_ \in Seq(Packets) /\ Len(b.buffer_) \in Nat
      /\ b.insert_pos_ \in Nat /\ Len(b.buffer_) <= MaxStashedPackets
  BY StashAssumption DEF StashOk
<1>2. ASSUME NEW i \in 1..Len(b.buffer_), NEW start \in Nat, Full(b) \/ start = 0
      PROVE  (((i - 1) + start) % MaxStashedPackets) + 1 \in 1..Len(b.buffer_)
  <2>1. CASE Full(b)
    <3>1. (i - 1) + start \in Nat
      BY <1>1
    <3>2. ((i - 1) + start) % MaxStashedPackets \in 0..(MaxStashedPackets - 1)
      BY <1>1, <3>1
    <3> QED
      BY <1>1, <2>1, <3>2 DEF Full
  <2>2. CASE start = 0
    <3>1. (i - 1) + start = i - 1 /\ i - 1 \in 0..(MaxStashedPackets - 1)
      BY <1>1, <2>2
    <3>2. (i - 1) % MaxStashedPackets = i - 1
      BY <1>1, <3>1
    <3> QED
      BY <1>1, <3>1, <3>2
  <2> QED
    BY <1>2, <2>1, <2>2
<1> DEFINE start == IF Full(b) THEN b.insert_pos_ ELSE 0
<1>3. start \in Nat /\ (Full(b) \/ start = 0)
  BY <1>1
<1>4. Stored(b) = [i \in 1..Len(b.buffer_) |-> b.buffer_[(((i - 1) + start) % MaxStashedPackets) + 1]]
  BY DEF Stored
<1> HIDE DEF start
<1>5. \A i \in 1..Len(b.buffer_) : b.buffer_[(((i - 1) + start) % MaxStashedPackets) + 1] \in Packets
  <2>1. \A k \in 1..Len(b.buffer_) : b.buffer_[k] \in Packets
    BY <1>1
  <2>2. \A i \in 1..Len(b.buffer_) :
          (((i - 1) + start) % MaxStashedPackets) + 1 \in 1..Len(b.buffer_)
    BY <1>2, <1>3
  <2> QED
    BY <2>1, <2>2
<1> QED
  BY <1>1, <1>4, <1>5

LEMMA AddPacketOk ==
  ASSUME NEW b, StashOk(b), NEW p \in Packets
  PROVE  StashOk(AddPacket(b, p))
<1> DEFINE buffer == IF Full(b) THEN [b.buffer_ EXCEPT ![b.insert_pos_ + 1] = p] ELSE Append(b.buffer_, p)
           pos == (b.insert_pos_ + 1) % MaxStashedPackets
<1>1. MaxStashedPackets \in Nat \ {0} /\ b.buffer_ \in Seq(Packets) /\ Len(b.buffer_) \in Nat
      /\ b.insert_pos_ \in Nat /\ Len(b.buffer_) <= MaxStashedPackets
  BY StashAssumption DEF StashOk
<1>2. buffer \in Seq(Packets) /\ Len(buffer) <= MaxStashedPackets
  <2>1. CASE Full(b)
    <3>1. b.insert_pos_ + 1 \in 1..Len(b.buffer_)
      BY <1>1, <2>1 DEF Full, StashOk
    <3>2. /\ [b.buffer_ EXCEPT ![b.insert_pos_ + 1] = p] \in Seq(Packets)
          /\ Len([b.buffer_ EXCEPT ![b.insert_pos_ + 1] = p]) = Len(b.buffer_)
      BY <1>1, <3>1, ExceptSeq
    <3> QED
      BY <1>1, <2>1, <3>2
  <2>2. CASE ~Full(b)
    <3>1. Append(b.buffer_, p) \in Seq(Packets) /\ Len(Append(b.buffer_, p)) = Len(b.buffer_) + 1
      BY <1>1
    <3>2. Len(b.buffer_) + 1 <= MaxStashedPackets
      BY <1>1, <2>2 DEF Full
    <3> QED
      BY <2>2, <3>1, <3>2
  <2> QED
    BY <2>1, <2>2
<1>3. pos \in 0..(MaxStashedPackets - 1)
  <2>1. b.insert_pos_ + 1 \in Nat
    BY <1>1
  <2> QED
    BY <1>1, <2>1
<1>4. AddPacket(b, p) = [buffer_ |-> buffer, insert_pos_ |-> pos]
  BY DEF AddPacket
<1> HIDE DEF buffer, pos
<1> QED
  BY <1>2, <1>3, <1>4 DEF StashOk

\* What the transport backfills.
Wanted == {q \in Range(stash.buffer_) : Routed(q)}
ArePackets(given) == given \in Seq(Packets)
Backfill == INSTANCE SequenceFacts WITH
              FoldStep <- LAMBDA given, p : IF p \in Wanted THEN Append(given, p) ELSE given

LEMMA BackfillOk ==
  ASSUME StashOk(stash)
  PROVE  LET fill == MaybeBackfillPackets(stash, Wanted)
         IN  fill.given \in Seq(Packets) /\ StashOk(fill.left)
<1>1. Those(stash, Wanted) \in Seq(Packets)
  <2>1. Stored(stash) \in Seq(Packets)
    BY StoredSeq
  <2>2. ArePackets(<<>>)
    BY DEF ArePackets
  <2>3. \A c : \A x \in Packets :
          ArePackets(c) => ArePackets(IF x \in Wanted THEN Append(c, x) ELSE c)
    BY DEF ArePackets
  <2>4. ArePackets(Backfill!Folded(<<>>, Stored(stash)))
    <3> DEFINE Values == Backfill!Visited(<<>>, Stored(stash))
               Good == {c \in Values : ArePackets(c)}
               Filled(c, x) == IF x \in Wanted THEN Append(c, x) ELSE c
    <3>1. /\ <<>> \in Values => <<>> \in Good
          /\ \A c \in Good : \A x \in Packets : Filled(c, x) \in Values => Filled(c, x) \in Good
      BY <2>2, <2>3
    <3> HIDE DEF Good
    <3>2. Backfill!Folded(<<>>, Stored(stash)) \in Good
      BY <2>1, <3>1, Backfill!FoldPreserves, Zenon
    <3> QED
      BY <3>2 DEF Good
  <2>5. Backfill!Folded(<<>>, Stored(stash)) = Those(stash, Wanted)
    BY Zenon DEF Those, Backfill!Folded, Backfill!Greatest, FoldLeft, MapThenFoldSet, Max
  <2> QED
    BY <2>4, <2>5 DEF ArePackets
<1>2. StashOk(EmptyBuffer)
  BY StashAssumption DEF StashOk, EmptyBuffer
<1> QED
  BY <1>1, <1>2 DEF MaybeBackfillPackets

\* What it posts are packets under the criteria in force.
Posted(ts) ==
  /\ ts \in Seq(Task) /\ Completes(ts) = Completes(tasks)
  /\ Fresh(tasks, sink) => Fresh(ts, sink)

Posting == INSTANCE SequenceFacts WITH FoldStep <- OnRtpPacket

LEMMA PostingOk ==
  ASSUME tasks \in Seq(Task), sink \in Criteria, NEW packets \in Seq(Packets)
  PROVE  Posted(FoldLeft(OnRtpPacket, tasks, packets))
<1>1. Posted(tasks)
  BY DEF Posted
<1>2. \A c : \A q \in Packets : Posted(c) => Posted(OnRtpPacket(c, q))
  <2> SUFFICES ASSUME NEW c, NEW q \in Packets, Posted(c)
               PROVE  Posted(OnRtpPacket(c, q))
    OBVIOUS
  <2> DEFINE t == [do |-> "packet", id |-> q.id, under |-> sink]
  <2>1. t \in Task /\ t.do = "packet" /\ t.under = sink
    BY DEF Task, Packets
  <2>2. OnRtpPacket(c, q) = c \/ OnRtpPacket(c, q) = Append(c, t)
    BY DEF OnRtpPacket
  <2> HIDE DEF t
  <2>3. c \in Seq(Task)
    BY DEF Posted
  <2>4. /\ Append(c, t) \in Seq(Task) /\ Completes(Append(c, t)) = Completes(c)
        /\ Fresh(c, sink) => Fresh(Append(c, t), sink)
    BY <2>1, <2>3, PostTask
  <2> QED
    BY <2>2, <2>4 DEF Posted
<1>3. Posted(Posting!Folded(tasks, packets))
  <2> DEFINE Values == Posting!Visited(tasks, packets)
             Good == {c \in Values : Posted(c)}
  <2>1. /\ tasks \in Values => tasks \in Good
        /\ \A c \in Good : \A x \in Packets : OnRtpPacket(c, x) \in Values => OnRtpPacket(c, x) \in Good
    BY <1>1, <1>2
  <2> HIDE DEF Good
  <2>2. Posting!Folded(tasks, packets) \in Good
    BY <2>1, Posting!FoldPreserves, Zenon
  <2> QED
    BY <2>2 DEF Good
<1>4. Posting!Folded(tasks, packets) = FoldLeft(OnRtpPacket, tasks, packets)
  BY Zenon DEF Posting!Folded, Posting!Greatest, FoldLeft, MapThenFoldSet, Max
<1> QED
  BY <1>3, <1>4

-----------------------------------------------------------------------------
(* The states of the section.                                               *)

Then ==
  [do : {"local"}, content : LocalContents] \cup [do : {"streams", "remote"}, content : RemoteContents]
  \cup [do : {"demuxing", "close"}]

WorkerStates ==
  {Idle, [at |-> "closed"]} \cup [at : {"register", "run"}, then : Then, result : BOOLEAN]

Typed ==
  /\ tasks \in Seq(Task) /\ wpc \in WorkerStates
  /\ enabled_s_ \in BOOLEAN /\ payload_types_ \in BOOLEAN /\ payload_type_demuxing_enabled_ \in BOOLEAN
  /\ criteria \in Criteria /\ sink \in Criteria
  /\ local_streams_ \in Seq(StreamParams) /\ remote_streams_ \in Seq(StreamParams)
  /\ StashOk(stash) /\ sent \in Seq(VideoSsrcs \cup {OtherSsrc})

\* The worker waits for the network thread to change the criteria.
Changes(w) == w.at = "register" /\ w.then.do # "close"

\* The number of changes that word has not come of.
Counted ==
  wpc.at # "closed" =>
    ch.pending_criteria = Cardinality(Completes(tasks)) + (IF Changes(wpc) THEN 1 ELSE 0)

\* While the channel is closed nothing is said of the criteria any more, but no task
\* runs any more either.
AllFresh == Fresh(tasks, sink) \/ Runs("close")

IInv == Typed /\ Sound(ch) /\ Counted /\ AllFresh

LEMMA CountedIsPending == Counted <=> PendingIsUnderWay
BY DEF Counted, PendingIsUnderWay, Changes, Completes

LEMMA InitIInv ==
  ASSUME BufferUnknown = FALSE, Init
  PROVE  IInv
<1>1. tasks = <<>> /\ tasks \in Seq(Task) /\ Completes(tasks) = {}
  BY DEF Init, Completes
<1>2. Sound(ch)
  <2>1. /\ DOMAIN ch = Fields /\ ch.receive_streams_ = <<>> /\ ch.receive_ssrcs_ = {}
        /\ ch.send_streams_ = <<>> /\ ch.send_ssrcs_ = {} /\ ch.unsignaled_stream_params_ = NoParams
        /\ ch.buffered = FALSE
    BY DEF Init, WebRtcVideoChannel, Fields
  <2>2. DOMAIN ch.receive_streams_ = {} /\ DOMAIN ch.send_streams_ = {}
    BY <2>1
  <2>3. Exact(ch.receive_streams_, ch.receive_ssrcs_)
    BY <2>1, <2>2 DEF Exact
  <2>4. Exact(ch.send_streams_, ch.send_ssrcs_)
    BY <2>1, <2>2 DEF Exact
  <2> QED
    BY <2>1, <2>2, <2>3, <2>4 DEF Sound, Shape, Books, NoParams
<1>3. Counted
  <2>1. ch.pending_criteria = 0
    BY DEF Init, WebRtcVideoChannel
  <2>2. Cardinality(Completes(tasks)) = 0
    BY <1>1, FS_EmptySet
  <2> QED
    BY <2>1, <2>2 DEF Init, Idle, Counted, Changes
<1>4. Fresh(tasks, sink)
  BY <1>1 DEF Fresh
<1>5. Typed
  <2>1. StashOk(stash)
    BY StashAssumption DEF Init, StashOk, EmptyBuffer
  <2>2. OnlyMid \in Criteria
    BY DEF Criteria, OnlyMid, NoCriteria
  <2> QED
    <3>1. wpc \in WorkerStates /\ criteria \in Criteria /\ sink \in Criteria
      BY <2>2 DEF Init, WorkerStates
    <3>2. /\ enabled_s_ \in BOOLEAN /\ payload_types_ \in BOOLEAN
          /\ payload_type_demuxing_enabled_ \in BOOLEAN
      BY DEF Init
    <3>3. /\ local_streams_ \in Seq(StreamParams) /\ remote_streams_ \in Seq(StreamParams)
          /\ sent \in Seq(VideoSsrcs \cup {OtherSsrc})
      BY DEF Init
    <3> QED
      BY <1>1, <2>1, <3>1, <3>2, <3>3 DEF Typed
<1> QED
  BY <1>2, <1>3, <1>4, <1>5 DEF IInv, AllFresh

\* Posting a task other than those of the network thread.
LEMMA PostStep ==
  ASSUME IInv, NEW t \in Task, t.do \notin {"complete", "packet"}, Post(t), enabled_s_' \in BOOLEAN,
         UNCHANGED <<wpc, ch, section, criteria, previous, sink, stash, sent>>
  PROVE  IInv'
<1>1. /\ Append(tasks, t) \in Seq(Task) /\ Completes(Append(tasks, t)) = Completes(tasks)
      /\ Fresh(tasks, sink) => Fresh(Append(tasks, t), sink)
  BY PostTask DEF IInv, Typed
<1>2. tasks' = Append(tasks, t)
  BY DEF Post
<1>3. Typed'
  BY <1>1, <1>2 DEF IInv, Typed, section, StashOk
<1>4. Counted'
  BY <1>1, <1>2 DEF IInv, Counted
<1>5. AllFresh'
  BY <1>1, <1>2 DEF IInv, AllFresh, Runs
<1>6. Sound(ch)'
  BY DEF IInv
<1> QED
  BY <1>3, <1>4, <1>5, <1>6 DEF IInv

\* A task runs, to its end or to where the worker has to wait.
LEMMA TaskStep ==
  ASSUME IInv, NEW task, Start(task), task # "complete", UNCHANGED <<enabled_s_, sink, stash, sent>>,
         wpc' \in WorkerStates, wpc'.at # "closed", ~Runs("close")', criteria' \in Criteria,
         payload_types_' \in BOOLEAN, payload_type_demuxing_enabled_' \in BOOLEAN,
         local_streams_' \in Seq(StreamParams), remote_streams_' \in Seq(StreamParams), Sound(ch'),
         ch'.pending_criteria = ch.pending_criteria + (IF Changes(wpc') THEN 1 ELSE 0)
  PROVE  IInv'
<1>1. tasks \in Seq(Task) /\ tasks # <<>> /\ tasks' = Tail(tasks) /\ Head(tasks).do # "complete"
      /\ wpc.at = "idle"
  BY DEF IInv, Typed, Start
<1>2. /\ Tail(tasks) \in Seq(Task)
      /\ Fresh(tasks, sink) => Fresh(Tail(tasks), sink)
      /\ Cardinality(Completes(tasks))
           = Cardinality(Completes(Tail(tasks))) + (IF Head(tasks).do = "complete" THEN 1 ELSE 0)
  BY <1>1, TakeTask
<1>3. Cardinality(Completes(Tail(tasks))) \in Nat
  BY <1>2, CompletesFinite
<1>4. ch.pending_criteria = Cardinality(Completes(Tail(tasks)))
  <2>1. ch.pending_criteria = Cardinality(Completes(tasks)) + 0
    BY <1>1 DEF IInv, Counted, Changes
  <2>2. Cardinality(Completes(tasks)) = Cardinality(Completes(Tail(tasks))) + 0
    BY <1>1, <1>2
  <2> QED
    BY <1>3, <2>1, <2>2
<1>5. Typed'
  BY <1>1, <1>2 DEF IInv, Typed, StashOk
<1>6. Counted'
  BY <1>1, <1>4 DEF Counted
<1>7. AllFresh'
  BY <1>1, <1>2 DEF IInv, AllFresh, Runs
<1> QED
  BY <1>5, <1>6, <1>7 DEF IInv

\* A task goes on after the network thread.
LEMMA RunStep ==
  ASSUME IInv, NEW then, Runs(then), then # "close", UNCHANGED <<tasks, enabled_s_, sink, stash, sent>>,
         wpc' \in WorkerStates, wpc'.at # "closed", criteria' \in Criteria,
         payload_types_' \in BOOLEAN, payload_type_demuxing_enabled_' \in BOOLEAN,
         local_streams_' \in Seq(StreamParams), remote_streams_' \in Seq(StreamParams), Sound(ch'),
         ch'.pending_criteria = ch.pending_criteria + (IF Changes(wpc') THEN 1 ELSE 0)
  PROVE  IInv'
<1>1. Cardinality(Completes(tasks)) \in Nat
  BY CompletesFinite DEF IInv, Typed
<1>2. ch.pending_criteria = Cardinality(Completes(tasks))
  <2>1. ch.pending_criteria = Cardinality(Completes(tasks)) + 0
    BY DEF IInv, Counted, Changes, Runs
  <2> QED
    BY <1>1, <2>1
<1>3. Typed'
  BY DEF IInv, Typed, StashOk
<1>4. Counted'
  BY <1>2 DEF Counted
<1>5. AllFresh'
  BY DEF IInv, AllFresh, Runs
<1> QED
  BY <1>3, <1>4, <1>5 DEF IInv

LEMMA PendingNat ==
  ASSUME IInv, wpc.at # "closed"
  PROVE  ch.pending_criteria \in Nat
<1>1. Cardinality(Completes(tasks)) \in Nat
  BY CompletesFinite DEF IInv, Typed
<1> QED
  BY <1>1 DEF IInv, Counted

LEMMA RegisterStep ==
  ASSUME ch.pending_criteria \in Nat, NEW c, Sound(c), c.pending_criteria = ch.pending_criteria,
         NEW asked, NEW crit \in Criteria, NEW then \in Then, then.do # "close",
         RegisterRtpDemuxerSink_w(asked, c, crit, then)
  PROVE  /\ wpc' \in WorkerStates /\ wpc'.at # "closed" /\ ~Runs("close")' /\ criteria' \in Criteria
         /\ Sound(ch')
         /\ ch'.pending_criteria = ch.pending_criteria + (IF Changes(wpc') THEN 1 ELSE 0)
<1> DEFINE told == [c EXCEPT !.pending_criteria = @ + 1]
<1>1. /\ DOMAIN told = Fields /\ told.pending_criteria = c.pending_criteria + 1
      /\ told.receive_streams_ = c.receive_streams_ /\ told.receive_ssrcs_ = c.receive_ssrcs_
      /\ told.send_streams_ = c.send_streams_ /\ told.send_ssrcs_ = c.send_ssrcs_
      /\ told.unsignaled_stream_params_ = c.unsignaled_stream_params_
      /\ told.buffered = c.buffered
  BY DEF Sound, Shape, Fields
<1> HIDE DEF told
<1>2. Sound(told)
  BY <1>1 DEF Sound, Shape, Books
<1>3. criteria' \in Criteria
  BY DEF RegisterRtpDemuxerSink_w
<1>4. CASE asked /\ crit # previous
  <2>1. wpc' = [at |-> "register", then |-> then, result |-> TRUE] /\ ch' = told
    BY <1>4 DEF RegisterRtpDemuxerSink_w, told
  <2> QED
    BY <1>1, <1>2, <1>3, <2>1 DEF WorkerStates, Runs, Changes
<1>5. CASE ~(asked /\ crit # previous)
  <2>1. wpc' = [at |-> "run", then |-> then, result |-> TRUE] /\ ch' = c
    BY <1>5 DEF RegisterRtpDemuxerSink_w
  <2> QED
    BY <1>3, <2>1 DEF WorkerStates, Runs, Changes
<1> QED
  BY <1>4, <1>5

LEMMA ContentStreams ==
  ASSUME NEW c \in LocalContents \cup RemoteContents
  PROVE  c.streams \in Seq(StreamParams)
BY ContentAssumption

LEMMA BeginLocalStep ==
  ASSUME IInv, BeginLocal
  PROVE  IInv'
<1> DEFINE t == Head(tasks)
           crit == IF t.content.direction.recv /\ payload_type_demuxing_enabled_
                   THEN [criteria EXCEPT !.pts = TRUE] ELSE criteria
           set == SetRecvParameters(ch, t.content)
           then == [do |-> "local", content |-> t.content]
<1>1. /\ Start("local") /\ wpc.at = "idle" /\ tasks # <<>> /\ t \in Task /\ t.do = "local"
      /\ UNCHANGED <<enabled_s_, local_streams_, remote_streams_, payload_type_demuxing_enabled_,
                     sink, stash, sent>>
  BY DEF BeginLocal, Start, IInv, Typed, network
<1>2. ch.pending_criteria \in Nat /\ Sound(ch)
  BY <1>1, PendingNat DEF IInv
<1>3. Sound(set) /\ set.pending_criteria = ch.pending_criteria
  BY <1>2, SetRecvParametersTame DEF Tame
<1>4. t.content \in LocalContents /\ then \in Then /\ then.do # "close"
  BY <1>1 DEF Task, Then
<1>5. crit \in Criteria
  BY DEF IInv, Typed, Criteria
<1>6. \/ Refuse(set)
      \/ /\ RegisterRtpDemuxerSink_w(t.content.direction.recv, set, crit, then)
         /\ payload_types_' = (payload_types_ \/ t.content.direction.recv)
  BY DEF BeginLocal
<1> HIDE DEF set, crit, t, then
<1>7. CASE Refuse(set)
  <2>1. /\ wpc' = Idle /\ ch' = set /\ UNCHANGED <<criteria, payload_types_>>
    BY <1>7 DEF Refuse
  <2>2. /\ wpc' \in WorkerStates /\ wpc'.at # "closed" /\ ~Runs("close")'
        /\ ch'.pending_criteria = ch.pending_criteria + (IF Changes(wpc') THEN 1 ELSE 0)
    BY <1>2, <1>3, <2>1 DEF WorkerStates, Idle, Runs, Changes
  <2> QED
    BY <1>1, <1>3, <2>1, <2>2, TaskStep DEF IInv, Typed
<1>8. CASE /\ RegisterRtpDemuxerSink_w(t.content.direction.recv, set, crit, then)
           /\ payload_types_' = (payload_types_ \/ t.content.direction.recv)
  <2>1. payload_types_' \in BOOLEAN
    BY <1>8
  <2>2. /\ wpc' \in WorkerStates /\ wpc'.at # "closed" /\ ~Runs("close")' /\ criteria' \in Criteria
        /\ Sound(ch')
        /\ ch'.pending_criteria = ch.pending_criteria + (IF Changes(wpc') THEN 1 ELSE 0)
    BY <1>2, <1>3, <1>4, <1>5, <1>8, RegisterStep
  <2> QED
    BY <1>1, <2>1, <2>2, TaskStep DEF IInv, Typed
<1> QED
  BY <1>6, <1>7, <1>8

LEMMA BeginRemoteStep ==
  ASSUME IInv, BeginRemote
  PROVE  IInv'
<1> DEFINE c == Head(tasks).content
           crit == IF c.direction.send THEN criteria ELSE [criteria EXCEPT !.pts = FALSE]
           set == SetSendParameters(ch, c)
           then == [do |-> "streams", content |-> c]
<1>1. /\ Start("remote") /\ wpc.at = "idle" /\ tasks # <<>> /\ Head(tasks) \in Task /\ Head(tasks).do = "remote"
      /\ UNCHANGED <<enabled_s_, local_streams_, remote_streams_, payload_type_demuxing_enabled_,
                     sink, stash, sent>>
  BY DEF BeginRemote, Start, IInv, Typed, network
<1>2. ch.pending_criteria \in Nat /\ Sound(ch)
  BY <1>1, PendingNat DEF IInv
<1>3. Sound(set) /\ set.pending_criteria = ch.pending_criteria
  BY <1>2, SetSendParametersTame DEF Tame
<1>4. c \in RemoteContents /\ then \in Then /\ then.do # "close"
  BY <1>1 DEF Task, Then
<1>5. crit \in Criteria
  BY DEF IInv, Typed, Criteria
<1>6. \/ Refuse(set)
      \/ /\ RegisterRtpDemuxerSink_w(~c.direction.send, set, crit, then)
         /\ payload_types_' = (payload_types_ /\ c.direction.send)
  BY DEF BeginRemote
<1> HIDE DEF set, crit, c, then
<1>7. CASE Refuse(set)
  <2>1. /\ wpc' = Idle /\ ch' = set /\ UNCHANGED <<criteria, payload_types_>>
    BY <1>7 DEF Refuse
  <2>2. /\ wpc' \in WorkerStates /\ wpc'.at # "closed" /\ ~Runs("close")'
        /\ ch'.pending_criteria = ch.pending_criteria + (IF Changes(wpc') THEN 1 ELSE 0)
    BY <1>2, <1>3, <2>1 DEF WorkerStates, Idle, Runs, Changes
  <2> QED
    BY <1>1, <1>3, <2>1, <2>2, TaskStep DEF IInv, Typed
<1>8. CASE /\ RegisterRtpDemuxerSink_w(~c.direction.send, set, crit, then)
           /\ payload_types_' = (payload_types_ /\ c.direction.send)
  <2>1. payload_types_' \in BOOLEAN
    BY <1>8
  <2>2. /\ wpc' \in WorkerStates /\ wpc'.at # "closed" /\ ~Runs("close")' /\ criteria' \in Criteria
        /\ Sound(ch')
        /\ ch'.pending_criteria = ch.pending_criteria + (IF Changes(wpc') THEN 1 ELSE 0)
    BY <1>2, <1>3, <1>4, <1>5, <1>8, RegisterStep
  <2> QED
    BY <1>1, <2>1, <2>2, TaskStep DEF IInv, Typed
<1> QED
  BY <1>6, <1>7, <1>8

LEMMA LocalStreamsType ==
  ASSUME local_streams_ \in Seq(StreamParams), NEW streams \in Seq(StreamParams)
  PROVE  LocalStreamsFor(streams) \in Seq(StreamParams)
<1> DEFINE old(i) == local_streams_[CHOOSE j \in DOMAIN local_streams_ :
                                      First(streams[i]) \in Ssrcs(local_streams_[j])]
           e(i) == IF Known(local_streams_, streams[i]) THEN old(i) ELSE streams[i]
<1>1. ASSUME NEW i \in 1..Len(streams)
      PROVE  e(i) \in StreamParams
  <2>1. CASE Known(local_streams_, streams[i])
    <3>1. \E j \in DOMAIN local_streams_ : First(streams[i]) \in Ssrcs(local_streams_[j])
      BY <2>1 DEF Known, BySsrc
    <3>2. \A j \in DOMAIN local_streams_ : local_streams_[j] \in StreamParams
      OBVIOUS
    <3> QED
      BY <2>1, <3>1, <3>2
  <2>2. CASE ~Known(local_streams_, streams[i])
    BY <2>2
  <2> QED
    BY <2>1, <2>2
<1>2. LocalStreamsFor(streams) = [i \in 1..Len(streams) |-> e(i)]
  BY DEF LocalStreamsFor
<1> HIDE DEF e
<1>3. Len(streams) \in Nat
  OBVIOUS
<1> QED
  BY <1>1, <1>2, <1>3

LEMMA IdleStep ==
  ASSUME wpc' = Idle, ch'.pending_criteria = ch.pending_criteria, ch.pending_criteria \in Nat
  PROVE  /\ wpc' \in WorkerStates /\ wpc'.at # "closed" /\ ~Runs("close")'
         /\ ch'.pending_criteria = ch.pending_criteria + (IF Changes(wpc') THEN 1 ELSE 0)
BY DEF WorkerStates, Idle, Runs, Changes

LEMMA FinishLocalStep ==
  ASSUME IInv, FinishLocal
  PROVE  IInv'
<1> DEFINE u == UpdateLocalStreams(ch, Streams)
<1>1. /\ Runs("local") /\ wpc.at = "run" /\ wpc' = Idle
      /\ UNCHANGED <<tasks, enabled_s_, remote_streams_, payload_type_demuxing_enabled_, payload_types_,
                     criteria, sink, stash, sent>>
  BY DEF FinishLocal, Runs, network
<1>2. wpc.then.content \in LocalContents
  BY <1>1 DEF IInv, Typed, WorkerStates, Idle, Then, Runs
<1>3. Streams \in Seq(StreamParams)
  BY <1>2, ContentStreams DEF Streams
<1>4. ch.pending_criteria \in Nat /\ Sound(ch) /\ local_streams_ \in Seq(StreamParams)
  BY <1>1, PendingNat DEF IInv, Typed
<1>5. Sound(u) /\ u.pending_criteria = ch.pending_criteria
  BY <1>3, <1>4, UpdateLocalTame DEF Tame
<1>6. local_streams_' \in Seq(StreamParams)
  <2>1. local_streams_' = LocalStreamsFor(Streams) \/ local_streams_' = local_streams_
    BY DEF FinishLocal, Streams
  <2> QED
    BY <1>3, <1>4, <2>1, LocalStreamsType
<1>7. \/ ch' = SetSend(u, IsReadyToSendMedia_w)
      \/ ch' = u \/ ch' = ch
  BY DEF FinishLocal, UpdateMediaSendRecvState_w, Streams
<1> HIDE DEF u
<1>8. Sound(ch') /\ ch'.pending_criteria = ch.pending_criteria
  BY <1>4, <1>5, <1>7, SetSendTame DEF Tame
<1>9. /\ wpc' \in WorkerStates /\ wpc'.at # "closed"
      /\ ch'.pending_criteria = ch.pending_criteria + (IF Changes(wpc') THEN 1 ELSE 0)
  BY <1>1, <1>4, <1>8, IdleStep
<1> QED
  BY <1>1, <1>6, <1>8, <1>9, RunStep DEF IInv, Typed

LEMMA BeginStreamsStep ==
  ASSUME IInv, BeginStreams
  PROVE  IInv'
<1> DEFINE c == wpc.then.content
           u == UpdateRemoteStreams(ch, Streams)
           crit == [criteria EXCEPT !.ssrcs = UNION {Ssrcs(c.streams[i]) : i \in DOMAIN c.streams}]
           then == [do |-> "remote", content |-> c]
<1>1. /\ Runs("streams") /\ wpc.at = "run"
      /\ UNCHANGED <<tasks, enabled_s_, local_streams_, payload_type_demuxing_enabled_, payload_types_,
                     sink, stash, sent>>
  BY DEF BeginStreams, Runs, network
<1>2. c \in RemoteContents
  BY <1>1 DEF IInv, Typed, WorkerStates, Idle, Then, Runs
<1>3. Streams \in Seq(StreamParams) /\ Streams = c.streams
  BY <1>2, ContentStreams DEF Streams
<1>4. ch.pending_criteria \in Nat /\ Sound(ch) /\ remote_streams_ \in Seq(StreamParams)
  BY <1>1, PendingNat DEF IInv, Typed
<1>5. Sound(u) /\ u.pending_criteria = ch.pending_criteria
  BY <1>3, <1>4, UpdateRemoteTame DEF Tame
<1>6. crit \in Criteria
  <2>1. \A i \in DOMAIN c.streams : Ssrcs(c.streams[i]) \subseteq Int
    <3>1. \A i \in DOMAIN c.streams : c.streams[i] \in StreamParams
      BY <1>3
    <3>2. \A sp \in StreamParams : Ssrcs(sp) \subseteq Int
      BY DEF StreamParams, Ssrcs, Range
    <3> QED
      BY <3>1, <3>2
  <2>2. UNION {Ssrcs(c.streams[i]) : i \in DOMAIN c.streams} \in SUBSET Int
    BY <2>1
  <2> QED
    BY <2>2 DEF IInv, Typed, Criteria
<1>7. then \in Then /\ then.do # "close"
  BY <1>2 DEF Then
<1>8. \/ /\ RegisterRtpDemuxerSink_w(TRUE, u, crit, then)
         /\ remote_streams_' = c.streams
      \/ /\ wpc' = Idle
         /\ UNCHANGED <<ch, criteria, remote_streams_>>
  BY DEF BeginStreams, Streams
<1> HIDE DEF u, crit, then, c
<1>9. CASE /\ RegisterRtpDemuxerSink_w(TRUE, u, crit, then)
           /\ remote_streams_' = c.streams
  <2>1. /\ wpc' \in WorkerStates /\ wpc'.at # "closed" /\ criteria' \in Criteria /\ Sound(ch')
        /\ ch'.pending_criteria = ch.pending_criteria + (IF Changes(wpc') THEN 1 ELSE 0)
    BY <1>4, <1>5, <1>6, <1>7, <1>9, RegisterStep
  <2> QED
    BY <1>1, <1>3, <1>9, <2>1, RunStep DEF IInv, Typed
<1>10. CASE /\ wpc' = Idle
            /\ UNCHANGED <<ch, criteria, remote_streams_>>
  <2>1. /\ wpc' \in WorkerStates /\ wpc'.at # "closed" /\ Sound(ch')
        /\ ch'.pending_criteria = ch.pending_criteria + (IF Changes(wpc') THEN 1 ELSE 0)
    BY <1>4, <1>10, IdleStep
  <2> QED
    BY <1>1, <1>10, <2>1, RunStep DEF IInv, Typed
<1> QED
  BY <1>8, <1>9, <1>10

LEMMA FinishRemoteStep ==
  ASSUME IInv, FinishRemote
  PROVE  IInv'
<1>1. /\ Runs("remote") /\ wpc.at = "run" /\ wpc' = Idle
      /\ UNCHANGED <<tasks, enabled_s_, local_streams_, remote_streams_, payload_type_demuxing_enabled_,
                     payload_types_, criteria, sink, stash, sent>>
  BY DEF FinishRemote, Runs, network
<1>2. ch.pending_criteria \in Nat /\ Sound(ch)
  BY <1>1, PendingNat DEF IInv
<1>3. ch' = SetSend(ch, IsReadyToSendMedia_w) \/ ch' = ch
  BY DEF FinishRemote, UpdateMediaSendRecvState_w
<1>4. Sound(ch') /\ ch'.pending_criteria = ch.pending_criteria
  BY <1>2, <1>3, SetSendTame DEF Tame
<1>5. /\ wpc' \in WorkerStates /\ wpc'.at # "closed"
      /\ ch'.pending_criteria = ch.pending_criteria + (IF Changes(wpc') THEN 1 ELSE 0)
  BY <1>1, <1>2, <1>4, IdleStep
<1> QED
  BY <1>1, <1>4, <1>5, RunStep DEF IInv, Typed

LEMMA DemuxingStep ==
  ASSUME IInv, SetPayloadTypeDemuxingEnabled
  PROVE  IInv'
<1> DEFINE to == Head(tasks).to
           crit == [criteria EXCEPT !.pts = to /\ (@ \/ payload_types_)]
           c == IF to THEN ch ELSE ResetUnsignaledRecvStream(ch)
           then == [do |-> "demuxing"]
<1>1. /\ Start("demuxing") /\ wpc.at = "idle" /\ tasks # <<>> /\ Head(tasks) \in Task
      /\ Head(tasks).do = "demuxing"
      /\ UNCHANGED <<enabled_s_, local_streams_, remote_streams_, payload_types_, sink, stash, sent>>
  BY DEF SetPayloadTypeDemuxingEnabled, Start, IInv, Typed, network
<1>2. ch.pending_criteria \in Nat /\ Sound(ch)
  BY <1>1, PendingNat DEF IInv
<1>3. Sound(c) /\ c.pending_criteria = ch.pending_criteria
  BY <1>2, ResetTame DEF Tame
<1>4. to \in BOOLEAN /\ payload_type_demuxing_enabled_' \in BOOLEAN
  <2>1. to \in BOOLEAN
    BY <1>1 DEF Task
  <2> QED
    BY <2>1 DEF SetPayloadTypeDemuxingEnabled
<1>5. crit \in Criteria
  BY DEF IInv, Typed, Criteria
<1>6. then \in Then /\ then.do # "close"
  BY DEF Then
<1>7. \/ wpc' = Idle /\ UNCHANGED <<ch, criteria>>
      \/ RegisterRtpDemuxerSink_w(TRUE, c, crit, then)
  BY DEF SetPayloadTypeDemuxingEnabled
<1> HIDE DEF to, crit, c, then
<1>8. CASE wpc' = Idle /\ UNCHANGED <<ch, criteria>>
  <2>1. /\ wpc' \in WorkerStates /\ wpc'.at # "closed" /\ ~Runs("close")' /\ Sound(ch')
        /\ ch'.pending_criteria = ch.pending_criteria + (IF Changes(wpc') THEN 1 ELSE 0)
    BY <1>2, <1>8, IdleStep
  <2> QED
    BY <1>1, <1>4, <1>8, <2>1, TaskStep DEF IInv, Typed
<1>9. CASE RegisterRtpDemuxerSink_w(TRUE, c, crit, then)
  <2>1. /\ wpc' \in WorkerStates /\ wpc'.at # "closed" /\ ~Runs("close")' /\ criteria' \in Criteria
        /\ Sound(ch')
        /\ ch'.pending_criteria = ch.pending_criteria + (IF Changes(wpc') THEN 1 ELSE 0)
    BY <1>2, <1>3, <1>5, <1>6, <1>9, RegisterStep
  <2> QED
    BY <1>1, <1>4, <2>1, TaskStep DEF IInv, Typed
<1> QED
  BY <1>7, <1>8, <1>9

LEMMA FinishDemuxingStep ==
  ASSUME IInv, FinishDemuxing
  PROVE  IInv'
<1>1. /\ Runs("demuxing") /\ wpc.at = "run" /\ wpc' = Idle /\ ch' = ch
      /\ UNCHANGED <<tasks, enabled_s_, local_streams_, remote_streams_, payload_type_demuxing_enabled_,
                     payload_types_, criteria, sink, stash, sent>>
  BY DEF FinishDemuxing, Runs, network, section
<1>2. ch.pending_criteria \in Nat /\ Sound(ch')
  BY <1>1, PendingNat DEF IInv
<1>3. /\ wpc' \in WorkerStates /\ wpc'.at # "closed"
      /\ ch'.pending_criteria = ch.pending_criteria + (IF Changes(wpc') THEN 1 ELSE 0)
  BY <1>1, <1>2, IdleStep
<1> QED
  BY <1>1, <1>2, <1>3, RunStep DEF IInv, Typed

\* The tasks that only change the media channel.
LEMMA ChannelStep ==
  ASSUME IInv, NEW task, Start(task), task # "complete", wpc' = wpc,
         UNCHANGED <<enabled_s_, sink, stash, sent, criteria, payload_types_,
                     payload_type_demuxing_enabled_, local_streams_, remote_streams_>>,
         Sound(ch'), ch'.pending_criteria = ch.pending_criteria
  PROVE  IInv'
<1>1. wpc.at = "idle"
  BY DEF Start
<1>2. ch.pending_criteria \in Nat
  BY <1>1, PendingNat
<1>3. wpc' \in WorkerStates /\ wpc'.at # "closed" /\ ~Runs("close")' /\ ~Changes(wpc')
  BY <1>1 DEF IInv, Typed, Runs, Changes
<1>4. ch'.pending_criteria = ch.pending_criteria + (IF Changes(wpc') THEN 1 ELSE 0)
  BY <1>2, <1>3
<1> QED
  BY <1>3, <1>4, TaskStep DEF IInv, Typed

LEMMA SetDefaultStep ==
  ASSUME IInv, SetDefault
  PROVE  IInv'
<1>1. Sound(ch)
  BY DEF IInv
<1>2. PICK task : Start(task) /\ task # "complete" /\ (\/ ch' = SetDefaultSink(ch, "sink")
                                                       \/ ch' = SetBaseMinimumPlayoutDelayMs(ch, 0, 1))
  BY DEF SetDefault
<1>3. Same(ch, ch')
  BY <1>1, <1>2, SetDefaultSinkSame, SetDelaySame
<1>4. Sound(ch') /\ ch'.pending_criteria = ch.pending_criteria /\ Defaults(ch') = Defaults(ch)
  BY <1>1, <1>3, SameTame DEF Tame
<1> QED
  BY <1>2, <1>4, ChannelStep DEF SetDefault, section, network

LEMMA MediaStateStep ==
  ASSUME IInv, EnableMedia \/ FirstWritable
  PROVE  IInv'
<1>1. ch' = SetSend(ch, IsReadyToSendMedia_w) /\ Sound(ch)
  BY DEF IInv, EnableMedia, FirstWritable, UpdateMediaSendRecvState_w
<1>2. Sound(ch') /\ ch'.pending_criteria = ch.pending_criteria
  BY <1>1, SetSendTame DEF Tame
<1>3. PICK task : Start(task) /\ task # "complete"
  BY DEF EnableMedia, FirstWritable
<1>4. wpc' = wpc /\ UNCHANGED <<enabled_s_, sink, stash, sent, criteria, payload_types_,
                                payload_type_demuxing_enabled_, local_streams_, remote_streams_>>
  BY DEF EnableMedia, FirstWritable, signaling, network
<1> QED
  BY <1>2, <1>3, <1>4, ChannelStep

LEMMA ReceivePacketStep ==
  ASSUME IInv, ReceivePacket
  PROVE  IInv'
<1>1. Sound(ch) /\ ch' = OnPacketReceived(ch, Packet(Head(tasks).id))
  BY DEF IInv, ReceivePacket
<1>2. Sound(ch') /\ ch'.pending_criteria = ch.pending_criteria
  BY <1>1, PacketSound
<1> QED
  BY <1>2, ChannelStep DEF ReceivePacket, signaling, section, network

LEMMA CriteriaCompleteStep ==
  ASSUME IInv, CriteriaComplete
  PROVE  IInv'
<1>1. /\ tasks \in Seq(Task) /\ tasks # <<>> /\ tasks' = Tail(tasks) /\ Head(tasks).do = "complete"
      /\ wpc.at = "idle" /\ wpc' = wpc /\ ch' = [ch EXCEPT !.pending_criteria = @ - 1]
      /\ UNCHANGED <<enabled_s_, sink, stash, sent, criteria, payload_types_,
                     payload_type_demuxing_enabled_, local_streams_, remote_streams_>>
  BY DEF IInv, Typed, CriteriaComplete, Start, signaling, section, network
<1>2. /\ Tail(tasks) \in Seq(Task)
      /\ Fresh(tasks, sink) => Fresh(Tail(tasks), sink)
      /\ Cardinality(Completes(tasks))
           = Cardinality(Completes(Tail(tasks))) + (IF Head(tasks).do = "complete" THEN 1 ELSE 0)
  BY <1>1, TakeTask
<1>3. Cardinality(Completes(Tail(tasks))) \in Nat
  BY <1>2, CompletesFinite
<1>4. Sound(ch') /\ ch'.pending_criteria = ch.pending_criteria - 1
  <2>1. /\ DOMAIN ch' = Fields /\ ch'.pending_criteria = ch.pending_criteria - 1
        /\ ch'.receive_streams_ = ch.receive_streams_ /\ ch'.receive_ssrcs_ = ch.receive_ssrcs_
        /\ ch'.send_streams_ = ch.send_streams_ /\ ch'.send_ssrcs_ = ch.send_ssrcs_
        /\ ch'.unsignaled_stream_params_ = ch.unsignaled_stream_params_
        /\ ch'.buffered = ch.buffered
    BY <1>1 DEF IInv, Sound, Shape, Fields
  <2> QED
    BY <2>1 DEF IInv, Sound, Shape, Books
<1>5. Counted'
  <2>1. ch.pending_criteria = Cardinality(Completes(tasks)) + 0
    BY <1>1 DEF IInv, Counted, Changes
  <2>2. Cardinality(Completes(tasks)) = Cardinality(Completes(Tail(tasks))) + 1
    BY <1>1, <1>2
  <2>3. ch'.pending_criteria = Cardinality(Completes(Tail(tasks))) + 0
    BY <1>3, <1>4, <2>1, <2>2
  <2> QED
    BY <1>1, <2>3 DEF Counted, Changes
<1>6. Typed'
  BY <1>1, <1>2 DEF IInv, Typed, StashOk
<1>7. AllFresh'
  BY <1>1, <1>2 DEF IInv, AllFresh, Runs
<1> QED
  BY <1>4, <1>5, <1>6, <1>7 DEF IInv

LEMMA BeginCloseStep ==
  ASSUME IInv, BeginClose
  PROVE  IInv'
<1>1. /\ Start("close") /\ wpc.at = "idle"
      /\ wpc' = [at |-> "register", then |-> [do |-> "close"], result |-> TRUE]
      /\ UNCHANGED <<enabled_s_, sink, stash, sent, criteria, payload_types_,
                     payload_type_demuxing_enabled_, local_streams_, remote_streams_>>
  BY DEF BeginClose, Start, signaling, network
<1>2. ch' = SetSend(ch, IsReadyToSendMedia_w) /\ Sound(ch) /\ ch.pending_criteria \in Nat
  BY <1>1, PendingNat DEF IInv, BeginClose, UpdateMediaSendRecvState_w
<1>3. Sound(ch') /\ ch'.pending_criteria = ch.pending_criteria
  BY <1>2, SetSendTame DEF Tame
<1>4. /\ wpc' \in WorkerStates /\ wpc'.at # "closed" /\ ~Runs("close")'
      /\ ch'.pending_criteria = ch.pending_criteria + (IF Changes(wpc') THEN 1 ELSE 0)
  BY <1>1, <1>2, <1>3 DEF WorkerStates, Then, Runs, Changes
<1> QED
  BY <1>1, <1>3, <1>4, TaskStep DEF IInv, Typed

LEMMA FinishCloseStep ==
  ASSUME IInv, FinishClose
  PROVE  IInv'
<1>1. /\ wpc' = [at |-> "closed"] /\ tasks' = <<>>
      /\ ch' = [ch EXCEPT !.receive_streams_ = <<>>, !.receive_ssrcs_ = {},
                          !.send_streams_ = <<>>, !.send_ssrcs_ = {}]
      /\ UNCHANGED <<enabled_s_, sink, stash, sent, criteria, payload_types_,
                     payload_type_demuxing_enabled_, local_streams_, remote_streams_>>
  BY DEF FinishClose, section, network
<1>2. Sound(ch')
  <2>1. /\ DOMAIN ch' = Fields /\ ch'.receive_streams_ = <<>> /\ ch'.receive_ssrcs_ = {}
        /\ ch'.send_streams_ = <<>> /\ ch'.send_ssrcs_ = {}
        /\ ch'.unsignaled_stream_params_ = ch.unsignaled_stream_params_
        /\ ch'.buffered = FALSE
    BY <1>1 DEF IInv, Sound, Shape, Fields
  <2>2. DOMAIN ch'.receive_streams_ = {} /\ DOMAIN ch'.send_streams_ = {}
    BY <2>1
  <2>3. Exact(ch'.receive_streams_, ch'.receive_ssrcs_)
    BY <2>1, <2>2 DEF Exact
  <2>4. Exact(ch'.send_streams_, ch'.send_ssrcs_)
    BY <2>1, <2>2 DEF Exact
  <2> QED
    BY <2>1, <2>2, <2>3, <2>4 DEF IInv, Sound, Shape, Books
<1>3. Typed'
  <2>1. tasks' \in Seq(Task) /\ wpc' \in WorkerStates
    BY <1>1 DEF WorkerStates
  <2> QED
    BY <1>1, <2>1 DEF IInv, Typed, StashOk
<1>4. Counted' /\ AllFresh'
  BY <1>1 DEF Counted, AllFresh, Fresh
<1> QED
  BY <1>2, <1>3, <1>4 DEF IInv

LEMMA CooledStep ==
  ASSUME IInv, Cooled
  PROVE  IInv'
<1>1. /\ ch' = [ch EXCEPT !.cooldown = FALSE]
      /\ UNCHANGED <<tasks, wpc, enabled_s_, sink, stash, sent, criteria, payload_types_,
                     payload_type_demuxing_enabled_, local_streams_, remote_streams_>>
  BY DEF Cooled, signaling, section, network
<1>2. Same(ch, ch')
  BY <1>1 DEF Same, IInv, Sound, Shape, Fields
<1>3. Sound(ch') /\ ch'.pending_criteria = ch.pending_criteria
  BY <1>2, SameTame DEF IInv, Tame
<1>4. Typed'
  BY <1>1 DEF IInv, Typed, StashOk
<1>5. Counted' /\ AllFresh'
  BY <1>1, <1>3 DEF IInv, Counted, AllFresh, Runs
<1> QED
  BY <1>3, <1>4, <1>5 DEF IInv

LEMMA RegisterSinkStep ==
  ASSUME IInv, RegisterRtpDemuxerSink
  PROVE  IInv'
<1>1. /\ wpc.at = "register" /\ ch' = ch /\ Sound(ch')
      /\ UNCHANGED <<enabled_s_, stash, sent, criteria, payload_types_,
                     payload_type_demuxing_enabled_, local_streams_, remote_streams_>>
  BY DEF IInv, RegisterRtpDemuxerSink, Register, signaling, section
<1>2. /\ tasks \in Seq(Task) /\ criteria \in Criteria
      /\ wpc \in [at : {"register", "run"}, then : Then, result : BOOLEAN]
  BY <1>1 DEF IInv, Typed, WorkerStates, Idle
<1>3. CASE wpc.then.do = "close"
  <2>1. sink' = NoCriteria /\ wpc' = [wpc EXCEPT !.at = "run"] /\ tasks' = tasks
    BY <1>3 DEF RegisterRtpDemuxerSink
  <2>2. wpc' \in WorkerStates /\ wpc'.at = "run" /\ wpc'.then = wpc.then
    BY <1>2, <2>1 DEF WorkerStates
  <2>3. Typed'
    <3>1. sink' \in Criteria
      BY <2>1 DEF NoCriteria, Criteria
    <3> QED
      BY <1>1, <2>1, <2>2, <3>1 DEF IInv, Typed, StashOk
  <2>4. Counted'
    <3>1. ~Changes(wpc) /\ ~Changes(wpc')
      BY <1>3, <2>2 DEF Changes
    <3> QED
      BY <1>1, <2>1, <3>1 DEF IInv, Counted
  <2>5. AllFresh'
    BY <1>3, <2>2 DEF AllFresh, Runs
  <2> QED
    BY <1>1, <2>3, <2>4, <2>5 DEF IInv
<1>4. CASE wpc.then.do # "close"
  <2>1. PICK ok \in BOOLEAN : Register(ok) /\ wpc' = [wpc EXCEPT !.at = "run", !.result = ok]
    BY <1>4 DEF RegisterRtpDemuxerSink
  <2>2. wpc' \in WorkerStates /\ wpc'.at = "run" /\ wpc'.then = wpc.then
    BY <1>2, <2>1 DEF WorkerStates
  <2>3. sink' \in Criteria
    BY <1>2, <2>1 DEF Register, NoCriteria, Criteria
  <2>4. tasks' = Append(tasks, [do |-> "complete"])
    BY <2>1 DEF Register, Post
  <2>5. /\ tasks' \in Seq(Task) /\ Fresh(tasks', sink')
        /\ Cardinality(Completes(tasks')) = Cardinality(Completes(tasks)) + 1
    BY <1>2, <2>4, PostComplete
  <2>6. Typed'
    BY <1>1, <2>2, <2>3, <2>5 DEF IInv, Typed, StashOk
  <2>7. Counted'
    <3>1. Cardinality(Completes(tasks)) \in Nat
      BY <1>2, CompletesFinite
    <3>2. ch.pending_criteria = Cardinality(Completes(tasks)) + 1
      BY <1>1, <1>4 DEF IInv, Counted, Changes
    <3>3. ch'.pending_criteria = Cardinality(Completes(tasks')) + 0
      BY <1>1, <2>5, <3>1, <3>2
    <3>4. ~Changes(wpc')
      BY <2>2 DEF Changes
    <3> QED
      BY <3>3, <3>4 DEF Counted
  <2>8. AllFresh'
    BY <2>5 DEF AllFresh
  <2> QED
    BY <1>1, <2>6, <2>7, <2>8 DEF IInv
<1> QED
  BY <1>3, <1>4

LEMMA DemuxPacketStep ==
  ASSUME IInv, DemuxPacket
  PROVE  IInv'
<1> DEFINE fill == MaybeBackfillPackets(stash, Wanted)
           packet(ssrc) == [ssrc |-> ssrc, id |-> Len(sent) + 1, rtx |-> ssrc \in RtxSsrcs]
<1>1. PICK ssrc \in VideoSsrcs \cup {OtherSsrc} :
        /\ sent' = Append(sent, ssrc)
        /\ stash' = IF Routed(packet(ssrc)) THEN fill.left ELSE AddPacket(fill.left, packet(ssrc))
        /\ tasks' = FoldLeft(OnRtpPacket, tasks,
                             InOrder(fill.given, IF Routed(packet(ssrc)) THEN <<packet(ssrc)>> ELSE <<>>))
  BY DEF DemuxPacket, Wanted
<1>2. packet(ssrc) \in Packets
  <2>1. Len(sent) + 1 \in Nat
    BY DEF IInv, Typed
  <2> QED
    BY <2>1 DEF Packets
<1>3. fill.given \in Seq(Packets) /\ StashOk(fill.left)
  BY BackfillOk DEF IInv, Typed
<1> HIDE DEF fill, packet
<1>4. StashOk(stash')
  BY <1>1, <1>2, <1>3, AddPacketOk
<1>5. InOrder(fill.given, IF Routed(packet(ssrc)) THEN <<packet(ssrc)>> ELSE <<>>) \in Seq(Packets)
  BY <1>2, <1>3 DEF InOrder
<1>6. Posted(tasks')
  BY <1>1, <1>5, PostingOk DEF IInv, Typed
<1>7. sent' \in Seq(VideoSsrcs \cup {OtherSsrc})
  BY <1>1 DEF IInv, Typed
<1>8. UNCHANGED <<wpc, enabled_s_, ch, sink, criteria, payload_types_,
                  payload_type_demuxing_enabled_, local_streams_, remote_streams_>>
  BY DEF DemuxPacket, signaling, section
<1>9. Typed'
  <2>1. StashOk(stash)'
    BY <1>4
  <2> QED
    BY <1>6, <1>7, <1>8, <2>1 DEF IInv, Typed, Posted
<1>10. Counted'
  BY <1>6, <1>8 DEF IInv, Counted, Posted
<1>11. AllFresh'
  BY <1>6, <1>8 DEF IInv, AllFresh, Posted, Runs
<1> QED
  BY <1>8, <1>9, <1>10, <1>11 DEF IInv

LEMMA SignalingStep ==
  ASSUME IInv, Signaling
  PROVE  IInv'
<1>1. ASSUME NEW t \in Task, t.do \notin {"complete", "packet"}, Call(t)
      PROVE  IInv'
  <2>1. /\ Post(t) /\ enabled_s_' \in BOOLEAN
        /\ UNCHANGED <<wpc, ch, section, criteria, previous, sink, stash, sent>>
    BY <1>1 DEF Call, IInv, Typed, network
  <2> QED
    BY <1>1, <2>1, PostStep
<1>2. CASE CallSetLocalContent
  <2>1. PICK c \in LocalContents : Call([do |-> "local", content |-> c])
    BY <1>2 DEF CallSetLocalContent
  <2>2. [do |-> "local", content |-> c] \in Task
    BY DEF Task
  <2> QED
    BY <1>1, <2>1, <2>2
<1>3. CASE CallSetRemoteContent
  <2>1. PICK c \in RemoteContents : Call([do |-> "remote", content |-> c])
    BY <1>3 DEF CallSetRemoteContent
  <2>2. [do |-> "remote", content |-> c] \in Task
    BY DEF Task
  <2> QED
    BY <1>1, <2>1, <2>2
<1>4. CASE CallSetPayloadTypeDemuxingEnabled
  <2>1. PICK b \in BOOLEAN : Call([do |-> "demuxing", to |-> b])
    BY <1>4 DEF CallSetPayloadTypeDemuxingEnabled
  <2>2. [do |-> "demuxing", to |-> b] \in Task
    BY DEF Task
  <2> QED
    BY <1>1, <2>1, <2>2
<1>5. CASE CallSetDefaultSink \/ CallSetDefaultDelay \/ CallClose
  <2>1. PICK call \in {"sink", "delay", "close"} : Call([do |-> call])
    BY <1>5 DEF CallSetDefaultSink, CallSetDefaultDelay, CallClose
  <2>2. [do |-> call] \in Task
    BY DEF Task
  <2> QED
    BY <1>1, <2>1, <2>2
<1>6. CASE Enable
  <2>1. /\ Post([do |-> "enable", to |-> ~enabled_s_]) /\ enabled_s_' \in BOOLEAN
        /\ UNCHANGED <<wpc, ch, section, criteria, previous, sink, stash, sent>>
    BY <1>6 DEF Enable, network
  <2>2. [do |-> "enable", to |-> ~enabled_s_] \in Task
    BY DEF Task
  <2> QED
    BY <2>1, <2>2, PostStep
<1> QED
  BY <1>2, <1>3, <1>4, <1>5, <1>6 DEF Signaling

LEMMA NetworkStep ==
  ASSUME IInv, Network
  PROVE  IInv'
<1>1. CASE RegisterOther
  <2>1. UNCHANGED <<tasks, wpc, enabled_s_, ch, sink, stash, sent, criteria, payload_types_,
                    payload_type_demuxing_enabled_, local_streams_, remote_streams_>>
    BY <1>1 DEF RegisterOther, signaling, section
  <2> QED
    BY <2>1 DEF IInv, Typed, StashOk, Counted, AllFresh, Runs
<1>2. CASE Writable
  <2>1. /\ Post([do |-> "writable"]) /\ enabled_s_' \in BOOLEAN
        /\ UNCHANGED <<wpc, ch, section, criteria, previous, sink, stash, sent>>
    BY <1>2 DEF Writable, IInv, Typed, signaling
  <2>2. [do |-> "writable"] \in Task
    BY DEF Task
  <2> QED
    BY <2>1, <2>2, PostStep
<1> QED
  BY <1>1, <1>2, RegisterSinkStep, DemuxPacketStep DEF Network

LEMMA NextIInv ==
  ASSUME IInv, [Next]_vars
  PROVE  IInv'
<1>1. CASE UNCHANGED vars
  <2>1. UNCHANGED <<tasks, wpc, enabled_s_, ch, sink, stash, sent, criteria, payload_types_,
                    payload_type_demuxing_enabled_, local_streams_, remote_streams_>>
    BY <1>1 DEF vars, signaling, section, network
  <2> QED
    BY <2>1 DEF IInv, Typed, StashOk, Counted, AllFresh, Runs
<1>2. CASE Worker
  BY <1>2, BeginLocalStep, FinishLocalStep, BeginRemoteStep, BeginStreamsStep, FinishRemoteStep,
     DemuxingStep, FinishDemuxingStep, SetDefaultStep, MediaStateStep, ReceivePacketStep,
     CriteriaCompleteStep, BeginCloseStep, FinishCloseStep DEF Worker
<1> QED
  BY <1>1, <1>2, SignalingStep, CooledStep, NetworkStep DEF Next

-----------------------------------------------------------------------------
(* What follows.                                                            *)

\* RegisterRtpDemuxerSink_w makes and deletes no stream.
LEMMA RegisterKeepsDefaults ==
  ASSUME NEW c, Sound(c), NEW asked, NEW crit, NEW then, RegisterRtpDemuxerSink_w(asked, c, crit, then)
  PROVE  Defaults(ch') = Defaults(c) /\ ch'.delivered = c.delivered
BY DEF RegisterRtpDemuxerSink_w, Defaults, Sound, Shape, Fields

\* Only a packet makes a default stream or is delivered.
LEMMA DefaultsStep ==
  ASSUME IInv, [Next]_vars
  PROVE  \/ Defaults(ch') \subseteq Defaults(ch) /\ ch'.delivered = ch.delivered
         \/ ReceivePacket
<1>1. Sound(ch)
  BY DEF IInv
<1>2. \A c : Tame(ch, c) => /\ Sound(c) /\ Defaults(c) \subseteq Defaults(ch)
                             /\ c.delivered = ch.delivered
  BY DEF Tame
<1>3. CASE ch' = ch
  BY <1>3
<1>4. CASE Tame(ch, ch')
  BY <1>4 DEF Tame
<1>5. CASE \E c, asked, crit, then : Tame(ch, c) /\ RegisterRtpDemuxerSink_w(asked, c, crit, then)
  BY <1>2, <1>5, RegisterKeepsDefaults
<1>6. CASE UNCHANGED vars \/ Signaling \/ Network \/ FinishDemuxing
  <2>1. ch' = ch
    <3>1. CASE Signaling
      BY <3>1 DEF Signaling, CallSetLocalContent, CallSetRemoteContent, CallSetPayloadTypeDemuxingEnabled,
                  CallSetDefaultSink, CallSetDefaultDelay, CallClose, Call, Enable
    <3>2. CASE Network
      BY <3>2 DEF Network, RegisterRtpDemuxerSink, Register, RegisterOther, DemuxPacket, Writable
    <3> QED
      BY <1>6, <3>1, <3>2 DEF vars, FinishDemuxing
  <2> QED
    BY <1>3, <2>1
<1>7. CASE BeginLocal
  <2> DEFINE set == SetRecvParameters(ch, Head(tasks).content)
  <2>1. Tame(ch, set)
    BY <1>1, SetRecvParametersTame
  <2>2. ch' = set \/ \E asked, crit, then : RegisterRtpDemuxerSink_w(asked, set, crit, then)
    BY <1>7 DEF BeginLocal, Refuse
  <2> HIDE DEF set
  <2> QED
    BY <1>4, <1>5, <2>1, <2>2
<1>8. CASE BeginRemote
  <2> DEFINE set == SetSendParameters(ch, Head(tasks).content)
  <2>1. Tame(ch, set)
    BY <1>1, SetSendParametersTame
  <2>2. ch' = set \/ \E asked, crit, then : RegisterRtpDemuxerSink_w(asked, set, crit, then)
    BY <1>8 DEF BeginRemote, Refuse
  <2> HIDE DEF set
  <2> QED
    BY <1>4, <1>5, <2>1, <2>2
<1>9. CASE BeginStreams
  <2> DEFINE u == UpdateRemoteStreams(ch, Streams)
  <2>1. wpc.then.content \in RemoteContents
    BY <1>9 DEF IInv, Typed, WorkerStates, Idle, Then, Runs, BeginStreams
  <2>2. Tame(ch, u)
    <3>1. Streams \in Seq(StreamParams) /\ remote_streams_ \in Seq(StreamParams)
      BY <2>1, ContentStreams DEF Streams, IInv, Typed
    <3> QED
      BY <1>1, <3>1, UpdateRemoteTame
  <2>3. ch' = ch \/ \E asked, crit, then : RegisterRtpDemuxerSink_w(asked, u, crit, then)
    BY <1>9 DEF BeginStreams, Streams
  <2> HIDE DEF u
  <2> QED
    BY <1>3, <1>5, <2>2, <2>3
<1>10. CASE FinishLocal
  <2> DEFINE u == UpdateLocalStreams(ch, Streams)
  <2>1. wpc.then.content \in LocalContents
    BY <1>10 DEF IInv, Typed, WorkerStates, Idle, Then, Runs, FinishLocal
  <2>2. Tame(ch, u)
    <3>1. Streams \in Seq(StreamParams) /\ local_streams_ \in Seq(StreamParams)
      BY <2>1, ContentStreams DEF Streams, IInv, Typed
    <3> QED
      BY <1>1, <3>1, UpdateLocalTame
  <2>3. ch' = SetSend(u, IsReadyToSendMedia_w) \/ ch' = u \/ ch' = ch
    BY <1>10 DEF FinishLocal, UpdateMediaSendRecvState_w, Streams
  <2> HIDE DEF u
  <2>4. Tame(ch, SetSend(u, IsReadyToSendMedia_w))
    BY <1>2, <2>2, SetSendTame, TameAgain
  <2> QED
    BY <1>3, <1>4, <2>2, <2>3, <2>4
<1>11. CASE FinishRemote \/ EnableMedia \/ FirstWritable \/ BeginClose
  <2>1. ch' = SetSend(ch, IsReadyToSendMedia_w) \/ ch' = ch
    BY <1>11 DEF FinishRemote, EnableMedia, FirstWritable, BeginClose, UpdateMediaSendRecvState_w
  <2> QED
    BY <1>1, <1>3, <1>4, <2>1, SetSendTame
<1>12. CASE SetPayloadTypeDemuxingEnabled
  <2> DEFINE c == IF Head(tasks).to THEN ch ELSE ResetUnsignaledRecvStream(ch)
  <2>1. Tame(ch, c)
    BY <1>1, ResetTame, TameItself
  <2>2. ch' = ch \/ \E asked, crit, then : RegisterRtpDemuxerSink_w(asked, c, crit, then)
    BY <1>12 DEF SetPayloadTypeDemuxingEnabled
  <2> HIDE DEF c
  <2> QED
    BY <1>3, <1>5, <2>1, <2>2
<1>13. CASE SetDefault
  <2>1. Same(ch, ch')
    BY <1>1, <1>13, SetDefaultSinkSame, SetDelaySame DEF SetDefault
  <2> QED
    BY <1>1, <1>4, <2>1, SameTame
<1>14. CASE CriteriaComplete \/ Cooled
  <2>1. ch' = [ch EXCEPT !.pending_criteria = @ - 1] \/ ch' = [ch EXCEPT !.cooldown = FALSE]
    BY <1>14 DEF CriteriaComplete, Cooled
  <2>2. ch'.receive_streams_ = ch.receive_streams_ /\ ch'.delivered = ch.delivered
    BY <1>1, <2>1 DEF Sound, Shape, Fields
  <2> QED
    BY <2>2 DEF Defaults
<1>15. CASE FinishClose
  <2>1. ch'.receive_streams_ = <<>> /\ ch'.delivered = ch.delivered
    BY <1>1, <1>15 DEF FinishClose, Sound, Shape, Fields
  <2> QED
    BY <2>1 DEF Defaults
<1> QED
  BY <1>6, <1>7, <1>8, <1>9, <1>10, <1>11, <1>12, <1>13, <1>14, <1>15 DEF Next, Worker

\* A default stream is made when no change of the criteria is on its way, and then every
\* packet that waits was given under the criteria in force.
LEMMA StaleStep ==
  ASSUME IInv, [Next]_vars
  PROVE  \A s \in Defaults(ch)' \ Defaults(ch) : tasks # <<>> /\ Head(tasks).under = sink
<1> SUFFICES ASSUME NEW s \in Defaults(ch') \ Defaults(ch)
             PROVE  tasks # <<>> /\ Head(tasks).under = sink
  OBVIOUS
<1>1. ReceivePacket
  BY DefaultsStep
<1>2. tasks \in Seq(Task) /\ tasks # <<>> /\ Head(tasks).do = "packet" /\ wpc.at = "idle"
  BY <1>1 DEF ReceivePacket, Start, IInv, Typed
<1>3. ch.pending_criteria = 0
  <2>1. Sound(ch) /\ ch' = OnPacketReceived(ch, Packet(Head(tasks).id))
    BY <1>1 DEF IInv, ReceivePacket
  <2>2. ~(Defaults(ch') \subseteq Defaults(ch))
    OBVIOUS
  <2> QED
    BY <2>1, <2>2, PacketSound
<1>4. Cardinality(Completes(tasks)) = 0
  <2>1. Cardinality(Completes(tasks)) \in Nat
    BY <1>2, CompletesFinite
  <2>2. ch.pending_criteria = Cardinality(Completes(tasks)) + 0
    BY <1>2 DEF IInv, Counted, Changes
  <2> QED
    BY <1>3, <2>1, <2>2
<1>5. Fresh(tasks, sink)
  BY <1>2 DEF IInv, AllFresh, Runs
<1> QED
  BY <1>2, <1>4, <1>5, TakeTask

THEOREM ChannelInv ==
  ASSUME BufferUnknown = FALSE
  PROVE  Spec => []IInv
<1>1. Init => IInv
  BY InitIInv
<1>2. IInv /\ [Next]_vars => IInv'
  BY NextIInv
<1> QED
  BY <1>1, <1>2, PTL DEF Spec

\* Whatever descriptions come, and whatever streams packets make meanwhile, the sets of
\* SSRCs that availability is looked up in are those of the streams there are, which
\* share none (webrtc_video_engine.cc:1313).
THEOREM SsrcsAreExact ==
  ASSUME BufferUnknown = FALSE
  PROVE  Spec => []SsrcBookkeeping
<1>1. IInv => SsrcBookkeeping
  BY DEF IInv, Sound, Books, SsrcBookkeeping
<1> QED
  BY <1>1, ChannelInv, PTL

\* Every change of the demuxing that the media channel was told of ends: the network
\* thread is at it, or word of its end waits for the worker (channel.cc:507).
THEOREM EveryChangeEnds ==
  ASSUME BufferUnknown = FALSE
  PROVE  Spec => []PendingIsUnderWay
<1>1. IInv => PendingIsUnderWay
  BY CountedIsPending DEF IInv
<1> QED
  BY <1>1, ChannelInv, PTL

\* A packet that was on its way while the demuxing changed makes no default stream
\* (webrtc_video_engine.cc:1773).
THEOREM DefaultsAreNotStale ==
  ASSUME BufferUnknown = FALSE
  PROVE  Spec => NoStaleDefault
<1>1. IInv /\ [Next]_vars
        => [\A s \in Defaults(ch)' \ Defaults(ch) : tasks # <<>> /\ Head(tasks).under = sink]_vars
  BY StaleStep
<1> QED
  BY <1>1, ChannelInv, PTL DEF Spec, NoStaleDefault

-----------------------------------------------------------------------------
(* The order of the packets.  What was delivered and what is posted form   *)
(* one line; tasks that are not packets are a 0 in it.                     *)

Waits(ts) == [i \in 1..Len(ts) |-> IF ts[i].do = "packet" THEN ts[i].id ELSE 0]
Line(d, ts) == d \o Waits(ts)

\* The packet at place i of the line L was sent after q and is before it only because q
\* was kept behind one of another SSRC, which has not come by then.
Passed(S, L, i, q) ==
  q < L[i] /\ \E k \in 1..(q - 1) : S[k] # S[q] /\ \A n \in 1..i : L[n] # k

Follows(S, L, i, q) == L[i] # 0 /\ S[L[i]] = S[q] /\ q <= L[i] => Passed(S, L, i, q)

InLine(S, L) == \A i, j \in 1..Len(L) : i < j /\ L[j] # 0 => Follows(S, L, i, L[j])

\* q can come after the line L.
Fits(S, L, q) == \A i \in 1..Len(L) : Follows(S, L, i, q)

\* M is L with some places left out or added that are no packets: place i is from f[i].
Thin(L, M) ==
  \E f : /\ \A i \in 1..Len(M) : M[i] # 0 => f[i] \in 1..Len(L) /\ L[f[i]] = M[i]
         /\ \A i, j \in 1..Len(M) : M[i] # 0 /\ M[j] # 0 /\ i < j => f[i] < f[j]

\* That keeps the order.
LEMMA Thinned ==
  ASSUME NEW S, NEW L \in Seq(Nat), NEW M \in Seq(Nat), Thin(L, M)
  PROVE  /\ InLine(S, L) => InLine(S, M)
         /\ \A q \in Nat : Fits(S, L, q) => Fits(S, M, q)
         /\ \A q \in Nat \ {0} : (\A i \in 1..Len(L) : L[i] # q) => \A i \in 1..Len(M) : M[i] # q
<1> PICK f : /\ \A i \in 1..Len(M) : M[i] # 0 => f[i] \in 1..Len(L) /\ L[f[i]] = M[i]
             /\ \A i, j \in 1..Len(M) : M[i] # 0 /\ M[j] # 0 /\ i < j => f[i] < f[j]
  BY DEF Thin
<1>1. \A i \in 1..Len(L) : L[i] \in Nat
  OBVIOUS
<1>2. \A i \in 1..Len(M) : M[i] \in Nat
  OBVIOUS
<1>3. ASSUME NEW i \in 1..Len(M), NEW q \in Nat, M[i] # 0, Follows(S, L, f[i], q)
      PROVE  Follows(S, M, i, q)
  <2> SUFFICES ASSUME S[M[i]] = S[q], q <= M[i]
               PROVE  Passed(S, M, i, q)
    BY DEF Follows
  <2>1. f[i] \in 1..Len(L) /\ L[f[i]] = M[i]
    BY <1>3
  <2>2. Passed(S, L, f[i], q)
    BY <1>3, <2>1 DEF Follows
  <2>3. PICK k \in 1..(q - 1) : S[k] # S[q] /\ \A n \in 1..f[i] : L[n] # k
    BY <2>2 DEF Passed
  <2>4. ASSUME NEW n \in 1..i
        PROVE  M[n] # k
    <3>1. CASE M[n] = 0
      BY <1>3, <3>1
    <3>2. CASE M[n] # 0 /\ n < i
      <4>1. n \in 1..Len(M)
        BY <1>3
      <4>2. f[n] < f[i] /\ f[n] \in 1..Len(L) /\ L[f[n]] = M[n]
        BY <1>3, <3>2, <4>1
      <4>3. f[n] \in 1..f[i]
        BY <2>1, <4>2
      <4> QED
        BY <2>3, <4>2, <4>3
    <3>3. CASE n = i
      <4>1. f[i] \in 1..f[i]
        BY <2>1
      <4> QED
        BY <2>1, <2>3, <3>3, <4>1
    <3> QED
      BY <3>1, <3>2, <3>3
  <2> QED
    BY <2>1, <2>2, <2>3, <2>4 DEF Passed
<1>4. ASSUME InLine(S, L)
      PROVE  InLine(S, M)
  <2> SUFFICES ASSUME NEW i \in 1..Len(M), NEW j \in 1..Len(M), i < j, M[j] # 0
               PROVE  Follows(S, M, i, M[j])
    BY DEF InLine
  <2>1. CASE M[i] = 0
    BY <2>1 DEF Follows
  <2>2. CASE M[i] # 0
    <3>1. f[i] \in 1..Len(L) /\ f[j] \in 1..Len(L) /\ f[i] < f[j] /\ L[f[j]] = M[j]
      BY <2>2
    <3>2. Follows(S, L, f[i], M[j])
      BY <1>4, <3>1 DEF InLine
    <3> QED
      BY <1>2, <1>3, <2>2, <3>2
  <2> QED
    BY <2>1, <2>2
<1>5. ASSUME NEW q \in Nat, Fits(S, L, q)
      PROVE  Fits(S, M, q)
  <2> SUFFICES ASSUME NEW i \in 1..Len(M)
               PROVE  Follows(S, M, i, q)
    BY DEF Fits
  <2>1. CASE M[i] = 0
    BY <2>1 DEF Follows
  <2>2. CASE M[i] # 0
    BY <1>3, <1>5, <2>2 DEF Fits
  <2> QED
    BY <2>1, <2>2
<1>6. ASSUME NEW q \in Nat \ {0}, \A i \in 1..Len(L) : L[i] # q, NEW i \in 1..Len(M)
      PROVE  M[i] # q
  BY <1>6
<1> QED
  BY <1>4, <1>5, <1>6

\* A packet that fits goes to the end of the line; one that was sent later still fits.
LEMMA Joined ==
  ASSUME NEW S, NEW L \in Seq(Nat), NEW q \in Nat \ {0}
  PROVE  /\ InLine(S, L) /\ Fits(S, L, q) => InLine(S, Append(L, q))
         /\ \A x \in Nat : Fits(S, L, x) /\ (S[q] = S[x] /\ x <= q => Passed(S, Append(L, q), Len(L) + 1, x))
                             => Fits(S, Append(L, q), x)
<1> DEFINE M == Append(L, q)
<1>1. /\ M \in Seq(Nat) /\ Len(L) \in Nat /\ Len(M) = Len(L) + 1 /\ M[Len(L) + 1] = q
      /\ \A i \in 1..Len(L) : M[i] = L[i]
  OBVIOUS
<1> HIDE DEF M
<1>2. ASSUME NEW i \in 1..Len(L), NEW x \in Nat, Follows(S, L, i, x)
      PROVE  Follows(S, M, i, x)
  <2> SUFFICES ASSUME M[i] # 0, S[M[i]] = S[x], x <= M[i]
               PROVE  Passed(S, M, i, x)
    BY DEF Follows
  <2>1. Passed(S, L, i, x)
    BY <1>1, <1>2 DEF Follows
  <2>2. PICK k \in 1..(x - 1) : S[k] # S[x] /\ \A n \in 1..i : L[n] # k
    BY <2>1 DEF Passed
  <2>3. ASSUME NEW n \in 1..i
        PROVE  M[n] # k
    <3>1. n \in 1..Len(L)
      BY <1>1
    <3> QED
      BY <1>1, <2>2, <3>1
  <2> QED
    BY <1>1, <2>1, <2>2, <2>3 DEF Passed
<1>3. ASSUME InLine(S, L), Fits(S, L, q)
      PROVE  InLine(S, M)
  <2> SUFFICES ASSUME NEW i \in 1..Len(M), NEW j \in 1..Len(M), i < j, M[j] # 0
               PROVE  Follows(S, M, i, M[j])
    BY DEF InLine
  <2>1. i \in 1..Len(L)
    BY <1>1
  <2>2. CASE j = Len(L) + 1
    BY <1>1, <1>2, <1>3, <2>1, <2>2 DEF Fits
  <2>3. CASE j # Len(L) + 1
    <3>1. j \in 1..Len(L)
      BY <1>1, <2>3
    <3>2. M[j] = L[j] /\ L[j] \in Nat
      BY <1>1, <3>1
    <3>3. Follows(S, L, i, L[j])
      BY <1>3, <2>1, <3>1, <3>2 DEF InLine
    <3> QED
      BY <1>2, <2>1, <3>2, <3>3
  <2> QED
    BY <2>2, <2>3
<1>4. ASSUME NEW x \in Nat, Fits(S, L, x), S[q] = S[x] /\ x <= q => Passed(S, M, Len(L) + 1, x)
      PROVE  Fits(S, M, x)
  <2> SUFFICES ASSUME NEW i \in 1..Len(M)
               PROVE  Follows(S, M, i, x)
    BY DEF Fits
  <2>1. CASE i = Len(L) + 1
    BY <1>1, <1>4, <2>1 DEF Follows
  <2>2. CASE i # Len(L) + 1
    <3>1. i \in 1..Len(L)
      BY <1>1, <2>2
    <3> QED
      BY <1>2, <1>4, <3>1 DEF Fits
  <2> QED
    BY <2>1, <2>2
<1> QED
  BY <1>3, <1>4 DEF M

\* Another packet is sent: nothing changes for those before it, and it fits itself.
LEMMA SentMore ==
  ASSUME NEW X, NEW S \in Seq(X), NEW s \in X, NEW L \in Seq(0..Len(S))
  PROVE  /\ InLine(S, L) => InLine(Append(S, s), L)
         /\ \A q \in 1..Len(S) : Fits(S, L, q) => Fits(Append(S, s), L, q)
         /\ Fits(Append(S, s), L, Len(S) + 1)
         /\ \A i \in 1..Len(L) : L[i] # Len(S) + 1
<1> DEFINE T == Append(S, s)
<1>1. Len(S) \in Nat /\ \A i \in 1..Len(S) : T[i] = S[i]
  OBVIOUS
<1>2. \A i \in 1..Len(L) : L[i] \in 0..Len(S)
  OBVIOUS
<1> HIDE DEF T
<1>3. ASSUME NEW i \in 1..Len(L), NEW q \in 1..Len(S), Follows(S, L, i, q)
      PROVE  Follows(T, L, i, q)
  <2> SUFFICES ASSUME L[i] # 0, T[L[i]] = T[q], q <= L[i]
               PROVE  Passed(T, L, i, q)
    BY DEF Follows
  <2>1. L[i] \in 1..Len(S)
    BY <1>1, <1>2
  <2>2. Passed(S, L, i, q)
    BY <1>1, <1>3, <2>1 DEF Follows
  <2>3. PICK k \in 1..(q - 1) : S[k] # S[q] /\ \A n \in 1..i : L[n] # k
    BY <2>2 DEF Passed
  <2>4. k \in 1..Len(S)
    BY <1>1
  <2>5. T[k] # T[q]
    BY <1>1, <2>3, <2>4
  <2> QED
    BY <2>2, <2>3, <2>5 DEF Passed
<1>4. ASSUME InLine(S, L)
      PROVE  InLine(T, L)
  <2> SUFFICES ASSUME NEW i \in 1..Len(L), NEW j \in 1..Len(L), i < j, L[j] # 0
               PROVE  Follows(T, L, i, L[j])
    BY DEF InLine
  <2>1. L[j] \in 1..Len(S)
    BY <1>1, <1>2
  <2>2. Follows(S, L, i, L[j])
    BY <1>4 DEF InLine
  <2> QED
    BY <1>3, <2>1, <2>2
<1>5. ASSUME NEW q \in 1..Len(S), Fits(S, L, q)
      PROVE  Fits(T, L, q)
  BY <1>3, <1>5 DEF Fits
<1>6. \A i \in 1..Len(L) : L[i] # Len(S) + 1 /\ ~(Len(S) + 1 <= L[i])
  BY <1>1, <1>2
<1>7. Fits(T, L, Len(S) + 1)
  BY <1>6 DEF Fits, Follows
<1> QED
  BY <1>4, <1>5, <1>6, <1>7 DEF T

\* The line by place.
LEMMA LineIs ==
  ASSUME NEW n \in Nat, NEW d \in Seq(1..n), NEW ts \in Seq(Task),
         \A i \in 1..Len(ts) : ts[i].do = "packet" => ts[i].id \in 1..n
  PROVE  LET L == Line(d, ts)
         IN  /\ L \in Seq(0..n) /\ L \in Seq(Nat) /\ Len(L) = Len(d) + Len(ts)
             /\ \A i \in 1..Len(d) : L[i] = d[i]
             /\ \A i \in 1..Len(ts) : L[Len(d) + i] = IF ts[i].do = "packet" THEN ts[i].id ELSE 0
<1> DEFINE w == Waits(ts)
           L == Line(d, ts)
<1>1. Len(d) \in Nat /\ Len(ts) \in Nat /\ d \in Seq(0..n)
  OBVIOUS
<1>2. /\ w \in Seq(0..n) /\ Len(w) = Len(ts)
      /\ \A i \in 1..Len(ts) : w[i] = IF ts[i].do = "packet" THEN ts[i].id ELSE 0
  <2> DEFINE e(i) == IF ts[i].do = "packet" THEN ts[i].id ELSE 0
  <2>1. \A i \in 1..Len(ts) : e(i) \in 0..n
    OBVIOUS
  <2>2. w = [i \in 1..Len(ts) |-> e(i)]
    BY DEF Waits
  <2>3. \A i \in 1..Len(ts) : w[i] = e(i)
    BY <2>2
  <2> HIDE DEF e, w
  <2>4. w \in Seq(0..n) /\ Len(w) = Len(ts)
    BY <1>1, <2>1, <2>2
  <2> QED
    BY <2>3, <2>4 DEF e
<1>3. L = d \o w
  BY DEF Line
<1> HIDE DEF w, L
<1>4. /\ L \in Seq(0..n) /\ Len(L) = Len(d) + Len(w)
      /\ \A i \in 1..Len(d) : L[i] = d[i]
      /\ \A i \in 1..Len(w) : L[Len(d) + i] = w[i]
  <2>1. w \in Seq(0..n)
    BY <1>2
  <2>2. L \in Seq(0..n) /\ Len(L) = Len(d) + Len(w)
    BY <1>1, <1>3, <2>1, ConcatProperties
  <2>3. \A i \in 1..(Len(d) + Len(w)) : L[i] = IF i <= Len(d) THEN d[i] ELSE w[i - Len(d)]
    BY <1>1, <1>3, <2>1, ConcatProperties
  <2>4. Len(w) \in Nat
    BY <2>1
  <2>5. ASSUME NEW i \in 1..Len(d)
        PROVE  L[i] = d[i]
    <3>1. i \in 1..(Len(d) + Len(w)) /\ i <= Len(d)
      BY <1>1, <2>4
    <3> QED
      BY <2>3, <3>1
  <2>6. ASSUME NEW i \in 1..Len(w)
        PROVE  L[Len(d) + i] = w[i]
    <3> DEFINE k == Len(d) + i
    <3>1. k \in 1..(Len(d) + Len(w)) /\ ~(k <= Len(d)) /\ k - Len(d) = i
      BY <1>1, <2>4
    <3> HIDE DEF k
    <3>2. L[k] = w[i]
      BY <2>3, <3>1
    <3> QED
      BY <3>2 DEF k
  <2> QED
    BY <2>2, <2>5, <2>6
<1>5. L \in Seq(Nat)
  BY <1>4
<1> QED
  BY <1>2, <1>4, <1>5 DEF L

\* A task is posted.
LEMMA LinePosts ==
  ASSUME NEW n \in Nat, NEW d \in Seq(1..n), NEW ts \in Seq(Task), NEW t \in Task,
         \A i \in 1..Len(ts) : ts[i].do = "packet" => ts[i].id \in 1..n,
         t.do = "packet" => t.id \in 1..n
  PROVE  /\ Line(d, Append(ts, t)) = Append(Line(d, ts), IF t.do = "packet" THEN t.id ELSE 0)
         /\ \A i \in 1..Len(Append(ts, t)) : Append(ts, t)[i].do = "packet" => Append(ts, t)[i].id \in 1..n
<1> DEFINE us == Append(ts, t)
           L == Line(d, ts)
           M == Line(d, us)
           x == IF t.do = "packet" THEN t.id ELSE 0
<1>1. /\ us \in Seq(Task) /\ Len(ts) \in Nat /\ Len(us) = Len(ts) + 1 /\ us[Len(ts) + 1] = t
      /\ \A i \in 1..Len(ts) : us[i] = ts[i]
  OBVIOUS
<1>2. Len(d) \in Nat /\ x \in 0..n
  OBVIOUS
<1> HIDE DEF us
<1>3. \A i \in 1..Len(us) : us[i].do = "packet" => us[i].id \in 1..n
  BY <1>1
<1>4. /\ L \in Seq(0..n) /\ Len(L) = Len(d) + Len(ts)
      /\ \A i \in 1..Len(d) : L[i] = d[i]
      /\ \A i \in 1..Len(ts) : L[Len(d) + i] = IF ts[i].do = "packet" THEN ts[i].id ELSE 0
  BY LineIs
<1>5. /\ M \in Seq(0..n) /\ Len(M) = Len(d) + Len(us)
      /\ \A i \in 1..Len(d) : M[i] = d[i]
      /\ \A i \in 1..Len(us) : M[Len(d) + i] = IF us[i].do = "packet" THEN us[i].id ELSE 0
  BY <1>1, <1>3, LineIs
<1> HIDE DEF L, M
<1>6. Len(M) = Len(L) + 1
  BY <1>1, <1>2, <1>4, <1>5
<1>7. M[Len(L) + 1] = x
  <2>1. Len(ts) + 1 \in 1..Len(us) /\ Len(L) + 1 = Len(d) + (Len(ts) + 1)
    BY <1>1, <1>2, <1>4
  <2> QED
    BY <1>1, <1>5, <2>1
<1>8. ASSUME NEW i \in 1..Len(L)
      PROVE  M[i] = L[i]
  <2>1. CASE i \in 1..Len(d)
    BY <1>4, <1>5, <2>1
  <2>2. CASE i \notin 1..Len(d)
    <3>1. i - Len(d) \in 1..Len(ts) /\ i = Len(d) + (i - Len(d))
      BY <1>1, <1>2, <1>4, <2>2
    <3>2. i - Len(d) \in 1..Len(us) /\ us[i - Len(d)] = ts[i - Len(d)]
      BY <1>1, <3>1
    <3> QED
      BY <1>4, <1>5, <3>1, <3>2
  <2> QED
    BY <2>1, <2>2
<1>9. M = Append(L, x)
  <2> HIDE DEF x
  <2>1. x \in 0..n /\ L \in Seq(0..n) /\ M \in Seq(0..n)
    BY <1>2, <1>4, <1>5
  <2>2. \A i \in 1..Len(L) : M[i] = L[i]
    BY <1>8
  <2> QED
    BY <1>6, <1>7, <2>1, <2>2, IsAppend
<1> QED
  BY <1>3, <1>9 DEF L, M, us

-----------------------------------------------------------------------------
(* What the transport keeps is in the order it came.                        *)

Older(b, i, j) ==
  \/ b.insert_pos_ < i /\ j <= b.insert_pos_
  \/ i < j /\ (i <= b.insert_pos_ <=> j <= b.insert_pos_)

Ring(b) ==
  /\ Full(b) \/ b.insert_pos_ = Len(b.buffer_)
  /\ \A i, j \in 1..Len(b.buffer_) : Older(b, i, j) => b.buffer_[i].id < b.buffer_[j].id

LEMMA AddPacketRing ==
  ASSUME NEW b, StashOk(b), Ring(b), NEW p \in Packets,
         \A i \in 1..Len(b.buffer_) : b.buffer_[i].id < p.id
  PROVE  LET c == AddPacket(b, p)
         IN  /\ Ring(c)
             /\ \A i \in 1..Len(c.buffer_) : c.buffer_[i] = p \/ \E j \in 1..Len(b.buffer_) : c.buffer_[i] = b.buffer_[j]
<1> DEFINE m == MaxStashedPackets
           buf == b.buffer_
           pos == b.insert_pos_
           new == IF Full(b) THEN [buf EXCEPT ![pos + 1] = p] ELSE Append(buf, p)
           next == (pos + 1) % m
           c == AddPacket(b, p)
<1>1. /\ m \in Nat \ {0} /\ buf \in Seq(Packets) /\ Len(buf) \in Nat
      /\ pos \in 0..(m - 1) /\ Len(buf) <= m
  BY StashAssumption DEF StashOk
<1>2. c.buffer_ = new /\ c.insert_pos_ = next
  BY DEF AddPacket
<1>3. next = IF pos + 1 = m THEN 0 ELSE pos + 1
  <2>1. CASE pos + 1 = m
    BY <1>1, <2>1
  <2>2. CASE pos + 1 # m
    <3> DEFINE y == pos + 1
    <3>1. y \in 0..(m - 1)
      BY <1>1, <2>2
    <3> HIDE DEF y
    <3>2. y % m = y
      BY <1>1, <3>1
    <3> QED
      BY <2>2, <3>2 DEF y
  <2> QED
    BY <2>1, <2>2
<1>5. CASE Full(b)
  <2>1. Len(buf) = m /\ pos + 1 \in 1..Len(buf)
    BY <1>1, <1>5 DEF Full
  <2>2. /\ new \in Seq(Packets) /\ Len(new) = m /\ new[pos + 1] = p
        /\ \A i \in 1..m : i # pos + 1 => new[i] = buf[i]
    BY <1>1, <1>5, <2>1, ExceptSeq
  <2> HIDE DEF new, next
  <2>3. Full(c)
    BY <1>2, <2>2 DEF Full
  <2>4. ASSUME NEW i \in 1..m, NEW j \in 1..m, Older(c, i, j)
        PROVE  new[i].id < new[j].id
    <3>1. CASE j = pos + 1
      <4>1. i # pos + 1
        BY <1>1, <1>2, <1>3, <2>4, <3>1 DEF Older
      <4> QED
        BY <2>1, <2>2, <3>1, <4>1
    <3>2. CASE j # pos + 1
      <4>1. i # pos + 1
        BY <1>1, <1>2, <1>3, <2>4, <3>2 DEF Older
      <4>2. Older(b, i, j)
        BY <1>1, <1>2, <1>3, <2>4, <3>2, <4>1 DEF Older
      <4> QED
        BY <2>1, <2>2, <3>2, <4>1, <4>2 DEF Ring
    <3> QED
      BY <3>1, <3>2
  <2>5. \A i \in 1..m : new[i] = p \/ \E j \in 1..Len(buf) : new[i] = buf[j]
    BY <2>1, <2>2
  <2> QED
    BY <1>2, <2>2, <2>3, <2>4, <2>5 DEF Ring
<1>6. CASE ~Full(b)
  <2>1. pos = Len(buf) /\ Len(buf) < m
    BY <1>1, <1>6 DEF Ring, Full
  <2>2. /\ new \in Seq(Packets) /\ Len(new) = Len(buf) + 1 /\ new[Len(buf) + 1] = p
        /\ \A i \in 1..Len(buf) : new[i] = buf[i]
    BY <1>1, <1>6
  <2> HIDE DEF new, next
  <2>3. Full(c) \/ c.insert_pos_ = Len(new)
    BY <1>1, <1>2, <1>3, <2>1, <2>2 DEF Full
  <2>4. ASSUME NEW i \in 1..Len(new), NEW j \in 1..Len(new), Older(c, i, j)
        PROVE  new[i].id < new[j].id
    <3>1. i < j
      BY <1>1, <1>2, <1>3, <2>1, <2>2, <2>4 DEF Older
    <3>2. i \in 1..Len(buf) /\ (j \in 1..Len(buf) \/ j = Len(buf) + 1)
      BY <1>1, <2>2, <3>1
    <3>3. CASE j = Len(buf) + 1
      BY <2>2, <3>2, <3>3
    <3>4. CASE j \in 1..Len(buf)
      <4>1. Older(b, i, j)
        BY <1>1, <2>1, <3>1, <3>2, <3>4 DEF Older
      <4> QED
        BY <2>2, <3>2, <3>4, <4>1 DEF Ring
    <3> QED
      BY <3>2, <3>3, <3>4
  <2>5. \A i \in 1..Len(new) : new[i] = p \/ \E j \in 1..Len(buf) : new[i] = buf[j]
    BY <1>1, <2>2
  <2> QED
    BY <1>2, <2>3, <2>4, <2>5 DEF Ring
<1> QED
  BY <1>5, <1>6

\* The loops visit what is kept in the order it came, and the first is the oldest.
LEMMA StoredSorted ==
  ASSUME NEW b, StashOk(b), Ring(b)
  PROVE  LET s == Stored(b)
         IN  /\ s \in Seq(Packets) /\ Len(s) = Len(b.buffer_)
             /\ \A i \in 1..Len(s) : \E k \in 1..Len(b.buffer_) : s[i] = b.buffer_[k]
             /\ \A i, j \in 1..Len(s) : i < j => s[i].id < s[j].id
             /\ b.buffer_ # <<>> =>
                  \E k \in 1..Len(b.buffer_) :
                    /\ s[1] = b.buffer_[k]
                    /\ \A j \in 1..Len(b.buffer_) : j # k => b.buffer_[k].id < b.buffer_[j].id
<1> DEFINE m == MaxStashedPackets
           buf == b.buffer_
           pos == b.insert_pos_
           start == IF Full(b) THEN pos ELSE 0
           at(i) == (((i - 1) + start) % m) + 1
           s == Stored(b)
<1>1. /\ m \in Nat \ {0} /\ buf \in Seq(Packets) /\ Len(buf) \in Nat
      /\ pos \in 0..(m - 1) /\ Len(buf) <= m
  BY StashAssumption DEF StashOk
<1>2. s = [i \in 1..Len(buf) |-> buf[at(i)]] /\ s \in Seq(Packets)
  BY StoredSeq DEF Stored
<1>3. Len(s) = Len(buf) /\ \A i \in 1..Len(buf) : s[i] = buf[at(i)]
  <2> HIDE DEF at
  <2> QED
    BY <1>1, <1>2
<1>4. ASSUME NEW i \in 1..Len(buf)
      PROVE  at(i) = IF (i - 1) + start < m THEN i + start ELSE (i + start) - m
  <2> DEFINE x == (i - 1) + start
  <2>1. x \in Nat /\ x < 2 * m
    BY <1>1
  <2>2. CASE x < m
    <3>1. x % m = x
      <4> HIDE DEF x
      <4> QED
        BY <1>1, <2>1, <2>2
    <3> QED
      BY <1>1, <2>2, <3>1
  <2>3. CASE ~(x < m)
    <3>1. x % m = x - m
      <4> HIDE DEF x
      <4> QED
        BY <1>1, <2>1, <2>3
    <3> QED
      BY <1>1, <2>3, <3>1
  <2> QED
    BY <2>2, <2>3
<1>5. start \in 0..(m - 1) /\ (start # 0 => Full(b))
  BY <1>1
<1>6. Full(b) => Len(buf) = m /\ start = pos
  BY DEF Full
<1>7. ~Full(b) => start = 0 /\ pos = Len(buf)
  BY DEF Ring
<1> HIDE DEF at, start, s
<1>8. ASSUME NEW i \in 1..Len(buf)
      PROVE  at(i) \in 1..Len(buf)
  <2>1. CASE Full(b)
    BY <1>1, <1>4, <1>5, <1>6, <2>1
  <2>2. CASE ~Full(b)
    BY <1>1, <1>4, <1>7, <2>2
  <2> QED
    BY <2>1, <2>2
<1>9. ASSUME NEW i \in 1..Len(buf), NEW j \in 1..Len(buf), i < j
      PROVE  Older(b, at(i), at(j))
  <2>1. CASE Full(b)
    BY <1>1, <1>4, <1>5, <1>6, <1>9, <2>1 DEF Older
  <2>2. CASE ~Full(b)
    <3>1. at(i) = i /\ at(j) = j
      BY <1>1, <1>4, <1>7, <2>2
    <3> QED
      BY <1>1, <1>7, <1>9, <2>2, <3>1 DEF Older
  <2> QED
    BY <2>1, <2>2
<1>10. ASSUME NEW i \in 1..Len(buf), NEW j \in 1..Len(buf), i < j
       PROVE  s[i].id < s[j].id
  BY <1>3, <1>8, <1>9, <1>10 DEF Ring
<1>11. ASSUME buf # <<>>
       PROVE  \E k \in 1..Len(buf) : /\ s[1] = buf[k]
                                     /\ \A j \in 1..Len(buf) : j # k => buf[k].id < buf[j].id
  <2>1. 1 \in 1..Len(buf)
    BY <1>1, <1>11
  <2>2. at(1) = start + 1
    BY <1>1, <1>4, <1>5, <2>1
  <2>3. ASSUME NEW j \in 1..Len(buf), j # at(1)
        PROVE  Older(b, at(1), j)
    <3>1. CASE Full(b)
      BY <1>1, <1>6, <2>2, <2>3, <3>1 DEF Older
    <3>2. CASE ~Full(b)
      BY <1>1, <1>7, <2>2, <2>3, <3>2 DEF Older
    <3> QED
      BY <3>1, <3>2
  <2> QED
    BY <1>3, <1>8, <2>1, <2>3 DEF Ring
<1>12. \A i \in 1..Len(s) : \E k \in 1..Len(buf) : s[i] = buf[k]
  BY <1>3, <1>8
<1> QED
  BY <1>2, <1>3, <1>10, <1>11, <1>12 DEF s

\* A backfill gives what it gives in the order it came.
LEMMA GivenSorted ==
  ASSUME StashOk(stash), Ring(stash)
  PROVE  LET g == Those(stash, Wanted)
         IN  /\ g \in Seq(Packets)
             /\ \A i \in 1..Len(g) : \E k \in 1..Len(stash.buffer_) : g[i] = stash.buffer_[k]
             /\ \A i, j \in 1..Len(g) : i < j => g[i].id < g[j].id
<1> DEFINE s == Stored(stash)
           n == Len(s)
           UpTo_(k, g) == /\ g \in Seq(Packets)
                          /\ \A i \in 1..Len(g) : \E m \in 1..k : g[i] = s[m]
                          /\ \A i, j \in 1..Len(g) : i < j => g[i].id < g[j].id
<1>1. /\ s \in Seq(Packets) /\ n \in Nat
      /\ \A i \in 1..n : \E k \in 1..Len(stash.buffer_) : s[i] = stash.buffer_[k]
      /\ \A i, j \in 1..n : i < j => s[i].id < s[j].id
  BY StoredSorted
<1>2. PICK h : /\ h[0] = <<>> /\ Those(stash, Wanted) = h[n]
               /\ \A k \in 0..(n - 1) :
                    h[k + 1] = IF s[k + 1] \in Wanted THEN Append(h[k], s[k + 1]) ELSE h[k]
  <2>1. Backfill!Folded(<<>>, s) = Those(stash, Wanted)
    BY Zenon DEF Those, Backfill!Folded, Backfill!Greatest, FoldLeft, MapThenFoldSet, Max
  <2>2. s \in Seq(Packets)
    BY <1>1
  <2> HIDE DEF s
  <2>3. PICK h : Backfill!Trace(<<>>, s, h)
    BY <2>2, Backfill!FoldTrace, Zenon
  <2> QED
    BY <2>1, <2>3 DEF Backfill!Trace
<1> DEFINE G == {k \in 0..n : UpTo_(k, h[k])}
<1>3. 0 \in G
  <2>1. UpTo_(0, <<>>)
    OBVIOUS
  <2>2. 0 \in 0..n
    BY <1>1
  <2> HIDE DEF UpTo_, n
  <2> QED
    BY <1>2, <2>1, <2>2
<1>4. ASSUME NEW k \in 0..(n - 1), k \in G
      PROVE  k + 1 \in G
  <2> DEFINE g == h[k]
             x == s[k + 1]
  <2>1. k \in Nat /\ k + 1 \in 1..n /\ k + 1 \in 0..n
    BY <1>1
  <2>2. x \in Packets
    BY <1>1, <2>1
  <2>3. UpTo_(k, g)
    BY <1>4
  <2>4. h[k + 1] = IF x \in Wanted THEN Append(g, x) ELSE g
    BY <1>2
  <2> HIDE DEF g, x, n
  <2>5. UpTo_(k + 1, g)
    <3>1. \A m \in 1..k : m \in 1..(k + 1)
      BY <2>1
    <3> QED
      BY <2>3, <3>1
  <2>6. UpTo_(k + 1, Append(g, x))
    <3> DEFINE e == Append(g, x)
    <3>1. g \in Seq(Packets)
      BY <2>3
    <3>2. /\ e \in Seq(Packets) /\ Len(g) \in Nat /\ Len(e) = Len(g) + 1 /\ e[Len(g) + 1] = x
          /\ \A i \in 1..Len(g) : e[i] = g[i]
      BY <2>2, <3>1
    <3> HIDE DEF e
    <3>3. \A i \in 1..Len(e) : \E m \in 1..(k + 1) : e[i] = s[m]
      <4>1. k + 1 \in 1..(k + 1) /\ x = s[k + 1]
        BY <2>1 DEF x
      <4>2. \A i \in 1..Len(e) : i \in 1..Len(g) \/ i = Len(g) + 1
        BY <3>2
      <4> QED
        BY <2>5, <3>2, <4>1, <4>2
    <3>4. ASSUME NEW i \in 1..Len(g)
          PROVE  g[i].id < x.id
      <4>1. PICK m \in 1..k : g[i] = s[m]
        BY <2>3
      <4>2. m \in 1..n /\ m < k + 1
        BY <1>1, <2>1
      <4> QED
        BY <1>1, <2>1, <4>1, <4>2 DEF x, n
    <3>5. ASSUME NEW i \in 1..Len(e), NEW j \in 1..Len(e), i < j
          PROVE  e[i].id < e[j].id
      <4>1. i \in 1..Len(g) /\ (j \in 1..Len(g) \/ j = Len(g) + 1)
        BY <3>2, <3>5
      <4> QED
        BY <2>3, <3>2, <3>4, <3>5, <4>1
    <3> QED
      BY <3>2, <3>3, <3>5 DEF e
  <2>7. UpTo_(k + 1, h[k + 1])
    <3> HIDE DEF UpTo_
    <3> QED
      BY <2>4, <2>5, <2>6
  <2> QED
    BY <2>1, <2>7 DEF n
<1>5. UpTo_(n, h[n])
  <2>1. G \in SUBSET (0..n)
    OBVIOUS
  <2>2. n \in G
    <3> HIDE DEF G, n
    <3> QED
      BY <1>1, <1>3, <1>4, <2>1, UpTo
  <2> QED
    BY <2>2
<1> HIDE DEF s
<1> QED
  BY <1>1, <1>2, <1>5

\* Packets that fit are posted one after the other.
LEMMA PostingInLine ==
  ASSUME tasks \in Seq(Task), sink \in Criteria, NEW n \in Nat, NEW d \in Seq(1..n), NEW S,
         \A i \in 1..Len(tasks) : tasks[i].do = "packet" => tasks[i].id \in 1..n,
         InLine(S, Line(d, tasks)), NEW ps \in Seq(Packets),
         \A i \in 1..Len(ps) : ps[i].id \in 1..n /\ Fits(S, Line(d, tasks), ps[i].id),
         \A i, j \in 1..Len(ps) : i < j => ps[i].id < ps[j].id
  PROVE  LET us == FoldLeft(OnRtpPacket, tasks, ps)
         IN  /\ \A i \in 1..Len(us) : us[i].do = "packet" => us[i].id \in 1..n
             /\ InLine(S, Line(d, us))
<1> DEFINE len == Len(ps)
           Numbered(ts) == \A i \in 1..Len(ts) : ts[i].do = "packet" => ts[i].id \in 1..n
           Good(k, ts) == /\ ts \in Seq(Task) /\ Numbered(ts) /\ InLine(S, Line(d, ts))
                          /\ \A m \in (k + 1)..len : Fits(S, Line(d, ts), ps[m].id)
<1>1. PICK h : /\ h[0] = tasks /\ FoldLeft(OnRtpPacket, tasks, ps) = h[len]
               /\ \A k \in 0..(len - 1) : h[k + 1] = OnRtpPacket(h[k], ps[k + 1])
  <2>1. Posting!Folded(tasks, ps) = FoldLeft(OnRtpPacket, tasks, ps)
    BY Zenon DEF Posting!Folded, Posting!Greatest, FoldLeft, MapThenFoldSet, Max
  <2>2. PICK h : Posting!Trace(tasks, ps, h)
    BY Posting!FoldTrace, Zenon
  <2> QED
    BY <2>1, <2>2 DEF Posting!Trace
<1>2. len \in Nat
  OBVIOUS
<1> DEFINE G == {k \in 0..len : Good(k, h[k])}
<1>3. 0 \in G
  <2>1. Good(0, tasks)
    OBVIOUS
  <2> QED
    BY <1>1, <1>2, <2>1
<1>4. ASSUME NEW k \in 0..(len - 1), k \in G
      PROVE  k + 1 \in G
  <2> DEFINE ts == h[k]
             q == ps[k + 1]
             t == [do |-> "packet", id |-> q.id, under |-> sink]
  <2>1. k \in Nat /\ k + 1 \in 1..len /\ k + 1 \in 0..len /\ k + 1 \in (k + 1)..len
    BY <1>2
  <2>2. q \in Packets /\ q.id \in 1..n
    BY <2>1
  <2>3. Good(k, ts)
    BY <1>4
  <2>4. h[k + 1] = ts \/ h[k + 1] = Append(ts, t)
    BY <1>1 DEF OnRtpPacket
  <2>5. \A m \in (k + 2)..len : m \in (k + 1)..len /\ m \in 1..len /\ k + 1 < m
    BY <1>2, <2>1
  <2>6. \A m \in (k + 2)..len : q.id < ps[m].id
    BY <2>1, <2>5
  <2>7. \A m \in (k + 2)..len : ps[m].id \in 1..n
    BY <2>5
  <2>8. Fits(S, Line(d, ts), q.id)
    BY <2>1, <2>3
  <2>9. t \in Task /\ t.do = "packet" /\ t.id = q.id
    BY <2>2 DEF Task, Packets
  <2> HIDE DEF ts, q, t
  <2>10. Good(k + 1, ts)
    <3>1. (k + 1) + 1 = k + 2
      BY <2>1
    <3> QED
      BY <2>3, <2>5, <3>1
  <2>11. Good(k + 1, Append(ts, t))
    <3> DEFINE L == Line(d, ts)
    <3>1. ts \in Seq(Task) /\ Numbered(ts) /\ InLine(S, L)
      BY <2>3
    <3>2. L \in Seq(Nat)
      BY <3>1, LineIs
    <3>3. Line(d, Append(ts, t)) = Append(L, q.id) /\ Numbered(Append(ts, t))
      BY <2>2, <2>9, <3>1, LinePosts
    <3> HIDE DEF L
    <3>4. InLine(S, Append(L, q.id))
      BY <2>2, <2>8, <3>1, <3>2, Joined DEF L
    <3>5. ASSUME NEW m \in (k + 2)..len
          PROVE  Fits(S, Append(L, q.id), ps[m].id)
      <4>1. Fits(S, L, ps[m].id)
        BY <2>3, <2>5 DEF L
      <4>2. ~(ps[m].id <= q.id) /\ ps[m].id \in Nat /\ q.id \in Nat \ {0}
        BY <2>2, <2>6, <2>7
      <4> QED
        BY <3>2, <4>1, <4>2, Joined
    <3>6. (k + 1) + 1 = k + 2
      BY <2>1
    <3>7. Append(ts, t) \in Seq(Task)
      BY <2>9, <3>1
    <3> QED
      BY <3>3, <3>4, <3>5, <3>6, <3>7
  <2>12. Good(k + 1, h[k + 1])
    <3> HIDE DEF Good
    <3> QED
      BY <2>4, <2>10, <2>11
  <2> HIDE DEF Good
  <2> QED
    BY <2>1, <2>12
<1>5. Good(len, h[len])
  <2> HIDE DEF Good
  <2>1. G \in SUBSET (0..len)
    OBVIOUS
  <2>2. len \in G
    <3> HIDE DEF G, len
    <3> QED
      BY <1>2, <1>3, <1>4, <2>1, UpTo
  <2> QED
    BY <2>2
<1> QED
  BY <1>1, <1>5

LEMMA PostingFew ==
  ASSUME NEW p \in Packets
  PROVE  /\ FoldLeft(OnRtpPacket, tasks, <<>>) = tasks
         /\ FoldLeft(OnRtpPacket, tasks, <<p>>) = OnRtpPacket(tasks, p)
<1>1. ASSUME NEW ps \in Seq(Packets)
      PROVE  Posting!Folded(tasks, ps) = FoldLeft(OnRtpPacket, tasks, ps)
  BY Zenon DEF Posting!Folded, Posting!Greatest, FoldLeft, MapThenFoldSet, Max
<1>2. <<>> \in Seq(Packets) /\ <<p>> \in Seq(Packets) /\ Len(<<p>>) = 1 /\ <<p>>[1] = p
  OBVIOUS
<1>3. FoldLeft(OnRtpPacket, tasks, <<>>) = tasks
  <2> DEFINE ps == <<>>
  <2>1. ps \in Seq(Packets) /\ Len(ps) = 0
    OBVIOUS
  <2> HIDE DEF ps
  <2>2. PICK h : Posting!Trace(tasks, ps, h)
    BY <2>1, Posting!FoldTrace, Zenon
  <2>3. FoldLeft(OnRtpPacket, tasks, ps) = tasks
    BY <1>1, <2>1, <2>2 DEF Posting!Trace
  <2> QED
    BY <2>3 DEF ps
<1>4. FoldLeft(OnRtpPacket, tasks, <<p>>) = OnRtpPacket(tasks, p)
  <2> DEFINE ps == <<p>>
  <2>1. ps \in Seq(Packets) /\ Len(ps) = 1 /\ ps[1] = p
    OBVIOUS
  <2> HIDE DEF ps
  <2>2. PICK h : Posting!Trace(tasks, ps, h)
    BY <2>1, Posting!FoldTrace, Zenon
  <2>3. 0 \in 0..(Len(ps) - 1) /\ 0 + 1 = 1
    BY <2>1
  <2>4. h[1] = OnRtpPacket(h[0], ps[1])
    BY <2>2, <2>3 DEF Posting!Trace
  <2>5. FoldLeft(OnRtpPacket, tasks, ps) = OnRtpPacket(tasks, p)
    BY <1>1, <2>1, <2>2, <2>4 DEF Posting!Trace
  <2> QED
    BY <2>5 DEF ps
<1> QED
  BY <1>3, <1>4

-----------------------------------------------------------------------------
(* The invariant of the order, and the steps.                               *)

Numbered(ts) == \A i \in 1..Len(ts) : ts[i].do = "packet" => ts[i].id \in 1..Len(sent)

\* What the transport keeps was not given to the section yet and fits.
Waiting(S, L, x) ==
  /\ x.id \in 1..Len(S) /\ x.ssrc = S[x.id] /\ Fits(S, L, x.id)
  /\ \A i \in 1..Len(L) : L[i] # x.id

Now == Line(ch.delivered, tasks)

Queued ==
  /\ ch.delivered \in Seq(1..Len(sent)) /\ Numbered(tasks)
  /\ InLine(sent, Now) /\ Ring(stash)
  /\ \A i \in 1..Len(stash.buffer_) : Waiting(sent, Now, stash.buffer_[i])

\* A task is taken; when it is a packet, that is delivered or not.
LEMMA TailThin ==
  ASSUME NEW n \in Nat, NEW d \in Seq(1..n), NEW ts \in Seq(Task), ts # <<>>,
         \A i \in 1..Len(ts) : ts[i].do = "packet" => ts[i].id \in 1..n,
         NEW e, e = d \/ (Head(ts).do = "packet" /\ e = Append(d, Head(ts).id))
  PROVE  /\ e \in Seq(1..n) /\ Thin(Line(d, ts), Line(e, Tail(ts)))
         /\ \A i \in 1..Len(Tail(ts)) : Tail(ts)[i].do = "packet" => Tail(ts)[i].id \in 1..n
<1> DEFINE us == Tail(ts)
           L == Line(d, ts)
           M == Line(e, us)
<1>1. /\ us \in Seq(Task) /\ Len(ts) \in Nat /\ Len(us) = Len(ts) - 1 /\ Len(ts) >= 1
      /\ \A i \in 1..Len(us) : us[i] = ts[i + 1]
      /\ Head(ts) = ts[1] /\ Len(d) \in Nat
  OBVIOUS
<1> HIDE DEF us
<1>2. \A i \in 1..Len(us) : us[i].do = "packet" => us[i].id \in 1..n
  BY <1>1, SMTT(30)
<1>3. Head(ts).do = "packet" => Head(ts).id \in 1..n
  BY <1>1
<1>4. e \in Seq(1..n)
  <2>1. CASE e = d
    BY <2>1
  <2>2. CASE Head(ts).do = "packet" /\ e = Append(d, Head(ts).id)
    <3> DEFINE x == Head(ts).id
    <3>1. x \in 1..n /\ e = Append(d, x)
      BY <1>3, <2>2
    <3> HIDE DEF x
    <3> QED
      BY <3>1
  <2> QED
    BY <2>1, <2>2
<1>5. /\ L \in Seq(Nat) /\ Len(L) = Len(d) + Len(ts)
      /\ \A i \in 1..Len(d) : L[i] = d[i]
      /\ \A i \in 1..Len(ts) : L[Len(d) + i] = IF ts[i].do = "packet" THEN ts[i].id ELSE 0
  BY LineIs
<1>6. /\ M \in Seq(Nat) /\ Len(M) = Len(e) + Len(us)
      /\ \A i \in 1..Len(e) : M[i] = e[i]
      /\ \A i \in 1..Len(us) : M[Len(e) + i] = IF us[i].do = "packet" THEN us[i].id ELSE 0
  BY <1>1, <1>2, <1>4, LineIs
<1> HIDE DEF L, M
<1>7. ASSUME NEW i \in 1..Len(us)
      PROVE  /\ M[Len(e) + i] = L[Len(d) + (i + 1)]
             /\ i + 1 \in 1..Len(ts)
  <2>1. i + 1 \in 1..Len(ts) /\ us[i] = ts[i + 1]
    BY <1>1
  <2>2. M[Len(e) + i] = IF us[i].do = "packet" THEN us[i].id ELSE 0
    BY <1>6
  <2>3. L[Len(d) + (i + 1)] = IF ts[i + 1].do = "packet" THEN ts[i + 1].id ELSE 0
    BY <1>5, <2>1
  <2> QED
    BY <2>1, <2>2, <2>3
<1>8. CASE e = d
  <2> DEFINE f == [i \in 1..Len(M) |-> IF i <= Len(d) THEN i ELSE i + 1]
  <2>1. ASSUME NEW i \in 1..Len(M)
        PROVE  f[i] \in 1..Len(L) /\ L[f[i]] = M[i]
    <3>1. CASE i <= Len(d)
      <4>1. i \in 1..Len(d) /\ f[i] = i /\ i \in 1..Len(L)
        BY <1>1, <1>5, <3>1
      <4> QED
        BY <1>5, <1>6, <1>8, <4>1
    <3>2. CASE ~(i <= Len(d))
      <4> DEFINE k == i - Len(d)
      <4>1. k \in 1..Len(us) /\ i = Len(d) + k /\ f[i] = Len(d) + (k + 1)
        BY <1>1, <1>6, <1>8, <3>2
      <4> HIDE DEF k, f
      <4>2. k + 1 \in 1..Len(ts) /\ M[i] = L[f[i]]
        BY <1>7, <1>8, <4>1
      <4>3. f[i] \in 1..Len(L)
        BY <1>1, <1>5, <4>1, <4>2
      <4> QED
        BY <4>2, <4>3
    <3> QED
      BY <3>1, <3>2
  <2>2. ASSUME NEW i \in 1..Len(M), NEW j \in 1..Len(M), i < j
        PROVE  f[i] < f[j]
    BY <1>1, <2>2
  <2> HIDE DEF f
  <2>3. Thin(L, M)
    BY <2>1, <2>2 DEF Thin
  <2> QED
    BY <1>2, <1>4, <2>3 DEF L, M, us
<1>9. CASE Head(ts).do = "packet" /\ e = Append(d, Head(ts).id)
  <2> DEFINE f == [i \in 1..Len(M) |-> i]
  <2>1. /\ Len(e) = Len(d) + 1 /\ e[Len(d) + 1] = Head(ts).id
        /\ \A i \in 1..Len(d) : e[i] = d[i]
    BY <1>3, <1>9
  <2>2. ASSUME NEW i \in 1..Len(M)
        PROVE  i \in 1..Len(L) /\ L[i] = M[i]
    <3>1. i \in 1..Len(L)
      BY <1>1, <1>5, <1>6, <2>1
    <3>2. CASE i <= Len(d)
      <4>1. i \in 1..Len(d) /\ i \in 1..Len(e)
        BY <1>1, <2>1, <3>2
      <4> QED
        BY <1>5, <1>6, <2>1, <3>1, <4>1
    <3>3. CASE i = Len(d) + 1
      <4>1. i \in 1..Len(e) /\ 1 \in 1..Len(ts)
        BY <1>1, <2>1, <3>3
      <4>2. M[i] = Head(ts).id
        BY <1>6, <2>1, <3>3, <4>1
      <4>3. L[i] = Head(ts).id
        BY <1>1, <1>5, <1>9, <3>3, <4>1
      <4> QED
        BY <3>1, <4>2, <4>3
    <3>4. CASE i > Len(d) + 1
      <4> DEFINE k == i - (Len(d) + 1)
      <4>1. k \in 1..Len(us) /\ i = Len(e) + k /\ i = Len(d) + (k + 1)
        BY <1>1, <1>6, <2>1, <3>4, SMTT(30)
      <4> HIDE DEF k
      <4>2. M[Len(e) + k] = L[Len(d) + (k + 1)]
        BY <1>7, <4>1
      <4> QED
        BY <3>1, <4>1, <4>2
    <3> QED
      BY <1>1, <3>2, <3>3, <3>4
  <2>3. \A i \in 1..Len(M) : f[i] = i
    OBVIOUS
  <2> HIDE DEF f
  <2>4. Thin(L, M)
    BY <2>2, <2>3, SMTT(30) DEF Thin
  <2> QED
    BY <1>2, <1>4, <2>4 DEF L, M, us
<1> QED
  BY <1>8, <1>9

\* Another task is posted.
LEMMA PostThin ==
  ASSUME NEW L \in Seq(Nat)
  PROVE  Append(L, 0) \in Seq(Nat) /\ Thin(L, Append(L, 0))
<1> DEFINE M == Append(L, 0)
           f == [i \in 1..Len(M) |-> i]
<1>1. M \in Seq(Nat) /\ \A i \in 1..Len(M) : M[i] # 0 => i \in 1..Len(L) /\ L[i] = M[i]
  OBVIOUS
<1>2. \A i \in 1..Len(M) : f[i] = i
  OBVIOUS
<1> HIDE DEF M, f
<1>3. \A i, j \in 1..Len(M) : i < j => f[i] < f[j]
  BY <1>2
<1>4. \A i \in 1..Len(M) : M[i] # 0 => f[i] \in 1..Len(L) /\ L[f[i]] = M[i]
  BY <1>1, <1>2
<1>5. Thin(L, M)
  BY <1>3, <1>4 DEF Thin
<1> QED
  BY <1>1, <1>5 DEF M

\* What is posted is dropped.
LEMMA DropThin ==
  ASSUME NEW n \in Nat, NEW d \in Seq(1..n), NEW ts \in Seq(Task),
         \A i \in 1..Len(ts) : ts[i].do = "packet" => ts[i].id \in 1..n
  PROVE  Thin(Line(d, ts), Line(d, <<>>))
<1> DEFINE L == Line(d, ts)
           us == <<>>
           M == Line(d, us)
           f == [i \in 1..Len(M) |-> i]
<1>1. us \in Seq(Task) /\ Len(us) = 0 /\ Len(d) \in Nat /\ Len(ts) \in Nat
  OBVIOUS
<1>2. Len(L) = Len(d) + Len(ts) /\ \A i \in 1..Len(d) : L[i] = d[i]
  BY LineIs
<1> HIDE DEF us
<1>3. \A i \in 1..Len(us) : us[i].do = "packet" => us[i].id \in 1..n
  BY <1>1
<1>4. Len(M) = Len(d) + Len(us) /\ \A i \in 1..Len(d) : M[i] = d[i]
  BY <1>1, <1>3, LineIs
<1>5. \A i \in 1..Len(M) : f[i] = i
  OBVIOUS
<1> HIDE DEF L, M, f
<1>6. \A i \in 1..Len(M) : i \in 1..Len(L) /\ L[i] = M[i]
  BY <1>1, <1>2, <1>4
<1>7. \A i, j \in 1..Len(M) : i < j => f[i] < f[j]
  BY <1>5
<1>8. \A i \in 1..Len(M) : f[i] \in 1..Len(L) /\ L[f[i]] = M[i]
  BY <1>5, <1>6
<1>9. Thin(L, M)
  BY <1>7, <1>8 DEF Thin
<1> QED
  BY <1>9 DEF L, M, us

LEMMA NowIs ==
  ASSUME IInv, Queued
  PROVE  /\ Len(sent) \in Nat /\ Now \in Seq(Nat) /\ Now \in Seq(0..Len(sent))
<1>1. Len(sent) \in Nat /\ tasks \in Seq(Task)
  BY DEF IInv, Typed
<1> QED
  BY <1>1, LineIs DEF Queued, Numbered, Now

\* A step that gives no packet.
LEMMA ThinStep ==
  ASSUME IInv, Queued, UNCHANGED <<stash, sent>>, Thin(Now, Now'), Now' \in Seq(Nat),
         ch'.delivered \in Seq(1..Len(sent)), Numbered(tasks)'
  PROVE  Queued'
<1>1. Len(sent) \in Nat /\ Now \in Seq(Nat)
  BY NowIs
<1>2. InLine(sent, Now')
  BY <1>1, Thinned DEF Queued
<1>3. ASSUME NEW i \in 1..Len(stash.buffer_)
      PROVE  Waiting(sent, Now', stash.buffer_[i])
  <2> DEFINE x == stash.buffer_[i]
  <2>1. /\ x.id \in 1..Len(sent) /\ x.ssrc = sent[x.id] /\ Fits(sent, Now, x.id)
        /\ \A k \in 1..Len(Now) : Now[k] # x.id
    BY DEF Queued, Waiting
  <2> HIDE DEF x
  <2>2. x.id \in Nat \ {0}
    BY <1>1, <2>1
  <2>3. Fits(sent, Now', x.id)
    BY <1>1, <2>1, <2>2, Thinned
  <2>4. \A k \in 1..Len(Now') : Now'[k] # x.id
    BY <1>1, <2>1, <2>2, Thinned, ZenonT(30)
  <2>5. Waiting(sent, Now', x)
    BY <2>1, <2>3, <2>4 DEF Waiting
  <2> QED
    BY <2>5 DEF x
<1>4. InLine(sent, Now)' /\ \A i \in 1..Len(stash'.buffer_) : Waiting(sent, Now, stash.buffer_[i])'
  BY <1>2, <1>3
<1>5. Ring(stash)'
  BY DEF Queued, Ring, Older, Full
<1> QED
  BY <1>4, <1>5 DEF Queued

\* The steps that give no packet post another task, take one or drop them all.
LEMMA OtherSteps ==
  ASSUME IInv, [Next]_vars, ~DemuxPacket
  PROVE  /\ UNCHANGED <<stash, sent>>
         /\ \/ /\ ch'.delivered = ch.delivered
               /\ \/ tasks' = tasks \/ tasks' = <<>>
                  \/ \E t \in Task : t.do # "packet" /\ tasks' = Append(tasks, t)
            \/ /\ tasks # <<>> /\ tasks' = Tail(tasks)
               /\ \/ ch'.delivered = ch.delivered
                  \/ /\ Head(tasks).do = "packet"
                     /\ ch'.delivered = Append(ch.delivered, Head(tasks).id)
<1> DEFINE Posts == \E t \in Task : t.do # "packet" /\ tasks' = Append(tasks, t)
           Takes == tasks # <<>> /\ tasks' = Tail(tasks)
<1>1. UNCHANGED <<stash, sent>>
  <2>1. CASE Signaling
    BY <2>1 DEF Signaling, CallSetLocalContent, CallSetRemoteContent, CallSetPayloadTypeDemuxingEnabled,
                CallSetDefaultSink, CallSetDefaultDelay, CallClose, Call, Enable, network
  <2>2. CASE Worker
    BY <2>2 DEF Worker, BeginLocal, FinishLocal, BeginRemote, BeginStreams, FinishRemote,
                SetPayloadTypeDemuxingEnabled, FinishDemuxing, SetDefault, EnableMedia, FirstWritable,
                ReceivePacket, CriteriaComplete, BeginClose, FinishClose, network
  <2>3. CASE Cooled \/ UNCHANGED vars
    BY <2>3 DEF Cooled, vars, network
  <2>4. CASE Network
    BY <2>4 DEF Network, RegisterRtpDemuxerSink, RegisterOther, Writable
  <2> QED
    BY <2>1, <2>2, <2>3, <2>4 DEF Next
<1>2. tasks' = tasks \/ tasks' = <<>> \/ Posts \/ Takes
  <2>1. CASE Signaling
    <3>1. ASSUME NEW t \in Task, t.do # "packet", Post(t)
          PROVE  Posts
      BY <3>1 DEF Post
    <3>2. CASE CallSetLocalContent
      <4>1. PICK c \in LocalContents : Post([do |-> "local", content |-> c])
        BY <3>2 DEF CallSetLocalContent, Call
      <4> QED
        BY <3>1, <4>1 DEF Task
    <3>3. CASE CallSetRemoteContent
      <4>1. PICK c \in RemoteContents : Post([do |-> "remote", content |-> c])
        BY <3>3 DEF CallSetRemoteContent, Call
      <4> QED
        BY <3>1, <4>1 DEF Task
    <3>4. CASE CallSetPayloadTypeDemuxingEnabled
      <4>1. PICK b \in BOOLEAN : Post([do |-> "demuxing", to |-> b])
        BY <3>4 DEF CallSetPayloadTypeDemuxingEnabled, Call
      <4> QED
        BY <3>1, <4>1 DEF Task
    <3>5. CASE CallSetDefaultSink \/ CallSetDefaultDelay \/ CallClose
      <4>1. PICK call \in {"sink", "delay", "close"} : Post([do |-> call])
        BY <3>5 DEF CallSetDefaultSink, CallSetDefaultDelay, CallClose, Call
      <4> QED
        BY <3>1, <4>1 DEF Task
    <3>6. CASE Enable
      <4>1. Post([do |-> "enable", to |-> ~enabled_s_]) /\ enabled_s_ \in BOOLEAN
        BY <3>6 DEF Enable, IInv, Typed
      <4> QED
        BY <3>1, <4>1 DEF Task
    <3> QED
      BY <2>1, <3>2, <3>3, <3>4, <3>5, <3>6 DEF Signaling
  <2>2. CASE \E task : Start(task)
    BY <2>2 DEF Start
  <2>3. CASE Worker
    <3>1. CASE BeginLocal \/ BeginRemote \/ SetPayloadTypeDemuxingEnabled \/ SetDefault \/ EnableMedia
               \/ FirstWritable \/ ReceivePacket \/ CriteriaComplete \/ BeginClose
      BY <2>2, <3>1 DEF BeginLocal, BeginRemote, SetPayloadTypeDemuxingEnabled, SetDefault, EnableMedia,
                        FirstWritable, ReceivePacket, CriteriaComplete, BeginClose
    <3>2. CASE FinishLocal \/ BeginStreams \/ FinishRemote \/ FinishDemuxing \/ FinishClose
      BY <3>2 DEF FinishLocal, BeginStreams, FinishRemote, FinishDemuxing, FinishClose
    <3> QED
      BY <2>3, <3>1, <3>2 DEF Worker
  <2>4. CASE Cooled \/ UNCHANGED vars \/ RegisterOther
    BY <2>4 DEF Cooled, vars, RegisterOther
  <2>5. CASE RegisterRtpDemuxerSink
    <3>1. CASE wpc.then.do = "close"
      BY <2>5, <3>1 DEF RegisterRtpDemuxerSink
    <3>2. CASE wpc.then.do # "close"
      <4>1. Post([do |-> "complete"])
        BY <2>5, <3>2 DEF RegisterRtpDemuxerSink, Register
      <4> QED
        BY <4>1 DEF Post, Task
    <3> QED
      BY <3>1, <3>2
  <2>6. CASE Writable
    BY <2>6 DEF Writable, Post, Task
  <2> QED
    BY <2>1, <2>3, <2>4, <2>5, <2>6 DEF Next, Network
<1>3. CASE ReceivePacket
  <2>1. tasks # <<>> /\ tasks' = Tail(tasks) /\ Head(tasks).do = "packet"
    BY <1>3 DEF ReceivePacket, Start
  <2>2. Sound(ch) /\ ch' = OnPacketReceived(ch, Packet(Head(tasks).id))
    BY <1>3 DEF IInv, ReceivePacket
  <2>3. Packet(Head(tasks).id).id = Head(tasks).id
    BY DEF Packet
  <2>4. ch'.delivered = ch.delivered \/ ch'.delivered = Append(ch.delivered, Head(tasks).id)
    BY <2>2, <2>3, PacketSound
  <2> QED
    BY <1>1, <2>1, <2>4
<1>4. CASE ~ReceivePacket
  BY <1>1, <1>2, <1>4, DefaultsStep
<1> QED
  BY <1>3, <1>4

LEMMA OtherStepsInOrder ==
  ASSUME IInv, Queued, [Next]_vars, ~DemuxPacket
  PROVE  Queued'
<1> DEFINE n == Len(sent)
           d == ch.delivered
           e == ch'.delivered
<1>1. n \in Nat /\ d \in Seq(1..n) /\ tasks \in Seq(Task) /\ Now \in Seq(Nat)
      /\ \A i \in 1..Len(tasks) : tasks[i].do = "packet" => tasks[i].id \in 1..n
  BY NowIs DEF IInv, Typed, Queued, Numbered
<1>2. UNCHANGED <<stash, sent>>
  BY OtherSteps
<1>3. ASSUME e \in Seq(1..n), tasks' \in Seq(Task), Thin(Now, Line(e, tasks')),
             \A i \in 1..Len(tasks') : tasks'[i].do = "packet" => tasks'[i].id \in 1..n
      PROVE  Queued'
  <2>1. Line(e, tasks') \in Seq(Nat)
    BY <1>1, <1>3, LineIs
  <2>2. Now' = Line(e, tasks')
    BY DEF Now
  <2>3. Numbered(tasks)'
    BY <1>2, <1>3 DEF Numbered
  <2> HIDE DEF n
  <2> QED
    BY <1>2, <1>3, <2>1, <2>2, <2>3, ThinStep DEF n
<1>4. CASE e = d /\ tasks' = tasks
  <2>1. Thin(Now, Now)
    <3> DEFINE f == [i \in 1..Len(Now) |-> i]
    <3>1. \A i \in 1..Len(Now) : f[i] = i
      OBVIOUS
    <3> HIDE DEF f
    <3> QED
      BY <3>1 DEF Thin
  <2> QED
    BY <1>1, <1>3, <1>4, <2>1 DEF Now
<1>5. CASE e = d /\ tasks' = <<>>
  <2>1. Thin(Now, Line(d, <<>>))
    BY <1>1, DropThin DEF Now
  <2> QED
    BY <1>1, <1>3, <1>5, <2>1
<1>6. CASE e = d /\ \E t \in Task : t.do # "packet" /\ tasks' = Append(tasks, t)
  <2>1. PICK t \in Task : t.do # "packet" /\ tasks' = Append(tasks, t)
    BY <1>6
  <2>2. /\ Line(d, tasks') = Append(Now, 0) /\ tasks' \in Seq(Task)
        /\ \A i \in 1..Len(tasks') : tasks'[i].do = "packet" => tasks'[i].id \in 1..n
    <3>1. tasks' \in Seq(Task)
      BY <1>1, <2>1
    <3>2. /\ Line(d, Append(tasks, t)) = Append(Line(d, tasks), IF t.do = "packet" THEN t.id ELSE 0)
          /\ \A i \in 1..Len(Append(tasks, t)) :
               Append(tasks, t)[i].do = "packet" => Append(tasks, t)[i].id \in 1..n
      <4> HIDE DEF n, d
      <4> QED
        BY <1>1, <2>1, LinePosts
    <3> QED
      BY <2>1, <3>1, <3>2 DEF Now
  <2>3. Thin(Now, Line(d, tasks'))
    BY <1>1, <2>2, PostThin
  <2> QED
    BY <1>1, <1>3, <1>6, <2>2, <2>3
<1>7. CASE /\ tasks # <<>> /\ tasks' = Tail(tasks)
           /\ e = d \/ (Head(tasks).do = "packet" /\ e = Append(d, Head(tasks).id))
  <2>1. /\ e \in Seq(1..n) /\ Thin(Now, Line(e, tasks')) /\ tasks' \in Seq(Task)
        /\ \A i \in 1..Len(tasks') : tasks'[i].do = "packet" => tasks'[i].id \in 1..n
    <3>1. tasks' \in Seq(Task)
      BY <1>1, <1>7
    <3>2. /\ e \in Seq(1..n) /\ Thin(Line(d, tasks), Line(e, Tail(tasks)))
          /\ \A i \in 1..Len(Tail(tasks)) : Tail(tasks)[i].do = "packet" => Tail(tasks)[i].id \in 1..n
      <4> HIDE DEF n, d, e
      <4> QED
        BY <1>1, <1>7, TailThin
    <3> QED
      BY <1>7, <3>1, <3>2 DEF Now
  <2> QED
    BY <1>3, <2>1
<1> QED
  BY <1>4, <1>5, <1>6, <1>7, OtherSteps

LEMMA DemuxInOrder ==
  ASSUME IInv, Queued, DemuxPacket
  PROVE  Queued'
<1> DEFINE fill == MaybeBackfillPackets(stash, Wanted)
           n == Len(sent)
           d == ch.delivered
           buf == stash.buffer_
           packet(ssrc) == [ssrc |-> ssrc, id |-> n + 1, rtx |-> ssrc \in RtxSsrcs]
           ps(p) == InOrder(fill.given, IF Routed(p) THEN <<p>> ELSE <<>>)
<1>1. PICK ssrc \in VideoSsrcs \cup {OtherSsrc} :
        /\ sent' = Append(sent, ssrc)
        /\ stash' = IF Routed(packet(ssrc)) THEN fill.left ELSE AddPacket(fill.left, packet(ssrc))
        /\ tasks' = FoldLeft(OnRtpPacket, tasks, ps(packet(ssrc)))
  BY DEF DemuxPacket, Wanted
<1> DEFINE p == packet(ssrc)
           S == Append(sent, ssrc)
<1>2. /\ n \in Nat /\ sent \in Seq(VideoSsrcs \cup {OtherSsrc}) /\ tasks \in Seq(Task) /\ sink \in Criteria
      /\ d \in Seq(1..n) /\ StashOk(stash) /\ Ring(stash) /\ ch' = ch
      /\ \A i \in 1..Len(tasks) : tasks[i].do = "packet" => tasks[i].id \in 1..n
  BY DEF IInv, Typed, Queued, Numbered, DemuxPacket
<1>3. /\ S \in Seq(VideoSsrcs \cup {OtherSsrc}) /\ Len(S) = n + 1 /\ S[n + 1] = ssrc
      /\ \A i \in 1..n : S[i] = sent[i]
  BY <1>2
<1>4. p \in Packets /\ p.id = n + 1 /\ p.ssrc = ssrc
  BY <1>2 DEF Packets
<1>5. Now \in Seq(Nat) /\ Now \in Seq(0..n)
  BY NowIs
<1> HIDE DEF p, packet, S, ps
<1>6. /\ InLine(S, Now) /\ Fits(S, Now, n + 1) /\ \A i \in 1..Len(Now) : Now[i] # n + 1
      /\ \A q \in 1..n : Fits(sent, Now, q) => Fits(S, Now, q)
  <2>1. InLine(sent, Now)
    BY DEF Queued
  <2> HIDE DEF n
  <2> QED
    BY <1>2, <1>5, <2>1, SentMore DEF S, n
<1>7. ASSUME NEW i \in 1..Len(buf)
      PROVE  /\ buf[i].id \in 1..n /\ buf[i] \in Packets /\ buf[i].ssrc = S[buf[i].id]
             /\ Waiting(S, Now, buf[i])
  <2>1. /\ buf[i].id \in 1..n /\ buf[i].ssrc = sent[buf[i].id] /\ Fits(sent, Now, buf[i].id)
        /\ \A k \in 1..Len(Now) : Now[k] # buf[i].id
    BY DEF Queued, Waiting
  <2>2. buf[i] \in Packets
    BY <1>2 DEF StashOk
  <2>3. buf[i].id \in 1..Len(S)
    BY <1>2, <1>3, <2>1
  <2>4. buf[i].ssrc = S[buf[i].id] /\ Fits(S, Now, buf[i].id)
    BY <1>3, <1>6, <2>1
  <2> QED
    BY <2>1, <2>2, <2>3, <2>4 DEF Waiting
<1>8. ASSUME InLine(S, Line(d, tasks')), Ring(stash'),
             \A i \in 1..Len(stash'.buffer_) : Waiting(S, Line(d, tasks'), stash'.buffer_[i]),
             \A i \in 1..Len(tasks') : tasks'[i].do = "packet" => tasks'[i].id \in 1..(n + 1)
      PROVE  Queued'
  <2>1. sent' = S /\ ch' = ch
    BY <1>1, <1>2 DEF S
  <2>2. ch'.delivered \in Seq(1..Len(sent'))
    <3>1. d \in Seq(1..(n + 1))
      BY <1>2
    <3> QED
      BY <1>3, <2>1, <3>1
  <2>3. Numbered(tasks)'
    BY <1>3, <1>8, <2>1 DEF Numbered
  <2>4. Now' = Line(d, tasks')
    BY <2>1 DEF Now
  <2> HIDE DEF n, d
  <2>5. InLine(sent, Now)' /\ Ring(stash)'
    BY <1>8, <2>1, <2>4 DEF Ring, Older, Full
  <2>6. \A i \in 1..Len(stash'.buffer_) : Waiting(sent', Now', stash'.buffer_[i])
    BY <1>8, <2>1, <2>4
  <2> QED
    BY <2>2, <2>3, <2>5, <2>6 DEF Queued
<1> DEFINE new == IF Routed(p) THEN <<p>> ELSE <<>>
<1>9. tasks' = FoldLeft(OnRtpPacket, tasks, fill.given \o new)
  BY <1>1 DEF ps, p, InOrder
<1>10. stash' = IF Routed(p) THEN fill.left ELSE AddPacket(fill.left, p)
  BY <1>1 DEF p
<1>11. StashOk(EmptyBuffer) /\ Ring(EmptyBuffer) /\ EmptyBuffer.buffer_ = <<>>
  BY StashAssumption DEF StashOk, Ring, EmptyBuffer
<1>12. CASE ~(stash.buffer_ # <<>> /\ Stored(stash)[1] \notin Wanted)
  <2> DEFINE g == Those(stash, Wanted)
  <2>1. fill.given = g /\ fill.left = EmptyBuffer
    BY <1>12 DEF MaybeBackfillPackets
  <2>2. /\ g \in Seq(Packets) /\ \A i, j \in 1..Len(g) : i < j => g[i].id < g[j].id
        /\ \A i \in 1..Len(g) : \E k \in 1..Len(buf) : g[i] = buf[k]
    BY <1>2, GivenSorted
  <2> HIDE DEF g, fill
  <2>3. \A i \in 1..Len(g) : g[i].id \in 1..n /\ Fits(S, Now, g[i].id)
    BY <1>7, <2>2 DEF Waiting
  <2>4. CASE Routed(p)
    <3> DEFINE qs == g \o <<p>>
    <3>1. tasks' = FoldLeft(OnRtpPacket, tasks, qs) /\ stash' = EmptyBuffer
      BY <1>9, <1>10, <2>1, <2>4
    <3>2. /\ qs \in Seq(Packets) /\ Len(qs) = Len(g) + 1 /\ Len(g) \in Nat /\ qs[Len(g) + 1] = p
          /\ \A i \in 1..Len(g) : qs[i] = g[i]
      <4>1. <<p>> \in Seq(Packets) /\ Len(<<p>>) = 1 /\ <<p>>[1] = p /\ g \in Seq(Packets) /\ Len(g) \in Nat
        BY <1>4, <2>2
      <4>2. qs \in Seq(Packets) /\ Len(qs) = Len(g) + 1
        BY <4>1
      <4> QED
        BY <4>1, <4>2
    <3> HIDE DEF qs
    <3>3. ASSUME NEW i \in 1..Len(qs)
          PROVE  qs[i].id \in 1..(n + 1) /\ Fits(S, Now, qs[i].id)
      <4>1. CASE i \in 1..Len(g)
        <5>1. qs[i].id \in 1..n /\ Fits(S, Now, qs[i].id)
          BY <2>3, <3>2, <4>1
        <5> QED
          BY <1>2, <5>1
      <4>2. CASE i = Len(g) + 1
        BY <1>2, <1>4, <1>6, <3>2, <4>2
      <4> QED
        BY <3>2, <4>1, <4>2
    <3>4. ASSUME NEW i \in 1..Len(qs), NEW j \in 1..Len(qs), i < j
          PROVE  qs[i].id < qs[j].id
      <4>1. i \in 1..Len(g) /\ (j \in 1..Len(g) \/ j = Len(g) + 1)
        BY <3>2, <3>4
      <4>2. CASE j = Len(g) + 1
        <5>1. qs[i].id \in 1..n /\ qs[j].id = n + 1
          BY <1>4, <2>3, <3>2, <4>1, <4>2
        <5> QED
          BY <1>2, <5>1
      <4>3. CASE j \in 1..Len(g)
        BY <2>2, <3>2, <3>4, <4>1, <4>3
      <4> QED
        BY <4>1, <4>2, <4>3
    <3>5. d \in Seq(1..(n + 1)) /\ n + 1 \in Nat
          /\ \A i \in 1..Len(tasks) : tasks[i].do = "packet" => tasks[i].id \in 1..(n + 1)
      BY <1>2
    <3> DEFINE m == n + 1
    <3> HIDE DEF m, d
    <3>6. /\ \A i \in 1..Len(tasks') : tasks'[i].do = "packet" => tasks'[i].id \in 1..m
          /\ InLine(S, Line(d, tasks'))
      BY <1>2, <1>6, <3>1, <3>2, <3>3, <3>4, <3>5, PostingInLine DEF Now, d, m
    <3> QED
      BY <1>8, <1>11, <3>1, <3>6 DEF d, m
  <2>5. CASE ~Routed(p)
    <3>1. tasks' = FoldLeft(OnRtpPacket, tasks, g) /\ stash' = AddPacket(EmptyBuffer, p)
      <4>1. g \o <<>> = g
        BY <2>2
      <4> QED
        BY <1>9, <1>10, <2>1, <2>5, <4>1
    <3>2. /\ \A i \in 1..Len(tasks') : tasks'[i].do = "packet" => tasks'[i].id \in 1..n
          /\ InLine(S, Line(d, tasks'))
      <4> HIDE DEF n, d
      <4> QED
        BY <1>2, <1>6, <2>2, <2>3, <3>1, PostingInLine DEF Now, d
    <3>3. tasks' \in Seq(Task)
      <4>1. IInv'
        BY DemuxPacketStep
      <4> QED
        BY <4>1 DEF IInv, Typed
    <3>4. Line(d, tasks') \in Seq(0..n)
      <4> HIDE DEF n, d
      <4> QED
        BY <1>2, <3>2, <3>3, LineIs DEF d
    <3>5. Waiting(S, Line(d, tasks'), p)
      <4>1. /\ Fits(S, Line(d, tasks'), n + 1)
            /\ \A i \in 1..Len(Line(d, tasks')) : Line(d, tasks')[i] # n + 1
        BY <1>2, <3>4, SentMore DEF S
      <4> QED
        BY <1>2, <1>3, <1>4, <4>1 DEF Waiting
    <3>6. Ring(stash') /\ \A i \in 1..Len(stash'.buffer_) : stash'.buffer_[i] = p
      BY <1>4, <1>11, <3>1, AddPacketRing
    <3>7. \A i \in 1..Len(stash'.buffer_) : Waiting(S, Line(d, tasks'), stash'.buffer_[i])
      BY <3>5, <3>6
    <3>8. \A i \in 1..Len(tasks') : tasks'[i].do = "packet" => tasks'[i].id \in 1..(n + 1)
      BY <1>2, <3>2
    <3> QED
      BY <1>8, <3>2, <3>6, <3>7, <3>8
  <2> QED
    BY <2>4, <2>5
<1>13. CASE stash.buffer_ # <<>> /\ Stored(stash)[1] \notin Wanted
  <2>1. fill.given = <<>> /\ fill.left = stash
    BY <1>13 DEF MaybeBackfillPackets
  <2> HIDE DEF fill
  <2>2. CASE Routed(p)
    <3>1. tasks' = OnRtpPacket(tasks, p) /\ stash' = stash
      <4>1. <<>> \o <<p>> = <<p>>
        OBVIOUS
      <4> QED
        BY <1>4, <1>9, <1>10, <2>1, <2>2, <4>1, PostingFew
    <3>2. CASE ssrc = OtherSsrc
      <4>1. tasks' = tasks /\ Line(d, tasks') = Now
        BY <1>4, <3>1, <3>2 DEF OnRtpPacket, Now
      <4>2. \A i \in 1..Len(tasks') : tasks'[i].do = "packet" => tasks'[i].id \in 1..(n + 1)
        BY <1>2, <4>1
      <4> QED
        BY <1>2, <1>6, <1>7, <1>8, <3>1, <4>1, <4>2
    <3>3. CASE ssrc # OtherSsrc
      <4> DEFINE t == [do |-> "packet", id |-> n + 1, under |-> sink]
                 L == Line(d, tasks')
      <4>1. tasks' = Append(tasks, t)
        BY <1>4, <3>1, <3>3 DEF OnRtpPacket
      <4>2. t \in Task /\ t.do = "packet" /\ t.id = n + 1
        BY <1>2 DEF Task
      <4>3. d \in Seq(1..(n + 1)) /\ n + 1 \in Nat /\ n + 1 \in 1..(n + 1)
            /\ \A i \in 1..Len(tasks) : tasks[i].do = "packet" => tasks[i].id \in 1..(n + 1)
        BY <1>2
      <4>4. /\ L = Append(Now, n + 1)
            /\ \A i \in 1..Len(tasks') : tasks'[i].do = "packet" => tasks'[i].id \in 1..(n + 1)
        <5> DEFINE m == n + 1
        <5> HIDE DEF m, d, t
        <5>1. /\ Line(d, Append(tasks, t)) = Append(Line(d, tasks), IF t.do = "packet" THEN t.id ELSE 0)
              /\ \A i \in 1..Len(Append(tasks, t)) :
                   Append(tasks, t)[i].do = "packet" => Append(tasks, t)[i].id \in 1..m
          BY <1>2, <4>2, <4>3, LinePosts DEF m, d
        <5> QED
          BY <4>1, <4>2, <5>1 DEF Now, m, d
      <4> HIDE DEF L, t
      <4>5. InLine(S, L)
        BY <1>2, <1>5, <1>6, <4>4, Joined
      <4>6. PICK f \in 1..Len(buf) :
              /\ Stored(stash)[1] = buf[f]
              /\ \A j \in 1..Len(buf) : j # f => buf[f].id < buf[j].id
        BY <1>2, <1>13, StoredSorted
      <4>7. buf[f].ssrc # ssrc
        <5>1. ~Routed(buf[f])
          BY <1>13, <4>6 DEF Wanted, Range
        <5> QED
          BY <1>4, <2>2, <5>1 DEF Routed
      <4>8. ASSUME NEW i \in 1..Len(buf)
            PROVE  Waiting(S, L, buf[i])
        <5> DEFINE x == buf[i]
                   k == buf[f].id
        <5>1. /\ x.id \in 1..n /\ x.ssrc = S[x.id] /\ Waiting(S, Now, x)
              /\ k \in 1..n /\ buf[f].ssrc = S[k]
          BY <1>7
        <5>2. \A j \in 1..Len(Now) : Now[j] # k
          BY <1>7 DEF Waiting
        <5>3. f # i => k < x.id
          BY <4>6
        <5>4. x.ssrc = ssrc => f # i
          BY <4>7
        <5>5. Len(L) = Len(Now) + 1 /\ L[Len(Now) + 1] = n + 1 /\ \A j \in 1..Len(Now) : L[j] = Now[j]
          BY <1>2, <1>5, <4>4
        <5> HIDE DEF x, k
        <5>6. ASSUME NEW j \in 1..(Len(Now) + 1)
              PROVE  L[j] # k
          <6>1. Len(Now) \in Nat
            BY <1>5
          <6>2. CASE j \in 1..Len(Now)
            BY <5>2, <5>5, <6>2
          <6>3. CASE j = Len(Now) + 1
            BY <1>2, <5>1, <5>5, <6>3
          <6> QED
            BY <6>1, <6>2, <6>3
        <5>7. S[n + 1] = S[x.id] => Passed(S, L, Len(Now) + 1, x.id)
          <6> SUFFICES ASSUME S[n + 1] = S[x.id]
                       PROVE  Passed(S, L, Len(Now) + 1, x.id)
            OBVIOUS
          <6>1. x.ssrc = ssrc
            BY <1>3, <5>1
          <6>2. k < x.id
            BY <5>3, <5>4, <6>1
          <6>3. k \in 1..(x.id - 1) /\ x.id < n + 1
            BY <1>2, <5>1, <6>2
          <6>4. S[k] # S[x.id]
            BY <4>7, <5>1, <6>1 DEF k
          <6> QED
            BY <5>5, <5>6, <6>3, <6>4 DEF Passed
        <5>8. Fits(S, L, x.id)
          <6>1. Fits(S, Now, x.id) /\ x.id \in Nat /\ n + 1 \in Nat \ {0}
            BY <1>2, <5>1 DEF Waiting
          <6> QED
            BY <1>5, <4>4, <5>7, <6>1, Joined
        <5>9. ASSUME NEW j \in 1..Len(L)
              PROVE  L[j] # x.id
          <6>1. Len(Now) \in Nat
            BY <1>5
          <6>2. CASE j \in 1..Len(Now)
            BY <5>1, <5>5, <6>2 DEF Waiting
          <6>3. CASE j = Len(Now) + 1
            BY <1>2, <5>1, <5>5, <6>3
          <6> QED
            BY <5>5, <6>1, <6>2, <6>3
        <5>10. x.id \in 1..Len(S)
          BY <1>2, <1>3, <5>1
        <5>11. Waiting(S, L, x)
          BY <5>1, <5>8, <5>9, <5>10 DEF Waiting
        <5> QED
          BY <5>11 DEF x
      <4> QED
        BY <1>2, <1>8, <3>1, <4>4, <4>5, <4>8 DEF L
    <3> QED
      BY <3>2, <3>3
  <2>3. CASE ~Routed(p)
    <3>1. tasks' = tasks /\ stash' = AddPacket(stash, p) /\ Line(d, tasks') = Now
      <4>1. <<>> \o <<>> = <<>>
        OBVIOUS
      <4> QED
        BY <1>4, <1>9, <1>10, <2>1, <2>3, <4>1, PostingFew DEF Now
    <3>2. Waiting(S, Now, p)
      <4>1. n + 1 \in 1..Len(S)
        BY <1>2, <1>3
      <4> QED
        BY <1>3, <1>4, <1>6, <4>1 DEF Waiting
    <3>3. \A i \in 1..Len(buf) : buf[i].id < p.id
      BY <1>2, <1>4, <1>7
    <3>4. /\ Ring(stash')
          /\ \A i \in 1..Len(stash'.buffer_) :
               stash'.buffer_[i] = p \/ \E j \in 1..Len(buf) : stash'.buffer_[i] = buf[j]
      BY <1>2, <1>4, <3>1, <3>3, AddPacketRing
    <3>5. \A i \in 1..Len(stash'.buffer_) : Waiting(S, Now, stash'.buffer_[i])
      BY <1>7, <3>2, <3>4
    <3>6. \A i \in 1..Len(tasks') : tasks'[i].do = "packet" => tasks'[i].id \in 1..(n + 1)
      BY <1>2, <3>1
    <3> QED
      BY <1>6, <1>8, <3>1, <3>4, <3>5, <3>6
  <2> QED
    BY <2>2, <2>3
<1> QED
  BY <1>12, <1>13

LEMMA QueueHolds ==
  ASSUME BufferUnknown = FALSE
  PROVE  Spec => []Queued
<1>1. Init => Queued
  <2> SUFFICES ASSUME Init
               PROVE  Queued
    OBVIOUS
  <2>1. tasks = <<>> /\ sent = <<>> /\ stash = EmptyBuffer /\ ch.delivered = <<>>
    BY DEF Init, WebRtcVideoChannel
  <2>2. IInv
    BY InitIInv
  <2>3. Numbered(tasks) /\ ch.delivered \in Seq(1..Len(sent)) /\ Len(sent) = 0 /\ tasks \in Seq(Task)
    BY <2>1 DEF Numbered
  <2>4. Len(Now) = 0
    <3> DEFINE d == ch.delivered
    <3>1. d \in Seq(1..0) /\ Len(d) = 0 /\ 0 \in Nat /\ Len(tasks) = 0
          /\ \A i \in 1..Len(tasks) : tasks[i].do = "packet" => tasks[i].id \in 1..0
      BY <2>1
    <3> HIDE DEF d
    <3>2. Len(Line(d, tasks)) = Len(d) + Len(tasks)
      BY <2>3, <3>1, LineIs
    <3> QED
      BY <3>1, <3>2 DEF Now, d
  <2> QED
    BY <2>1, <2>3, <2>4 DEF Queued, InLine, Ring, EmptyBuffer
<1>2. IInv /\ Queued /\ [Next]_vars => Queued'
  BY OtherStepsInOrder, DemuxInOrder
<1> QED
  BY <1>1, <1>2, ChannelInv, PTL DEF Spec

(* Packets of one SSRC reach their stream once and in the order they came,  *)
(* through Demuxer_OnRtpPacket (rtp_transport.cc:195), DeliverPacket and    *)
(* the ring of unhandled packets (unhandled_packets_buffer.cc:82), for any  *)
(* SSRCs, number of packets, size of the ring and interleaving.  The one    *)
(* exception is a packet kept behind an older one of another SSRC that had  *)
(* not been given when a later packet of its SSRC was delivered.            *)
THEOREM DeliveryInOrder ==
  ASSUME BufferUnknown = FALSE
  PROVE  Spec => []DeliveredInOrder
<1>1. IInv /\ Queued => DeliveredInOrder
  <2> SUFFICES ASSUME IInv, Queued, NEW i \in DOMAIN ch.delivered, NEW j \in DOMAIN ch.delivered,
                      i < j, sent[ch.delivered[i]] = sent[ch.delivered[j]],
                      ch.delivered[j] <= ch.delivered[i]
               PROVE  /\ ch.delivered[j] < ch.delivered[i]
                      /\ \E k \in 1..(ch.delivered[j] - 1) :
                           /\ sent[k] # sent[ch.delivered[j]]
                           /\ \A n \in 1..i : ch.delivered[n] # k
    BY DEF DeliveredInOrder
  <2> DEFINE d == ch.delivered
             L == Now
  <2>1. d \in Seq(1..Len(sent)) /\ Len(sent) \in Nat /\ tasks \in Seq(Task)
    BY DEF IInv, Typed, Queued
  <2>2. Len(L) = Len(d) + Len(tasks) /\ \A m \in 1..Len(d) : L[m] = d[m]
    BY <2>1, LineIs DEF Queued, Numbered, Now
  <2>3. InLine(sent, L)
    BY DEF Queued
  <2>4. i \in 1..Len(d) /\ j \in 1..Len(d) /\ d[i] \in 1..Len(sent) /\ d[j] \in 1..Len(sent)
        /\ Len(d) \in Nat /\ Len(tasks) \in Nat
    BY <2>1
  <2> HIDE DEF d, L
  <2>5. i \in 1..Len(L) /\ j \in 1..Len(L) /\ L[i] = d[i] /\ L[j] = d[j] /\ d[i] # 0 /\ d[j] # 0
    BY <2>1, <2>2, <2>4
  <2>6. Passed(sent, L, i, d[j])
    BY <2>3, <2>5 DEF InLine, Follows, d
  <2>7. ASSUME NEW n \in 1..i
        PROVE  L[n] = d[n]
    <3>1. n \in 1..Len(d)
      BY <2>4
    <3> QED
      BY <2>2, <3>1
  <2> QED
    BY <2>5, <2>6, <2>7 DEF Passed, d
<1> QED
  BY <1>1, QueueHolds, ChannelInv, PTL

-----------------------------------------------------------------------------
(* The configuration of the streams.  A call of the media channel takes    *)
(* channels that are Settled to such.                                      *)

ReceiveFields == {"params", "default", "config", "flexfec", "sink", "delay", "local_ssrc", "reduced_size"}
SendFields == {"params", "rtx", "codec", "reduced_size", "screencast", "source", "sending", "active", "stream"}

\* A configuration but for the length of its NACK history.
Plain(config) == [config EXCEPT !.nack = 0]

ReceivesAs(c, r) ==
  /\ DOMAIN r = ReceiveFields
  /\ Plain(r.config) = Plain(ConfigureCodecs(c.recv_codecs_))
  /\ r.reduced_size = c.reduced_size /\ r.flexfec = c.recv_flexfec_payload_type_

SendsAs(c, t) ==
  /\ DOMAIN t = SendFields
  /\ t.codec = c.send_codec_ /\ t.sending = c.sending_
  /\ t.reduced_size = c.reduced_size /\ Sender!IsInCall(t)

IsDefaultOf(c, s) ==
  /\ c.receive_streams_[s].sink = c.default_sink_ /\ c.receive_streams_[s].delay = c.default_delay
  /\ \A t \in Defaults(c) : t = s

\* A channel that has no codec to send has negotiated none.
HasCodec(c) ==
  \/ c.send_codec_ = NoCodec /\ c.negotiated_codecs_ = <<>>
  \/ \E x : c.send_codec_ = <<x>>

Settled(c) ==
  /\ \A s \in DOMAIN c.receive_streams_ : ReceivesAs(c, c.receive_streams_[s])
  /\ \A s \in DOMAIN c.send_streams_ : SendsAs(c, c.send_streams_[s])
  /\ \A s \in Defaults(c) : IsDefaultOf(c, s)
  /\ HasCodec(c)

-----------------------------------------------------------------------------
(* A stream that is sent.                                                   *)

StreamOf(s, started) ==
  <<[codec |-> s.codec, rtx |-> s.rtx, reduced_size |-> s.reduced_size,
     screencast |-> s.screencast, source |-> s.source, started |-> started]>>

\* What the calls that make the stream in Call anew leave as it is.
KeptOf(s, t) ==
  /\ DOMAIN t = SendFields
  /\ t.codec = s.codec /\ t.sending = s.sending /\ t.reduced_size = s.reduced_size

LEMMA Updated ==
  ASSUME NEW s, DOMAIN s = SendFields, s.codec # NoCodec, NEW b, s.stream = StreamOf(s, b)
  PROVE  KeptOf(s, Sender!UpdateSendState(s)) /\ Sender!IsInCall(Sender!UpdateSendState(s))
<1> DEFINE R == [codec |-> s.codec, rtx |-> s.rtx, reduced_size |-> s.reduced_size,
                 screencast |-> s.screencast, source |-> s.source, started |-> b]
           to == s.sending /\ s.active
           t == Sender!UpdateSendState(s)
<1>1. s.stream = <<R>> /\ s.stream # <<>> /\ s.stream[1] = R /\ DOMAIN s.stream = {1}
  BY DEF StreamOf
<1>2. t = [s EXCEPT !.stream[1].started = to]
  BY <1>1 DEF Sender!UpdateSendState, Sender!NoStream
<1>3. /\ DOMAIN t = SendFields /\ t.codec = s.codec /\ t.rtx = s.rtx /\ t.sending = s.sending
      /\ t.reduced_size = s.reduced_size /\ t.screencast = s.screencast /\ t.source = s.source
      /\ t.active = s.active /\ t.stream = [s.stream EXCEPT ![1].started = to]
  BY <1>2 DEF SendFields
<1>4. [s.stream EXCEPT ![1].started = to] = StreamOf(s, to)
  <2>1. [R EXCEPT !.started = to]
          = [codec |-> s.codec, rtx |-> s.rtx, reduced_size |-> s.reduced_size,
             screencast |-> s.screencast, source |-> s.source, started |-> to]
    OBVIOUS
  <2> HIDE DEF R
  <2>2. [s.stream EXCEPT ![1].started = to] = <<[R EXCEPT !.started = to]>>
    BY <1>1
  <2> QED
    BY <2>1, <2>2 DEF StreamOf
<1>5. t.stream = StreamOf(t, t.sending /\ t.active)
  BY <1>3, <1>4 DEF StreamOf
<1>6. t.codec # Sender!NoCodec
  BY <1>3 DEF NoCodec
<1> QED
  BY <1>3, <1>5, <1>6 DEF KeptOf, Sender!IsInCall, StreamOf

LEMMA Recreated ==
  ASSUME NEW s, DOMAIN s = SendFields, s.codec # NoCodec
  PROVE  KeptOf(s, Sender!RecreateWebRtcStream(s)) /\ Sender!IsInCall(Sender!RecreateWebRtcStream(s))
<1> DEFINE m == [s EXCEPT !.stream = <<[codec |-> s.codec, rtx |-> s.rtx, reduced_size |-> s.reduced_size,
                                        screencast |-> s.screencast, source |-> s.source, started |-> FALSE]>>]
<1>1. KeptOf(s, m) /\ m.stream = StreamOf(m, FALSE)
  BY DEF KeptOf, SendFields, StreamOf
<1>2. Sender!RecreateWebRtcStream(s) = Sender!UpdateSendState(m)
  BY DEF Sender!RecreateWebRtcStream
<1> HIDE DEF m
<1> QED
  BY <1>1, <1>2, Updated DEF KeptOf

LEMMA CodecSet ==
  ASSUME NEW s, DOMAIN s = SendFields, NEW x
  PROVE  LET t == Sender!SetCodec(s, x)
         IN  /\ DOMAIN t = SendFields /\ t.codec = <<x>> /\ t.sending = s.sending
             /\ t.reduced_size = s.reduced_size /\ Sender!IsInCall(t)
<1> DEFINE m == [s EXCEPT !.codec = <<x>>, !.rtx = IF x.rtx = None THEN {} ELSE @]
<1>1. /\ DOMAIN m = SendFields /\ m.codec = <<x>> /\ m.sending = s.sending
      /\ m.reduced_size = s.reduced_size
  BY DEF SendFields
<1>2. Sender!SetCodec(s, x) = Sender!RecreateWebRtcStream(m)
  BY DEF Sender!SetCodec, Sender!None, None
<1>3. m.codec # NoCodec
  BY <1>1 DEF NoCodec, Sender!NoCodec
<1> HIDE DEF m
<1> QED
  BY <1>1, <1>2, <1>3, Recreated DEF KeptOf

LEMMA SendSet ==
  ASSUME NEW s, DOMAIN s = SendFields, Sender!IsInCall(s), NEW send
  PROVE  LET t == Sender!SetSend(s, send)
         IN  /\ DOMAIN t = SendFields /\ t.codec = s.codec /\ t.sending = send
             /\ t.reduced_size = s.reduced_size /\ Sender!IsInCall(t)
<1> DEFINE m == [s EXCEPT !.sending = send]
<1>1. /\ DOMAIN m = SendFields /\ m.codec = s.codec /\ m.sending = send /\ m.stream = s.stream
      /\ m.reduced_size = s.reduced_size /\ m.rtx = s.rtx /\ m.screencast = s.screencast
      /\ m.source = s.source
  BY DEF SendFields
<1>2. Sender!SetSend(s, send) = Sender!UpdateSendState(m)
  BY DEF Sender!SetSend
<1> HIDE DEF m
<1>3. CASE s.codec = NoCodec
  <2>1. m.stream = Sender!NoStream /\ m.codec = Sender!NoCodec
    BY <1>1, <1>3 DEF Sender!IsInCall, NoCodec
  <2>2. Sender!UpdateSendState(m) = m /\ Sender!IsInCall(m)
    BY <2>1 DEF Sender!UpdateSendState, Sender!IsInCall
  <2> QED
    BY <1>1, <1>2, <2>2
<1>4. CASE s.codec # NoCodec
  <2>1. m.stream = StreamOf(m, s.sending /\ s.active)
    BY <1>1, <1>4 DEF Sender!IsInCall, NoCodec, StreamOf
  <2> QED
    BY <1>1, <1>2, <1>4, <2>1, Updated DEF KeptOf
<1> QED
  BY <1>3, <1>4

LEMMA ParametersSet ==
  ASSUME NEW s, DOMAIN s = SendFields, Sender!IsInCall(s), NEW changed,
         changed.send_codec = <<>> => s.codec # NoCodec
  PROVE  LET t == Sender!SetSendParameters(s, changed)
         IN  /\ DOMAIN t = SendFields /\ Sender!IsInCall(t) /\ t.sending = s.sending
             /\ t.codec = IF changed.send_codec = <<>> THEN s.codec ELSE <<changed.send_codec[1]>>
             /\ \/ changed.rtcp # <<>> /\ t.reduced_size = changed.rtcp[1]
                \/ changed.rtcp = <<>> /\ t.reduced_size = s.reduced_size
<1> DEFINE set == IF changed.rtcp = <<>> THEN s ELSE [s EXCEPT !.reduced_size = changed.rtcp[1]]
           t == Sender!SetSendParameters(s, changed)
<1>1. /\ DOMAIN set = SendFields /\ set.codec = s.codec /\ set.sending = s.sending
      /\ \/ changed.rtcp # <<>> /\ set.reduced_size = changed.rtcp[1]
         \/ changed.rtcp = <<>> /\ set.reduced_size = s.reduced_size
  BY DEF SendFields
<1>2. CASE changed.send_codec # <<>>
  <2>1. t = Sender!SetCodec(set, changed.send_codec[1])
    BY <1>2 DEF Sender!SetSendParameters
  <2> HIDE DEF set, t
  <2> QED
    BY <1>1, <1>2, <2>1, CodecSet DEF t
<1>3. CASE changed.send_codec = <<>> /\ changed.rtcp # <<>>
  <2>1. t = Sender!RecreateWebRtcStream(set)
    BY <1>3 DEF Sender!SetSendParameters
  <2> HIDE DEF set, t
  <2> QED
    BY <1>1, <1>3, <2>1, Recreated DEF t, KeptOf
<1>4. CASE changed.send_codec = <<>> /\ changed.rtcp = <<>>
  <2>1. t = s
    BY <1>4 DEF Sender!SetSendParameters
  <2> QED
    BY <1>4, <2>1
<1> QED
  BY <1>2, <1>3, <1>4

LEMMA NewSender ==
  ASSUME NEW sp, NEW codec, codec = NoCodec \/ \E x : codec = <<x>>, NEW reduced_size
  PROVE  LET t == Sender!WebRtcVideoSendStream(sp, codec, reduced_size)
         IN  /\ DOMAIN t = SendFields /\ t.codec = codec /\ t.reduced_size = reduced_size
             /\ Sender!IsInCall(t)
<1> DEFINE s == [params |-> sp, rtx |-> sp.rtx, codec |-> Sender!NoCodec, reduced_size |-> reduced_size,
                 screencast |-> FALSE, source |-> "none", sending |-> FALSE, active |-> TRUE,
                 stream |-> Sender!NoStream]
           t == Sender!WebRtcVideoSendStream(sp, codec, reduced_size)
<1>1. /\ DOMAIN s = SendFields /\ s.codec = NoCodec /\ s.reduced_size = reduced_size
      /\ Sender!IsInCall(s)
  BY DEF SendFields, Sender!IsInCall, NoCodec
<1>2. CASE codec = NoCodec
  <2>1. t = s
    BY <1>2 DEF Sender!WebRtcVideoSendStream, NoCodec
  <2> HIDE DEF s, t
  <2> QED
    BY <1>1, <1>2, <2>1 DEF t
<1>3. CASE codec # NoCodec
  <2>1. t = Sender!SetCodec(s, codec[1]) /\ codec = <<codec[1]>>
    BY <1>3 DEF Sender!WebRtcVideoSendStream, NoCodec
  <2> HIDE DEF s, t
  <2> QED
    BY <1>1, <2>1, CodecSet DEF t
<1> QED
  BY <1>2, <1>3

-----------------------------------------------------------------------------
(* Calls that leave the configuration as it is.                             *)

Alike(c, d) ==
  /\ d.send_codec_ = c.send_codec_ /\ d.negotiated_codecs_ = c.negotiated_codecs_
  /\ d.sending_ = c.sending_ /\ d.reduced_size = c.reduced_size
  /\ d.recv_codecs_ = c.recv_codecs_ /\ d.recv_flexfec_payload_type_ = c.recv_flexfec_payload_type_
  /\ d.default_sink_ = c.default_sink_ /\ d.default_delay = c.default_delay
  /\ DOMAIN d.receive_streams_ \subseteq DOMAIN c.receive_streams_
  /\ \A s \in DOMAIN d.receive_streams_ :
       \/ d.receive_streams_[s] = c.receive_streams_[s]
       \/ \E ssrc : d.receive_streams_[s] = [c.receive_streams_[s] EXCEPT !.local_ssrc = ssrc]
  /\ DOMAIN d.send_streams_ \subseteq DOMAIN c.send_streams_
  /\ \A s \in DOMAIN d.send_streams_ : d.send_streams_[s] = c.send_streams_[s]

LEMMA AlikeSettled ==
  ASSUME NEW c, NEW d, Settled(c), Alike(c, d)
  PROVE  Settled(d)
<1>1. ASSUME NEW s \in DOMAIN d.receive_streams_
      PROVE  /\ s \in DOMAIN c.receive_streams_ /\ DOMAIN c.receive_streams_[s] = ReceiveFields
             /\ DOMAIN d.receive_streams_[s] = ReceiveFields
             /\ d.receive_streams_[s].config = c.receive_streams_[s].config
             /\ d.receive_streams_[s].reduced_size = c.receive_streams_[s].reduced_size
             /\ d.receive_streams_[s].flexfec = c.receive_streams_[s].flexfec
             /\ d.receive_streams_[s].sink = c.receive_streams_[s].sink
             /\ d.receive_streams_[s].delay = c.receive_streams_[s].delay
             /\ d.receive_streams_[s].default = c.receive_streams_[s].default
  <2>1. s \in DOMAIN c.receive_streams_ /\ DOMAIN c.receive_streams_[s] = ReceiveFields
    BY DEF Alike, Settled, ReceivesAs
  <2>2. CASE d.receive_streams_[s] = c.receive_streams_[s]
    BY <2>1, <2>2
  <2>3. CASE \E ssrc : d.receive_streams_[s] = [c.receive_streams_[s] EXCEPT !.local_ssrc = ssrc]
    BY <2>1, <2>3 DEF ReceiveFields
  <2> QED
    BY <2>2, <2>3 DEF Alike
<1>2. \A s \in DOMAIN d.receive_streams_ : ReceivesAs(d, d.receive_streams_[s])
  BY <1>1 DEF Alike, Settled, ReceivesAs
<1>3. \A s \in DOMAIN d.send_streams_ : SendsAs(d, d.send_streams_[s])
  BY DEF Alike, Settled, SendsAs
<1>4. Defaults(d) \subseteq Defaults(c)
  BY <1>1 DEF Defaults
<1>5. \A s \in Defaults(d) : s \in DOMAIN d.receive_streams_
  BY DEF Defaults
<1>6. \A s \in Defaults(d) : IsDefaultOf(d, s)
  BY <1>1, <1>4, <1>5 DEF Alike, Settled, IsDefaultOf
<1>7. HasCodec(d)
  BY DEF Alike, Settled, HasCodec
<1> QED
  BY <1>2, <1>3, <1>6, <1>7 DEF Settled

LEMMA OkSettled ==
  ASSUME NEW c, DOMAIN c = Fields, Settled(c), NEW b
  PROVE  Settled(Ok(c, b))
<1>1. Alike(c, Ok(c, b))
  BY DEF Alike, Ok, Fields
<1> QED
  BY <1>1, AlikeSettled

LEMMA SetLocalSsrcSettled ==
  ASSUME NEW c, Sound(c), Settled(c), NEW ssrc
  PROVE  Settled(SetLocalSsrcOnAll(c, ssrc))
<1> DEFINE d == EachStream(c, LAMBDA r : [r EXCEPT !.local_ssrc = ssrc])
<1>1. Alike(c, d) /\ d.buffered = FALSE
  BY DEF Alike, EachStream, Sound, Shape, Fields
<1>2. SetLocalSsrcOnAll(c, ssrc) = d
  BY <1>1 DEF SetLocalSsrcOnAll, RecreateAll
<1> QED
  BY <1>1, <1>2, AlikeSettled

LEMMA DeleteSettled ==
  ASSUME NEW c, DOMAIN c = Fields, Settled(c), NEW gone
  PROVE  Settled(DeleteReceiveStreams(c, gone))
<1>1. Alike(c, DeleteReceiveStreams(c, gone))
  BY DEF Alike, DeleteReceiveStreams, Fields
<1> QED
  BY <1>1, AlikeSettled

LEMMA RemoveRecvSettled ==
  ASSUME NEW c, Sound(c), Settled(c), NEW ssrc
  PROVE  /\ Settled(RemoveRecvStream(c, ssrc))
         /\ Settled(DeleteReceiveStream(c, ssrc)) /\ Alike(c, DeleteReceiveStream(c, ssrc))
<1>1. Alike(c, DeleteReceiveStream(c, ssrc)) /\ DOMAIN DeleteReceiveStream(c, ssrc) = Fields
  BY DEF Alike, DeleteReceiveStream, Without, Fields, Sound, Shape
<1>2. Settled(DeleteReceiveStream(c, ssrc))
  BY <1>1, AlikeSettled
<1>3. DOMAIN c = Fields
  BY DEF Sound, Shape
<1> QED
  BY <1>1, <1>2, <1>3, OkSettled DEF RemoveRecvStream

LEMMA ResetSettled ==
  ASSUME NEW c, Sound(c), Settled(c)
  PROVE  Settled(ResetUnsignaledRecvStream(c))
<1> DEFINE set == [c EXCEPT !.unsignaled_stream_params_ = NoParams, !.cooldown = FALSE]
<1>1. Alike(c, set) /\ DOMAIN set = Fields
  BY DEF Alike, Fields, Sound, Shape
<1>2. ResetUnsignaledRecvStream(c) = DeleteReceiveStreams(set, Defaults(c))
  BY DEF ResetUnsignaledRecvStream
<1> HIDE DEF set
<1> QED
  BY <1>1, <1>2, AlikeSettled, DeleteSettled

LEMMA DeliverSettled ==
  ASSUME NEW c, Sound(c), Settled(c), NEW packet
  PROVE  Settled(DeliverPacket(c, packet))
<1>1. Alike(c, DeliverPacket(c, packet))
  BY DEF Alike, DeliverPacket, Fields, Sound, Shape
<1> QED
  BY <1>1, AlikeSettled

-----------------------------------------------------------------------------
(* Calls that change it.                                                    *)

LEMMA PlainNack ==
  ASSUME NEW config, NEW n
  PROVE  Plain([config EXCEPT !.nack = n]) = Plain(config)
BY DEF Plain

LEMMA SetSendSettled ==
  ASSUME NEW c, Sound(c), Settled(c), NEW send
  PROVE  Settled(SetSend(c, send))
<1> DEFINE d == [c EXCEPT !.sending_ = send,
                          !.send_streams_ = [s \in DOMAIN @ |-> Sender!SetSend(@[s], send)]]
<1>1. /\ DOMAIN d = Fields /\ d.sending_ = send
      /\ d.send_streams_ = [s \in DOMAIN c.send_streams_ |-> Sender!SetSend(c.send_streams_[s], send)]
      /\ d.receive_streams_ = c.receive_streams_ /\ d.reduced_size = c.reduced_size
      /\ d.send_codec_ = c.send_codec_ /\ d.negotiated_codecs_ = c.negotiated_codecs_
      /\ d.recv_codecs_ = c.recv_codecs_ /\ d.recv_flexfec_payload_type_ = c.recv_flexfec_payload_type_
      /\ d.default_sink_ = c.default_sink_ /\ d.default_delay = c.default_delay
  BY DEF Sound, Shape, Fields
<1>2. SetSend(c, send) = Ok(c, FALSE) \/ SetSend(c, send) = Ok(d, TRUE)
  BY DEF SetSend
<1> HIDE DEF d
<1>3. \A s \in DOMAIN d.send_streams_ : SendsAs(d, d.send_streams_[s])
  <2> SUFFICES ASSUME NEW s \in DOMAIN d.send_streams_
               PROVE  SendsAs(d, d.send_streams_[s])
    OBVIOUS
  <2>1. s \in DOMAIN c.send_streams_ /\ d.send_streams_[s] = Sender!SetSend(c.send_streams_[s], send)
    BY <1>1
  <2>2. SendsAs(c, c.send_streams_[s])
    BY <2>1 DEF Settled
  <2> QED
    BY <1>1, <2>1, <2>2, SendSet DEF SendsAs
<1>4. \A s \in DOMAIN d.receive_streams_ : ReceivesAs(d, d.receive_streams_[s])
  BY <1>1 DEF Settled, ReceivesAs
<1>5. \A s \in Defaults(d) : IsDefaultOf(d, s)
  BY <1>1 DEF Settled, IsDefaultOf, Defaults
<1>6. Settled(d) /\ DOMAIN c = Fields
  BY <1>1, <1>3, <1>4, <1>5 DEF Settled, HasCodec, Sound, Shape
<1> QED
  BY <1>1, <1>2, <1>6, OkSettled

\* A description that both sides have a codec of.
HasCommonCodec(params) == 1 \in DOMAIN SelectSendVideoCodecs(MapCodecs(params.codecs))

LEMMA ChangedParameters ==
  ASSUME NEW c, HasCodec(c), NEW params, HasCommonCodec(params)
  PROVE  LET changed == GetChangedSendParameters(c, params)
         IN  /\ changed.send_codec = <<>> => c.send_codec_ # NoCodec
             /\ changed.send_codec # <<>> => changed.send_codec = <<changed.send_codec[1]>>
             /\ \/ changed.rtcp = <<>> /\ params.reduced_size = c.reduced_size
                \/ changed.rtcp # <<>> /\ changed.rtcp[1] = params.reduced_size
<1> DEFINE both == SelectSendVideoCodecs(MapCodecs(params.codecs))
           codecs == [i \in DOMAIN both |-> [both[i] EXCEPT !.flexfec = None]]
           new == codecs # c.negotiated_codecs_
           changed == GetChangedSendParameters(c, params)
<1>1. codecs # <<>>
  <2>1. 1 \in DOMAIN codecs
    BY DEF HasCommonCodec
  <2> HIDE DEF codecs
  <2> QED
    BY <2>1
<1>2. /\ changed.send_codec = IF new /\ codecs # <<>> /\ c.send_codec_ # <<codecs[1]>>
                               THEN <<codecs[1]>> ELSE <<>>
      /\ changed.rtcp = IF params.reduced_size # c.reduced_size THEN <<params.reduced_size>> ELSE <<>>
  BY DEF GetChangedSendParameters
<1> HIDE DEF codecs, changed
<1>3. changed.send_codec = <<>> => c.send_codec_ # NoCodec
  <2> SUFFICES ASSUME c.send_codec_ = NoCodec
               PROVE  changed.send_codec # <<>>
    OBVIOUS
  <2>1. c.negotiated_codecs_ = <<>> /\ c.send_codec_ = <<>>
    BY DEF HasCodec, NoCodec, Sender!NoCodec
  <2> QED
    BY <1>1, <1>2, <2>1
<1>4. changed.send_codec # <<>> => changed.send_codec = <<changed.send_codec[1]>>
  BY <1>2
<1>5. \/ changed.rtcp = <<>> /\ params.reduced_size = c.reduced_size
      \/ changed.rtcp # <<>> /\ changed.rtcp[1] = params.reduced_size
  BY <1>2
<1> QED
  BY <1>3, <1>4, <1>5 DEF changed

LEMMA SetSendParametersSettled ==
  ASSUME NEW c, Sound(c), Settled(c), NEW params, HasCommonCodec(params)
  PROVE  Settled(SetSendParameters(c, params))
<1> DEFINE rtcp == [c EXCEPT !.reduced_size = params.reduced_size]
           changed == GetChangedSendParameters(c, params)
           set == [rtcp EXCEPT
                     !.negotiated_codecs_ = IF changed.negotiated = <<>> THEN @ ELSE changed.negotiated[1],
                     !.send_codec_ = IF changed.send_codec = <<>> THEN @ ELSE changed.send_codec,
                     !.send_streams_ = [s \in DOMAIN @ |-> Sender!SetSendParameters(@[s], changed)]]
           told == EachStream(set, LAMBDA r : [r EXCEPT !.reduced_size = set.reduced_size,
                                                        !.config.nack = NackOf(set.send_codec_[1])])
<1>1. /\ changed.send_codec = <<>> => c.send_codec_ # NoCodec
      /\ changed.send_codec # <<>> => changed.send_codec = <<changed.send_codec[1]>>
      /\ \/ changed.rtcp = <<>> /\ params.reduced_size = c.reduced_size
         \/ changed.rtcp # <<>> /\ changed.rtcp[1] = params.reduced_size
  <2>1. HasCodec(c)
    BY DEF Settled
  <2> QED
    BY <2>1, ChangedParameters
<1> HIDE DEF changed
<1>2. /\ DOMAIN set = Fields /\ set.sending_ = c.sending_ /\ set.reduced_size = params.reduced_size
      /\ set.send_streams_
           = [s \in DOMAIN c.send_streams_ |-> Sender!SetSendParameters(c.send_streams_[s], changed)]
      /\ set.receive_streams_ = c.receive_streams_ /\ set.buffered = FALSE
      /\ set.send_codec_ = IF changed.send_codec = <<>> THEN c.send_codec_ ELSE changed.send_codec
      /\ set.recv_codecs_ = c.recv_codecs_ /\ set.recv_flexfec_payload_type_ = c.recv_flexfec_payload_type_
      /\ set.default_sink_ = c.default_sink_ /\ set.default_delay = c.default_delay
  BY DEF Sound, Shape, Fields
<1>3. \/ SetSendParameters(c, params) = Ok(c, FALSE)
      \/ /\ changed.send_codec # <<>> \/ changed.rtcp # <<>>
         /\ SetSendParameters(c, params) = Ok(SetFeedbackParametersOnAll(set), TRUE)
      \/ /\ changed.rtcp = <<>>
         /\ SetSendParameters(c, params) = Ok(set, TRUE)
  BY DEF SetSendParameters, ApplyChangedParams, changed
<1>4. SetFeedbackParametersOnAll(set) = told
  <2> HIDE DEF set
  <2>1. told.buffered = FALSE
    BY <1>2 DEF EachStream, Fields
  <2> QED
    BY <2>1 DEF SetFeedbackParametersOnAll, RecreateAll
<1> HIDE DEF set
<1>5. /\ DOMAIN told = Fields /\ told.sending_ = set.sending_ /\ told.reduced_size = set.reduced_size
      /\ told.send_streams_ = set.send_streams_ /\ told.send_codec_ = set.send_codec_
      /\ told.recv_codecs_ = set.recv_codecs_
      /\ told.recv_flexfec_payload_type_ = set.recv_flexfec_payload_type_
      /\ told.default_sink_ = set.default_sink_ /\ told.default_delay = set.default_delay
      /\ DOMAIN told.receive_streams_ = DOMAIN c.receive_streams_
      /\ \A s \in DOMAIN c.receive_streams_ :
           told.receive_streams_[s] = [c.receive_streams_[s] EXCEPT
             !.reduced_size = set.reduced_size, !.config.nack = NackOf(set.send_codec_[1])]
  BY <1>2 DEF EachStream, Fields
<1> HIDE DEF told
<1>6. set.send_codec_ # NoCodec /\ \E x : set.send_codec_ = <<x>>
  <2>1. CASE changed.send_codec = <<>>
    BY <1>1, <1>2, <2>1 DEF Settled, HasCodec
  <2>2. CASE changed.send_codec # <<>>
    BY <1>1, <1>2, <2>2 DEF NoCodec, Sender!NoCodec
  <2> QED
    BY <2>1, <2>2
<1>7. \A s \in DOMAIN set.send_streams_ : SendsAs(set, set.send_streams_[s])
  <2> SUFFICES ASSUME NEW s \in DOMAIN c.send_streams_
               PROVE  SendsAs(set, Sender!SetSendParameters(c.send_streams_[s], changed))
    BY <1>2
  <2> DEFINE t == c.send_streams_[s]
             u == Sender!SetSendParameters(t, changed)
  <2>1. SendsAs(c, t)
    BY DEF Settled
  <2> HIDE DEF t
  <2>2. /\ DOMAIN u = SendFields /\ Sender!IsInCall(u) /\ u.sending = t.sending
        /\ u.codec = IF changed.send_codec = <<>> THEN t.codec ELSE <<changed.send_codec[1]>>
        /\ \/ changed.rtcp # <<>> /\ u.reduced_size = changed.rtcp[1]
           \/ changed.rtcp = <<>> /\ u.reduced_size = t.reduced_size
    BY <1>1, <2>1, ParametersSet DEF SendsAs
  <2> HIDE DEF u
  <2>3. u.codec = set.send_codec_
    BY <1>1, <1>2, <2>1, <2>2 DEF SendsAs
  <2>4. u.reduced_size = set.reduced_size
    BY <1>1, <1>2, <2>1, <2>2 DEF SendsAs
  <2>5. SendsAs(set, u)
    BY <1>2, <2>1, <2>2, <2>3, <2>4 DEF SendsAs
  <2> QED
    BY <2>5 DEF t, u
<1>8. ASSUME changed.rtcp = <<>>
      PROVE  Settled(set)
  <2>1. set.reduced_size = c.reduced_size
    BY <1>1, <1>2, <1>8
  <2>2. \A s \in DOMAIN set.receive_streams_ : ReceivesAs(set, set.receive_streams_[s])
    BY <1>2, <2>1 DEF Settled, ReceivesAs
  <2>3. \A s \in Defaults(set) : IsDefaultOf(set, s)
    BY <1>2 DEF Settled, IsDefaultOf, Defaults
  <2> QED
    BY <1>6, <1>7, <2>2, <2>3 DEF Settled, HasCodec
<1>9. Settled(told)
  <2>1. ASSUME NEW s \in DOMAIN c.receive_streams_
        PROVE  /\ ReceivesAs(told, told.receive_streams_[s])
               /\ told.receive_streams_[s].default = c.receive_streams_[s].default
               /\ told.receive_streams_[s].sink = c.receive_streams_[s].sink
               /\ told.receive_streams_[s].delay = c.receive_streams_[s].delay
    <3> DEFINE r == c.receive_streams_[s]
               n == NackOf(set.send_codec_[1])
               u == [r EXCEPT !.reduced_size = set.reduced_size, !.config.nack = n]
    <3>1. ReceivesAs(c, r)
      BY DEF Settled
    <3>2. told.receive_streams_[s] = u
      BY <1>5
    <3> HIDE DEF r, n
    <3>3. /\ DOMAIN u = ReceiveFields /\ u.reduced_size = set.reduced_size
          /\ u.config = [r.config EXCEPT !.nack = n] /\ u.flexfec = r.flexfec
          /\ u.default = r.default /\ u.sink = r.sink /\ u.delay = r.delay
      BY <3>1 DEF ReceivesAs, ReceiveFields
    <3> HIDE DEF u
    <3>4. Plain(u.config) = Plain(ConfigureCodecs(c.recv_codecs_))
      BY <3>1, <3>3, PlainNack DEF ReceivesAs
    <3>5. ReceivesAs(told, u)
      BY <1>2, <1>5, <3>1, <3>3, <3>4 DEF ReceivesAs
    <3> QED
      BY <3>2, <3>3, <3>5 DEF r
  <2>2. \A s \in Defaults(told) : IsDefaultOf(told, s)
    <3>1. Defaults(told) = Defaults(c) /\ \A s \in Defaults(c) : s \in DOMAIN c.receive_streams_
      BY <1>5, <2>1 DEF Defaults
    <3>2. \A s \in Defaults(c) : IsDefaultOf(c, s)
      BY DEF Settled
    <3> QED
      BY <1>2, <1>5, <2>1, <3>1, <3>2, ZenonT(30) DEF IsDefaultOf
  <2>3. \A s \in DOMAIN told.send_streams_ : SendsAs(told, told.send_streams_[s])
    BY <1>5, <1>7 DEF SendsAs
  <2> QED
    BY <1>5, <1>6, <2>1, <2>2, <2>3 DEF Settled, HasCodec
<1>10. DOMAIN c = Fields
  BY DEF Sound, Shape
<1>11. Settled(Ok(c, FALSE)) /\ Settled(Ok(told, TRUE))
  BY <1>5, <1>9, <1>10, OkSettled
<1>12. changed.rtcp = <<>> => Settled(Ok(set, TRUE))
  BY <1>2, <1>8, OkSettled
<1> QED
  BY <1>3, <1>4, <1>11, <1>12

LEMMA SetRecvParametersSettled ==
  ASSUME NEW c, Sound(c), Settled(c), NEW params
  PROVE  Settled(SetRecvParameters(c, params))
<1> DEFINE set == RecvCodecs(c, params)
           Configure(r) == [r EXCEPT !.config = IF set.recv_codecs_ # c.recv_codecs_
                                                THEN ConfigureCodecs(set.recv_codecs_) ELSE @,
                                     !.flexfec = set.recv_flexfec_payload_type_]
           d == EachStream(set, Configure)
<1>1. /\ DOMAIN set = Fields /\ set.sending_ = c.sending_ /\ set.reduced_size = c.reduced_size
      /\ set.send_streams_ = c.send_streams_ /\ set.receive_streams_ = c.receive_streams_
      /\ set.buffered = FALSE /\ set.send_codec_ = c.send_codec_
      /\ set.negotiated_codecs_ = c.negotiated_codecs_
      /\ set.default_sink_ = c.default_sink_ /\ set.default_delay = c.default_delay
  BY DEF RecvCodecs, Sound, Shape, Fields
<1>2. SetRecvParameters(c, params) = Ok(RecreateAll(d, c), TRUE) \/ SetRecvParameters(c, params) = Ok(c, FALSE)
  BY DEF SetRecvParameters
<1> HIDE DEF set
<1>3. /\ DOMAIN d = Fields /\ d.sending_ = set.sending_ /\ d.reduced_size = set.reduced_size
      /\ d.send_streams_ = set.send_streams_ /\ d.send_codec_ = set.send_codec_
      /\ d.negotiated_codecs_ = set.negotiated_codecs_
      /\ d.recv_codecs_ = set.recv_codecs_
      /\ d.recv_flexfec_payload_type_ = set.recv_flexfec_payload_type_
      /\ d.default_sink_ = set.default_sink_ /\ d.default_delay = set.default_delay
      /\ d.buffered = FALSE
      /\ DOMAIN d.receive_streams_ = DOMAIN c.receive_streams_
      /\ \A s \in DOMAIN c.receive_streams_ : d.receive_streams_[s] = Configure(c.receive_streams_[s])
  BY <1>1 DEF EachStream, Fields
<1>4. RecreateAll(d, c) = d
  BY <1>3 DEF RecreateAll
<1> HIDE DEF d
<1>5. ASSUME NEW s \in DOMAIN c.receive_streams_
      PROVE  /\ ReceivesAs(d, d.receive_streams_[s])
             /\ d.receive_streams_[s].default = c.receive_streams_[s].default
             /\ d.receive_streams_[s].sink = c.receive_streams_[s].sink
             /\ d.receive_streams_[s].delay = c.receive_streams_[s].delay
  <2> DEFINE r == c.receive_streams_[s]
             u == Configure(r)
  <2>1. ReceivesAs(c, r)
    BY DEF Settled
  <2>2. d.receive_streams_[s] = u
    BY <1>3
  <2> HIDE DEF r
  <2>3. /\ DOMAIN u = ReceiveFields /\ u.reduced_size = r.reduced_size
        /\ u.flexfec = set.recv_flexfec_payload_type_
        /\ u.config = IF set.recv_codecs_ # c.recv_codecs_ THEN ConfigureCodecs(set.recv_codecs_)
                      ELSE r.config
        /\ u.default = r.default /\ u.sink = r.sink /\ u.delay = r.delay
    BY <2>1 DEF ReceivesAs, ReceiveFields
  <2> HIDE DEF u
  <2>4. Plain(u.config) = Plain(ConfigureCodecs(d.recv_codecs_))
    BY <1>3, <2>1, <2>3 DEF ReceivesAs
  <2>5. ReceivesAs(d, u)
    BY <1>1, <1>3, <2>1, <2>3, <2>4 DEF ReceivesAs
  <2> QED
    BY <2>2, <2>3, <2>5 DEF r
<1>6. \A s \in Defaults(d) : IsDefaultOf(d, s)
  <2>1. Defaults(d) = Defaults(c) /\ \A s \in Defaults(c) : s \in DOMAIN c.receive_streams_
    BY <1>3, <1>5 DEF Defaults
  <2>2. \A s \in Defaults(c) : IsDefaultOf(c, s)
    BY DEF Settled
  <2> QED
    BY <1>1, <1>3, <1>5, <2>1, <2>2, ZenonT(30) DEF IsDefaultOf
<1>7. \A s \in DOMAIN d.send_streams_ : SendsAs(d, d.send_streams_[s])
  BY <1>1, <1>3, ZenonT(30) DEF Settled, SendsAs
<1>8. Settled(d) /\ DOMAIN c = Fields
  BY <1>1, <1>3, <1>5, <1>6, <1>7 DEF Settled, HasCodec, Sound, Shape
<1> QED
  <2>1. Settled(Ok(d, TRUE)) /\ Settled(Ok(c, FALSE))
    BY <1>3, <1>8, OkSettled
  <2>2. SetRecvParameters(c, params) = Ok(d, TRUE) \/ SetRecvParameters(c, params) = Ok(c, FALSE)
    BY <1>2, <1>4
  <2> QED
    BY <2>1, <2>2, Zenon

\* Settled but for the sink and the delay of default streams.
Configured(c) ==
  /\ \A s \in DOMAIN c.receive_streams_ : ReceivesAs(c, c.receive_streams_[s])
  /\ \A s \in DOMAIN c.send_streams_ : SendsAs(c, c.send_streams_[s])
  /\ HasCodec(c)

Tuned(c, d) ==
  /\ DOMAIN d = Fields
  /\ d.send_codec_ = c.send_codec_ /\ d.negotiated_codecs_ = c.negotiated_codecs_
  /\ d.sending_ = c.sending_ /\ d.reduced_size = c.reduced_size
  /\ d.recv_codecs_ = c.recv_codecs_ /\ d.recv_flexfec_payload_type_ = c.recv_flexfec_payload_type_
  /\ d.send_streams_ = c.send_streams_
  /\ DOMAIN d.receive_streams_ = DOMAIN c.receive_streams_
  /\ \A s \in DOMAIN c.receive_streams_ :
       LET r == c.receive_streams_[s]
           u == d.receive_streams_[s]
       IN  /\ DOMAIN u = DOMAIN r /\ u.config = r.config /\ u.flexfec = r.flexfec
           /\ u.reduced_size = r.reduced_size /\ u.default = r.default

LEMMA TunedConfigured ==
  ASSUME NEW c, NEW d, Configured(c), Tuned(c, d)
  PROVE  Configured(d) /\ Defaults(d) = Defaults(c)
<1>1. \A s \in DOMAIN d.receive_streams_ : ReceivesAs(d, d.receive_streams_[s])
  BY DEF Configured, Tuned, ReceivesAs
<1>2. \A s \in DOMAIN d.send_streams_ : SendsAs(d, d.send_streams_[s])
  BY DEF Configured, Tuned, SendsAs
<1>3. HasCodec(d) /\ Defaults(d) = Defaults(c)
  BY DEF Configured, Tuned, HasCodec, Defaults
<1> QED
  BY <1>1, <1>2, <1>3 DEF Configured

LEMMA SinkTuned ==
  ASSUME NEW c, DOMAIN c = Fields, Configured(c), NEW ssrc, NEW to
  PROVE  LET d == SetSink(c, ssrc, to)
         IN  /\ Tuned(c, d) /\ d.default_sink_ = c.default_sink_ /\ d.default_delay = c.default_delay
             /\ \A s \in DOMAIN c.receive_streams_ :
                  /\ d.receive_streams_[s].delay = c.receive_streams_[s].delay
                  /\ d.receive_streams_[s].sink = IF s = ssrc THEN to ELSE c.receive_streams_[s].sink
<1> DEFINE r == c.receive_streams_[ssrc]
           u == [r EXCEPT !.sink = to]
           d == SetSink(c, ssrc, to)
<1>1. /\ DOMAIN d = Fields
      /\ d.send_codec_ = c.send_codec_ /\ d.negotiated_codecs_ = c.negotiated_codecs_
      /\ d.sending_ = c.sending_ /\ d.reduced_size = c.reduced_size
      /\ d.recv_codecs_ = c.recv_codecs_ /\ d.recv_flexfec_payload_type_ = c.recv_flexfec_payload_type_
      /\ d.default_sink_ = c.default_sink_ /\ d.default_delay = c.default_delay
      /\ d.send_streams_ = c.send_streams_
      /\ d.receive_streams_ = IF ssrc \in DOMAIN c.receive_streams_
                              THEN [c.receive_streams_ EXCEPT ![ssrc] = u] ELSE c.receive_streams_
  BY DEF SetSink, Ok, Fields
<1>2. ssrc \in DOMAIN c.receive_streams_ =>
        /\ DOMAIN u = DOMAIN r /\ u.config = r.config /\ u.flexfec = r.flexfec
        /\ u.reduced_size = r.reduced_size /\ u.default = r.default /\ u.delay = r.delay
        /\ u.sink = to
  BY DEF Configured, ReceivesAs, ReceiveFields
<1> HIDE DEF d, u
<1>3. DOMAIN d.receive_streams_ = DOMAIN c.receive_streams_
  BY <1>1
<1>4. ASSUME NEW s \in DOMAIN c.receive_streams_
      PROVE  d.receive_streams_[s] = IF s = ssrc THEN u ELSE c.receive_streams_[s]
  BY <1>1
<1>5. Tuned(c, d)
  BY <1>1, <1>2, <1>3, <1>4 DEF Tuned
<1>6. \A s \in DOMAIN c.receive_streams_ :
        /\ d.receive_streams_[s].delay = c.receive_streams_[s].delay
        /\ d.receive_streams_[s].sink = IF s = ssrc THEN to ELSE c.receive_streams_[s].sink
  BY <1>2, <1>4
<1> QED
  BY <1>1, <1>5, <1>6 DEF d

LEMMA DelayTuned ==
  ASSUME NEW c, DOMAIN c = Fields, Configured(c), NEW ssrc, NEW delay
  PROVE  LET d == SetBaseMinimumPlayoutDelayMs(c, ssrc, delay)
         IN  /\ Tuned(c, d) /\ d.default_sink_ = c.default_sink_
             /\ d.default_delay = IF ssrc = 0 THEN delay ELSE c.default_delay
             /\ \A s \in DOMAIN c.receive_streams_ :
                  /\ d.receive_streams_[s].sink = c.receive_streams_[s].sink
                  /\ s \in Defaults(c) /\ (ssrc = 0 \/ s = ssrc) => d.receive_streams_[s].delay = delay
<1> DEFINE set == IF ssrc = 0 THEN [c EXCEPT !.default_delay = delay] ELSE c
           to == IF ssrc = 0 THEN Defaults(c) ELSE {ssrc} \cap DOMAIN c.receive_streams_
           e == [set EXCEPT !.receive_streams_ =
                   [s \in DOMAIN @ |-> IF s \in to THEN [@[s] EXCEPT !.delay = delay] ELSE @[s]]]
           d == SetBaseMinimumPlayoutDelayMs(c, ssrc, delay)
<1>1. d = Ok(e, ssrc = 0 \/ to # {})
  BY Zenon DEF SetBaseMinimumPlayoutDelayMs
<1>2. /\ DOMAIN set = Fields
      /\ set.send_codec_ = c.send_codec_ /\ set.negotiated_codecs_ = c.negotiated_codecs_
      /\ set.sending_ = c.sending_ /\ set.reduced_size = c.reduced_size
      /\ set.recv_codecs_ = c.recv_codecs_ /\ set.recv_flexfec_payload_type_ = c.recv_flexfec_payload_type_
      /\ set.default_sink_ = c.default_sink_ /\ set.send_streams_ = c.send_streams_
      /\ set.default_delay = IF ssrc = 0 THEN delay ELSE c.default_delay
      /\ set.receive_streams_ = c.receive_streams_
  BY DEF Fields
<1>3. \A s \in DOMAIN c.receive_streams_ : s \in Defaults(c) /\ (ssrc = 0 \/ s = ssrc) => s \in to
  OBVIOUS
<1> HIDE DEF set, to, d
<1>4. /\ DOMAIN d = Fields
      /\ d.send_codec_ = set.send_codec_ /\ d.negotiated_codecs_ = set.negotiated_codecs_
      /\ d.sending_ = set.sending_ /\ d.reduced_size = set.reduced_size
      /\ d.recv_codecs_ = set.recv_codecs_ /\ d.recv_flexfec_payload_type_ = set.recv_flexfec_payload_type_
      /\ d.default_sink_ = set.default_sink_ /\ d.send_streams_ = set.send_streams_
      /\ d.default_delay = set.default_delay
      /\ DOMAIN d.receive_streams_ = DOMAIN c.receive_streams_
      /\ \A s \in DOMAIN c.receive_streams_ :
           d.receive_streams_[s] = IF s \in to THEN [c.receive_streams_[s] EXCEPT !.delay = delay]
                                   ELSE c.receive_streams_[s]
  <2> HIDE DEF e
  <2>1. /\ DOMAIN e = Fields
        /\ e.send_codec_ = set.send_codec_ /\ e.negotiated_codecs_ = set.negotiated_codecs_
        /\ e.sending_ = set.sending_ /\ e.reduced_size = set.reduced_size
        /\ e.recv_codecs_ = set.recv_codecs_ /\ e.recv_flexfec_payload_type_ = set.recv_flexfec_payload_type_
        /\ e.default_sink_ = set.default_sink_ /\ e.send_streams_ = set.send_streams_
        /\ e.default_delay = set.default_delay
        /\ e.receive_streams_ = [s \in DOMAIN c.receive_streams_ |->
                                   IF s \in to THEN [c.receive_streams_[s] EXCEPT !.delay = delay]
                                   ELSE c.receive_streams_[s]]
    BY <1>2 DEF e, Fields
  <2> QED
    BY <1>1, <2>1 DEF Ok, Fields
<1>5. ASSUME NEW s \in DOMAIN c.receive_streams_
      PROVE  LET r == c.receive_streams_[s]
                 u == d.receive_streams_[s]
             IN  /\ DOMAIN u = DOMAIN r /\ u.config = r.config /\ u.flexfec = r.flexfec
                 /\ u.reduced_size = r.reduced_size /\ u.default = r.default /\ u.sink = r.sink
                 /\ u.delay = IF s \in to THEN delay ELSE r.delay
  <2>1. DOMAIN c.receive_streams_[s] = ReceiveFields
    BY DEF Configured, ReceivesAs
  <2> QED
    BY <1>4, <2>1 DEF ReceiveFields
<1>6. Tuned(c, d)
  BY <1>2, <1>4, <1>5 DEF Tuned
<1> QED
  BY <1>2, <1>3, <1>4, <1>5, <1>6 DEF d

LEMMA SettledIsConfigured ==
  ASSUME NEW c
  PROVE  Settled(c) <=> Configured(c) /\ \A s \in Defaults(c) : IsDefaultOf(c, s)
BY DEF Settled, Configured

LEMMA SetDefaultSinkSettled ==
  ASSUME NEW c, Sound(c), Settled(c), NEW to
  PROVE  Settled(SetDefaultSink(c, to))
<1> DEFINE set == [c EXCEPT !.default_sink_ = to]
           one == CHOOSE s \in Defaults(set) : TRUE
           d == SetDefaultSink(c, to)
<1>1. /\ Tuned(c, set) /\ set.default_sink_ = to /\ set.default_delay = c.default_delay
      /\ set.receive_streams_ = c.receive_streams_
  BY DEF Tuned, Sound, Shape, Fields
<1>2. Defaults(c) = Defaults(set)
  BY <1>1 DEF Defaults
<1>3. d = IF Defaults(set) = {} THEN set ELSE SetSink(set, one, to)
  BY <1>2 DEF SetDefaultSink
<1> HIDE DEF set, d
<1>4. Configured(c) /\ Configured(set) /\ DOMAIN set = Fields
  BY <1>1, SettledIsConfigured, TunedConfigured DEF Tuned
<1>5. CASE Defaults(set) = {}
  BY <1>3, <1>4, <1>5, SettledIsConfigured DEF d
<1>6. CASE Defaults(set) # {}
  <2>1. one \in Defaults(set)
    BY <1>6
  <2> HIDE DEF one
  <2>2. \A s \in Defaults(set) : s = one /\ s \in DOMAIN set.receive_streams_
                                 /\ set.receive_streams_[s].delay = c.default_delay
    BY <1>1, <1>2, <2>1 DEF Settled, IsDefaultOf, Defaults
  <2>3. d = SetSink(set, one, to)
    BY <1>3, <1>6
  <2>4. /\ Tuned(set, d) /\ d.default_sink_ = set.default_sink_ /\ d.default_delay = set.default_delay
        /\ \A s \in DOMAIN set.receive_streams_ :
             /\ d.receive_streams_[s].delay = set.receive_streams_[s].delay
             /\ d.receive_streams_[s].sink = IF s = one THEN to ELSE set.receive_streams_[s].sink
    BY <1>4, <2>3, SinkTuned
  <2>5. Configured(d) /\ Defaults(d) = Defaults(set)
    BY <1>4, <2>4, TunedConfigured
  <2>6. \A s \in Defaults(d) : IsDefaultOf(d, s)
    BY <1>1, <2>2, <2>4, <2>5 DEF IsDefaultOf
  <2> QED
    BY <2>5, <2>6, SettledIsConfigured DEF d
<1> QED
  BY <1>5, <1>6

LEMMA SetDefaultDelaySettled ==
  ASSUME NEW c, Sound(c), Settled(c), NEW delay
  PROVE  Settled(SetBaseMinimumPlayoutDelayMs(c, 0, delay))
<1> DEFINE d == SetBaseMinimumPlayoutDelayMs(c, 0, delay)
<1>1. Configured(c) /\ DOMAIN c = Fields
  BY SettledIsConfigured DEF Sound, Shape
<1>2. /\ Tuned(c, d) /\ d.default_sink_ = c.default_sink_ /\ d.default_delay = delay
      /\ \A s \in DOMAIN c.receive_streams_ :
           /\ d.receive_streams_[s].sink = c.receive_streams_[s].sink
           /\ s \in Defaults(c) => d.receive_streams_[s].delay = delay
  BY <1>1, DelayTuned
<1> HIDE DEF d
<1>3. Configured(d) /\ Defaults(d) = Defaults(c)
  BY <1>1, <1>2, TunedConfigured
<1>4. \A s \in Defaults(c) : s \in DOMAIN c.receive_streams_
  BY DEF Defaults
<1>5. \A s \in Defaults(d) : IsDefaultOf(d, s)
  BY <1>2, <1>3, <1>4 DEF Settled, IsDefaultOf
<1>6. Settled(d)
  BY <1>3, <1>5, SettledIsConfigured
<1> QED
  BY <1>6 DEF d

\* What AddRecvStreamAs makes of a channel; only a default stream can be one that does not
\* have the sink and the delay of such streams yet.
LEMMA AddRecvConfigured ==
  ASSUME NEW c, Sound(c), Settled(c), NEW sp, "ssrcs" \in DOMAIN sp, NEW default \in BOOLEAN
  PROVE  LET d == AddRecvStreamAs(c, sp, default)
         IN  /\ Configured(d) /\ d.default_sink_ = c.default_sink_ /\ d.default_delay = c.default_delay
             /\ \A s \in Defaults(d) :
                  \/ s \in Defaults(c) /\ IsDefaultOf(c, s) /\ d.receive_streams_[s] = c.receive_streams_[s]
                  \/ default /\ s = First(sp)
<1> DEFINE first == First(sp)
           taken == sp.ssrcs # <<>> /\ first \in DOMAIN c.receive_streams_
           freed == IF taken THEN DeleteReceiveStream(c, first) ELSE c
           stream == WebRtcVideoReceiveStream(freed, sp, default)
           added == [freed EXCEPT !.receive_ssrcs_ = @ \cup Ssrcs(sp),
                                  !.receive_streams_ = With(@, first, stream)]
           unsignalled == [c EXCEPT !.unsignaled_stream_params_ = sp]
           d == AddRecvStreamAs(c, sp, default)
           Good(e) == /\ DOMAIN e = Fields /\ Configured(e)
                      /\ e.default_sink_ = c.default_sink_ /\ e.default_delay = c.default_delay
                      /\ \A s \in Defaults(e) :
                           \/ s \in Defaults(c) /\ IsDefaultOf(c, s)
                              /\ e.receive_streams_[s] = c.receive_streams_[s]
                           \/ default /\ s = first
<1>1. Alike(c, freed) /\ Settled(freed) /\ DOMAIN freed = Fields /\ freed.buffered = FALSE
      /\ freed.rtcp_receiver_report_ssrc_ = c.rtcp_receiver_report_ssrc_
      /\ \A s \in DOMAIN freed.receive_streams_ : freed.receive_streams_[s] = c.receive_streams_[s]
  <2>1. CASE taken
    BY <2>1, RemoveRecvSettled DEF DeleteReceiveStream, Without, Sound, Shape, Fields
  <2>2. CASE ~taken
    <3>1. Alike(c, c)
      BY DEF Alike
    <3> QED
      BY <2>2, <3>1 DEF Sound, Shape
  <2> QED
    BY <2>1, <2>2
<1>2. Good(freed)
  <2> HIDE DEF freed
  <2>1. Defaults(freed) \subseteq Defaults(c) /\ \A s \in Defaults(freed) : s \in DOMAIN freed.receive_streams_
    BY <1>1 DEF Defaults, Alike
  <2> QED
    BY <1>1, <2>1, SettledIsConfigured DEF Alike, Settled
<1>3. Good(c)
  BY SettledIsConfigured DEF Sound, Shape, Settled
<1>4. Good(unsignalled)
  <2>1. /\ Alike(c, unsignalled) /\ DOMAIN unsignalled = Fields
        /\ unsignalled.receive_streams_ = c.receive_streams_
    BY DEF Alike, Sound, Shape, Fields
  <2> HIDE DEF unsignalled
  <2>2. Configured(unsignalled) /\ Defaults(unsignalled) = Defaults(c)
    BY <2>1, AlikeSettled, SettledIsConfigured DEF Defaults
  <2> QED
    BY <2>1, <2>2 DEF Alike, Settled
<1>5. Good(added) /\ added.buffered = FALSE
  <2>1. DOMAIN stream = ReceiveFields /\ stream.default = default /\ ReceivesAs(freed, stream)
    <3> HIDE DEF freed
    <3> QED
      BY DEF WebRtcVideoReceiveStream, ReceiveFields, ReceivesAs, ConfigureReceiverRtp
  <2> HIDE DEF freed, stream, first
  <2>2. /\ DOMAIN added = Fields /\ added.receive_streams_ = With(freed.receive_streams_, first, stream)
        /\ added.send_streams_ = freed.send_streams_ /\ added.buffered = freed.buffered
        /\ added.send_codec_ = freed.send_codec_ /\ added.negotiated_codecs_ = freed.negotiated_codecs_
        /\ added.sending_ = freed.sending_ /\ added.reduced_size = freed.reduced_size
        /\ added.recv_codecs_ = freed.recv_codecs_
        /\ added.recv_flexfec_payload_type_ = freed.recv_flexfec_payload_type_
        /\ added.default_sink_ = freed.default_sink_ /\ added.default_delay = freed.default_delay
    BY <1>1 DEF Fields
  <2> HIDE DEF added
  <2>3. /\ DOMAIN added.receive_streams_ = DOMAIN freed.receive_streams_ \cup {first}
        /\ \A s \in DOMAIN added.receive_streams_ :
             added.receive_streams_[s] = IF s = first THEN stream ELSE freed.receive_streams_[s]
    BY <2>2 DEF With
  <2>4. \A s \in DOMAIN added.receive_streams_ : ReceivesAs(added, added.receive_streams_[s])
    <3>1. \A s \in DOMAIN freed.receive_streams_ : ReceivesAs(freed, freed.receive_streams_[s])
      BY <1>1 DEF Settled
    <3>2. \A s \in DOMAIN added.receive_streams_ : ReceivesAs(freed, added.receive_streams_[s])
      BY <2>1, <2>3, <3>1
    <3> QED
      BY <2>2, <3>2 DEF ReceivesAs
  <2>5. \A s \in DOMAIN added.send_streams_ : SendsAs(added, added.send_streams_[s])
    BY <1>1, <2>2 DEF Settled, SendsAs
  <2>6. Configured(added)
    BY <1>1, <2>2, <2>4, <2>5 DEF Configured, Settled, HasCodec
  <2>7. ASSUME NEW s \in Defaults(added)
        PROVE  \/ s \in Defaults(c) /\ IsDefaultOf(c, s) /\ added.receive_streams_[s] = c.receive_streams_[s]
               \/ default /\ s = first
    <3>1. s \in DOMAIN added.receive_streams_ /\ added.receive_streams_[s].default
      BY DEF Defaults
    <3>2. CASE s = first
      BY <2>1, <2>3, <3>1, <3>2
    <3>3. CASE s # first
      <4>1. s \in DOMAIN freed.receive_streams_ /\ freed.receive_streams_[s].default
            /\ added.receive_streams_[s] = freed.receive_streams_[s]
        BY <2>3, <3>1, <3>3
      <4>2. s \in Defaults(c)
        BY <1>1, <4>1 DEF Defaults, Alike
      <4> QED
        BY <1>1, <4>1, <4>2 DEF Settled
    <3> QED
      BY <3>2, <3>3
  <2> QED
    BY <1>1, <2>2, <2>6, <2>7 DEF Alike
<1>6. \/ d = Ok(unsignalled, TRUE) \/ d = Ok(c, FALSE) \/ d = Ok(freed, FALSE) \/ d = Ok(added, TRUE)
  <2>1. RecreateWebRtcVideoStream(added, first) = added
    BY <1>5 DEF RecreateWebRtcVideoStream, BackfillBufferedPackets
  <2> QED
    BY <2>1 DEF AddRecvStreamAs
<1>7. ASSUME NEW e, Good(e), NEW b
      PROVE  Good(Ok(e, b))
  <2>1. /\ Tuned(e, Ok(e, b)) /\ DOMAIN Ok(e, b) = Fields
        /\ Ok(e, b).receive_streams_ = e.receive_streams_
        /\ Ok(e, b).default_sink_ = e.default_sink_ /\ Ok(e, b).default_delay = e.default_delay
    BY <1>7 DEF Ok, Fields, Tuned
  <2> QED
    BY <1>7, <2>1, TunedConfigured
<1>8. Good(d)
  <2> HIDE DEF added, freed, unsignalled, d, Good
  <2> QED
    BY <1>2, <1>3, <1>4, <1>5, <1>6, <1>7
<1> HIDE DEF d
<1>9. /\ Configured(d) /\ d.default_sink_ = c.default_sink_ /\ d.default_delay = c.default_delay
      /\ \A s \in Defaults(d) :
           \/ s \in Defaults(c) /\ IsDefaultOf(c, s) /\ d.receive_streams_[s] = c.receive_streams_[s]
           \/ default /\ s = First(sp)
  BY <1>8
<1> QED
  BY <1>9 DEF d

LEMMA AddRecvSettled ==
  ASSUME NEW c, Sound(c), Settled(c), NEW sp, "ssrcs" \in DOMAIN sp
  PROVE  Settled(AddRecvStream(c, sp))
<1> DEFINE d == AddRecvStream(c, sp)
<1>1. /\ Configured(d) /\ d.default_sink_ = c.default_sink_ /\ d.default_delay = c.default_delay
      /\ \A s \in Defaults(d) : s \in Defaults(c) /\ IsDefaultOf(c, s) /\ d.receive_streams_[s] = c.receive_streams_[s]
  BY AddRecvConfigured DEF AddRecvStream
<1> HIDE DEF d
<1>2. \A s \in Defaults(d) : IsDefaultOf(d, s)
  BY <1>1 DEF IsDefaultOf
<1>3. Settled(d)
  BY <1>1, <1>2, SettledIsConfigured
<1> QED
  BY <1>3 DEF d

LEMMA UnsignalledSettled ==
  ASSUME NEW c, Sound(c), Settled(c), NEW ssrc
  PROVE  Settled(OnUnsignalledSsrc(c, ssrc))
<1> DEFINE one == CHOOSE s \in Defaults(c) : TRUE
           freed == IF Defaults(c) = {} THEN c ELSE RemoveRecvStream(c, one)
           sp == [c.unsignaled_stream_params_ EXCEPT !.ssrcs = <<ssrc>>]
           made == AddRecvStreamAs(freed, sp, TRUE)
           later == SetBaseMinimumPlayoutDelayMs(made, ssrc, made.default_delay)
           d == SetSink(later, ssrc, made.default_sink_)
<1>1. Sound(freed) /\ Settled(freed)
  BY RemoveRecvTame, RemoveRecvSettled DEF Tame
<1>2. Defaults(freed) = {}
  <2>1. CASE Defaults(c) = {}
    BY <2>1
  <2>2. CASE Defaults(c) # {}
    <3>1. one \in Defaults(c) /\ one \in DOMAIN c.receive_streams_
      BY <2>2 DEF Defaults
    <3> HIDE DEF one
    <3>2. \A s \in Defaults(c) : s = one
      BY <3>1 DEF Settled, IsDefaultOf
    <3>3. freed.receive_streams_ = Without(c.receive_streams_, one)
      BY <2>2, <3>1 DEF RemoveRecvStream, DeleteReceiveStream, Ok, Sound, Shape, Fields
    <3> HIDE DEF freed
    <3>4. \A s \in DOMAIN freed.receive_streams_ :
            s \in DOMAIN c.receive_streams_ /\ s # one
            /\ freed.receive_streams_[s] = c.receive_streams_[s]
      BY <3>3 DEF Without
    <3> QED
      BY <3>2, <3>4 DEF Defaults
  <2> QED
    BY <2>1, <2>2
<1>3. "ssrcs" \in DOMAIN sp /\ First(sp) = ssrc
  BY DEF Sound, Shape, First
<1>4. d = OnUnsignalledSsrc(c, ssrc)
  BY DEF OnUnsignalledSsrc
<1> HIDE DEF freed, sp
<1>5. Sound(made) /\ DOMAIN made = Fields
  BY <1>1, <1>3, AddRecvAs, ZenonT(30) DEF Sound, Shape
<1>6. Configured(made) /\ \A s \in Defaults(made) : s = ssrc /\ s \in DOMAIN made.receive_streams_
  <2>1. /\ Configured(made)
        /\ \A s \in Defaults(made) : s \in Defaults(freed) \/ s = First(sp)
    BY <1>1, <1>3, AddRecvConfigured
  <2> HIDE DEF made
  <2> QED
    BY <1>2, <1>3, <2>1 DEF Defaults
<1> HIDE DEF made
<1>7. /\ Tuned(made, later) /\ later.default_sink_ = made.default_sink_
      /\ later.default_delay = made.default_delay
      /\ \A s \in DOMAIN made.receive_streams_ :
           /\ later.receive_streams_[s].sink = made.receive_streams_[s].sink
           /\ s \in Defaults(made) /\ (ssrc = 0 \/ s = ssrc)
                => later.receive_streams_[s].delay = made.default_delay
  BY <1>5, <1>6, DelayTuned
<1> HIDE DEF later
<1>8. Configured(later) /\ Defaults(later) = Defaults(made) /\ DOMAIN later = Fields
      /\ DOMAIN later.receive_streams_ = DOMAIN made.receive_streams_
  BY <1>6, <1>7, TunedConfigured DEF Tuned
<1>9. /\ Tuned(later, d) /\ d.default_sink_ = later.default_sink_ /\ d.default_delay = later.default_delay
      /\ \A s \in DOMAIN later.receive_streams_ :
           /\ d.receive_streams_[s].delay = later.receive_streams_[s].delay
           /\ d.receive_streams_[s].sink = IF s = ssrc THEN made.default_sink_ ELSE later.receive_streams_[s].sink
  BY <1>8, SinkTuned
<1> HIDE DEF d
<1>10. Configured(d) /\ Defaults(d) = Defaults(made)
  BY <1>8, <1>9, TunedConfigured
<1>11. \A s \in Defaults(d) : IsDefaultOf(d, s)
  BY <1>6, <1>7, <1>8, <1>9, <1>10 DEF IsDefaultOf
<1> QED
  BY <1>4, <1>10, <1>11, SettledIsConfigured

LEMMA PacketSettled ==
  ASSUME NEW c, Sound(c), Settled(c), NEW packet
  PROVE  Settled(OnPacketReceived(c, packet))
<1> DEFINE told == OnUnsignalledSsrc(c, packet.ssrc)
           made == DeliverPacket(told, packet)
           hot == [made EXCEPT !.cooldown = TRUE]
           d == OnPacketReceived(c, packet)
<1>1. d = DeliverPacket(c, packet) \/ d = hot \/ d = c
  BY DEF OnPacketReceived, Sound, Shape
<1>2. Sound(told) /\ Settled(told)
  BY UnsignalledSound, UnsignalledSettled
<1> HIDE DEF told
<1>3. Sound(made) /\ Settled(made)
  BY <1>2, DeliverSound, DeliverSettled
<1> HIDE DEF made
<1>4. Alike(made, hot)
  BY <1>3 DEF Alike, Sound, Shape, Fields
<1> HIDE DEF hot, d
<1>5. Settled(d)
  BY <1>1, <1>3, <1>4, AlikeSettled, DeliverSettled
<1> QED
  BY <1>5 DEF d

LEMMA AddSendSettled ==
  ASSUME NEW c, Sound(c), Settled(c), NEW sp \in StreamParams
  PROVE  Settled(AddSendStream(c, sp))
<1> DEFINE first == First(sp)
           new == Sender!WebRtcVideoSendStream(sp, c.send_codec_, c.reduced_size)
           stream == Sender!SetSend(new, c.sending_)
           added == [c EXCEPT !.send_ssrcs_ = @ \cup Ssrcs(sp), !.send_streams_ = With(@, first, stream)]
           report == [added EXCEPT !.rtcp_receiver_report_ssrc_ = first]
           d == AddSendStream(c, sp)
<1>1. Tame(c, d) /\ DOMAIN c = Fields
  BY AddSendTame DEF Sound, Shape
<1>2. d = Ok(c, FALSE) \/ d = Ok(SetLocalSsrcOnAll(report, first), TRUE) \/ d = Ok(added, TRUE)
  BY DEF AddSendStream
<1>3. SendsAs(c, stream)
  <2>1. DOMAIN new = SendFields /\ new.codec = c.send_codec_ /\ new.reduced_size = c.reduced_size
        /\ Sender!IsInCall(new)
    BY NewSender DEF Settled, HasCodec
  <2> HIDE DEF new
  <2> QED
    BY <2>1, SendSet DEF SendsAs
<1> HIDE DEF stream, first
<1>4. /\ DOMAIN added = Fields /\ added.send_streams_ = With(c.send_streams_, first, stream)
      /\ added.receive_streams_ = c.receive_streams_ /\ added.buffered = FALSE
      /\ added.send_codec_ = c.send_codec_ /\ added.negotiated_codecs_ = c.negotiated_codecs_
      /\ added.sending_ = c.sending_ /\ added.reduced_size = c.reduced_size
      /\ added.recv_codecs_ = c.recv_codecs_
      /\ added.recv_flexfec_payload_type_ = c.recv_flexfec_payload_type_
      /\ added.default_sink_ = c.default_sink_ /\ added.default_delay = c.default_delay
  BY DEF Sound, Shape, Fields
<1> HIDE DEF added
<1>5. Settled(added)
  <2>1. /\ DOMAIN added.send_streams_ = DOMAIN c.send_streams_ \cup {first}
        /\ \A s \in DOMAIN added.send_streams_ :
             added.send_streams_[s] = IF s = first THEN stream ELSE c.send_streams_[s]
    BY <1>4 DEF With
  <2>2. \A s \in DOMAIN added.send_streams_ : SendsAs(c, added.send_streams_[s])
    BY <1>3, <2>1 DEF Settled
  <2>3. \A s \in DOMAIN added.send_streams_ : SendsAs(added, added.send_streams_[s])
    BY <1>4, <2>2 DEF SendsAs
  <2>4. \A s \in DOMAIN added.receive_streams_ : ReceivesAs(added, added.receive_streams_[s])
    BY <1>4 DEF Settled, ReceivesAs
  <2>5. \A s \in Defaults(added) : IsDefaultOf(added, s)
    BY <1>4 DEF Settled, IsDefaultOf, Defaults
  <2> QED
    BY <1>4, <2>3, <2>4, <2>5 DEF Settled, HasCodec
<1>6. Settled(SetLocalSsrcOnAll(report, first)) /\ DOMAIN SetLocalSsrcOnAll(report, first) = Fields
  <2>1. Alike(added, report) /\ DOMAIN report = Fields /\ report.buffered = FALSE
    BY <1>4 DEF Alike, Fields
  <2> HIDE DEF report
  <2> DEFINE e == EachStream(report, LAMBDA r : [r EXCEPT !.local_ssrc = first])
  <2>2. Alike(report, e) /\ DOMAIN e = Fields /\ e.buffered = FALSE
    BY <2>1 DEF Alike, EachStream, Fields
  <2>3. SetLocalSsrcOnAll(report, first) = e
    BY <2>2 DEF SetLocalSsrcOnAll, RecreateAll
  <2> HIDE DEF e
  <2> QED
    BY <1>5, <2>1, <2>2, <2>3, AlikeSettled
<1> HIDE DEF report, d
<1>7. Settled(d)
  BY <1>1, <1>2, <1>4, <1>5, <1>6, OkSettled
<1> QED
  BY <1>7 DEF d

LEMMA RemoveSendSettled ==
  ASSUME NEW c, Sound(c), Settled(c), NEW ssrc
  PROVE  Settled(RemoveSendStream(c, ssrc))
<1> DEFINE left == [c EXCEPT !.send_streams_ = Without(@, ssrc),
                             !.send_ssrcs_ = @ \ Ssrcs(c.send_streams_[ssrc].params)]
           to == IF DOMAIN left.send_streams_ = {} THEN DefaultReportSsrc
                 ELSE CHOOSE s \in DOMAIN left.send_streams_ :
                        \A t \in DOMAIN left.send_streams_ : s <= t
           report == [left EXCEPT !.rtcp_receiver_report_ssrc_ = to]
           d == RemoveSendStream(c, ssrc)
<1>1. d = Ok(c, FALSE) \/ d = Ok(SetLocalSsrcOnAll(report, to), TRUE) \/ d = Ok(left, TRUE)
  BY DEF RemoveSendStream
<1> HIDE DEF to
<1>2. Alike(c, left) /\ DOMAIN left = Fields /\ left.buffered = FALSE /\ DOMAIN c = Fields
  BY DEF Alike, Without, Sound, Shape, Fields
<1> HIDE DEF left
<1>3. Alike(left, report) /\ DOMAIN report = Fields /\ report.buffered = FALSE
  BY <1>2 DEF Alike, Fields
<1> HIDE DEF report
<1>4. Settled(left) /\ Settled(report)
  BY <1>2, <1>3, AlikeSettled
<1>5. Settled(SetLocalSsrcOnAll(report, to)) /\ DOMAIN SetLocalSsrcOnAll(report, to) = Fields
  <2> DEFINE e == EachStream(report, LAMBDA r : [r EXCEPT !.local_ssrc = to])
  <2>1. Alike(report, e) /\ DOMAIN e = Fields /\ e.buffered = FALSE
    BY <1>3 DEF Alike, EachStream, Fields
  <2>2. SetLocalSsrcOnAll(report, to) = e
    BY <2>1 DEF SetLocalSsrcOnAll, RecreateAll
  <2> HIDE DEF e
  <2> QED
    BY <1>4, <2>1, <2>2, AlikeSettled
<1> HIDE DEF d
<1>6. Settled(d)
  BY <1>1, <1>2, <1>4, <1>5, OkSettled
<1> QED
  BY <1>6 DEF d

-----------------------------------------------------------------------------
(* A description, and the steps.                                            *)

KeptSettled(d) == Tame(ch, d) /\ Settled(d)

LEMMA StepsSettled ==
  ASSUME NEW c, KeptSettled(c), NEW sp \in StreamParams, NEW streams
  PROVE  /\ KeptSettled(RemoveOld(c, sp, streams)) /\ KeptSettled(AddNew(c, sp))
         /\ KeptSettled(RemoveOldLocal(c, sp, streams)) /\ KeptSettled(AddNewLocal(c, sp))
<1>1. Sound(c) /\ Settled(c) /\ DOMAIN c = Fields /\ "ssrcs" \in DOMAIN sp
  BY DEF KeptSettled, Tame, Sound, Shape, StreamParams
<1>2. /\ Tame(ch, RemoveOld(c, sp, streams)) /\ Tame(ch, AddNew(c, sp))
      /\ Tame(ch, RemoveOldLocal(c, sp, streams)) /\ Tame(ch, AddNewLocal(c, sp))
  BY StepsTame DEF KeptSettled
<1>3. /\ Settled(ResetUnsignaledRecvStream(c)) /\ \A s : Settled(RemoveRecvStream(c, s))
      /\ Settled(AddRecvStream(c, sp)) /\ Settled(AddSendStream(c, sp))
      /\ \A s : Settled(RemoveSendStream(c, s))
  BY <1>1, ResetSettled, RemoveRecvSettled, AddRecvSettled, AddSendSettled, RemoveSendSettled
<1>4. /\ DOMAIN ResetUnsignaledRecvStream(c) = Fields /\ \A s : DOMAIN RemoveRecvStream(c, s) = Fields
      /\ DOMAIN AddRecvStream(c, sp) = Fields /\ DOMAIN AddSendStream(c, sp) = Fields
      /\ \A s : DOMAIN RemoveSendStream(c, s) = Fields
  BY <1>1, ResetTame, RemoveRecvTame, AddRecvTame, AddSendTame, RemoveSendTame DEF Tame, Sound, Shape
<1>5. Settled(RemoveOld(c, sp, streams))
  <2>1. CASE sp.ssrcs = <<>> /\ ~HasNoSsrcs(streams)
    BY <1>3, <1>4, <2>1, OkSettled DEF RemoveOld
  <2>2. CASE sp.ssrcs # <<>> /\ ~Known(streams, sp)
    BY <1>3, <1>4, <2>2, OkSettled DEF RemoveOld
  <2>3. CASE ~(\/ sp.ssrcs = <<>> /\ ~HasNoSsrcs(streams)
               \/ sp.ssrcs # <<>> /\ ~Known(streams, sp))
    BY <1>1, <2>3 DEF RemoveOld
  <2> QED
    BY <2>1, <2>2, <2>3
<1>6. Settled(AddNew(c, sp))
  BY <1>1, <1>3, <1>4, OkSettled DEF AddNew
<1>7. Settled(RemoveOldLocal(c, sp, streams))
  BY <1>1, <1>3, <1>4, OkSettled DEF RemoveOldLocal
<1>8. Settled(AddNewLocal(c, sp))
  BY <1>1, <1>3, <1>4, OkSettled DEF AddNewLocal
<1> QED
  BY <1>2, <1>5, <1>6, <1>7, <1>8 DEF KeptSettled

LEMMA UpdateRemoteSettled ==
  ASSUME Sound(ch), Settled(ch), remote_streams_ \in Seq(StreamParams), Streams \in Seq(StreamParams)
  PROVE  KeptSettled(UpdateRemoteStreams(ch, Streams))
<1> DEFINE base == Ok(ch, TRUE)
           left == OldRemote!Folded(base, remote_streams_)
<1>1. KeptSettled(base)
  BY TameItself, TameOk, OkSettled DEF KeptSettled, Sound, Shape
<1>2. KeptSettled(left)
  <2> DEFINE Values == OldRemote!Visited(base, remote_streams_)
             Good == {c \in Values : KeptSettled(c)}
  <2>1. \A c : \A x \in StreamParams : KeptSettled(c) => KeptSettled(RemoveOld(c, x, Streams))
    BY StepsSettled
  <2> HIDE DEF base
  <2>2. /\ base \in Values => base \in Good
        /\ \A c \in Good : \A x \in StreamParams : RemoveOld(c, x, Streams) \in Values => RemoveOld(c, x, Streams) \in Good
    BY <1>1, <2>1
  <2> HIDE DEF Good
  <2>3. OldRemote!Folded(base, remote_streams_) \in Good
    BY <2>2, OldRemote!FoldPreserves, Zenon
  <2> QED
    BY <2>3 DEF Good, left
<1>3. KeptSettled(NewRemote!Folded(left, Streams))
  <2> DEFINE Values == NewRemote!Visited(left, Streams)
             Good == {c \in Values : KeptSettled(c)}
  <2>1. \A c : \A x \in StreamParams : KeptSettled(c) => KeptSettled(AddNew(c, x))
    BY StepsSettled
  <2> HIDE DEF left
  <2>2. /\ left \in Values => left \in Good
        /\ \A c \in Good : \A x \in StreamParams : AddNew(c, x) \in Values => AddNew(c, x) \in Good
    BY <1>2, <2>1
  <2> HIDE DEF Good
  <2>3. NewRemote!Folded(left, Streams) \in Good
    BY <2>2, NewRemote!FoldPreserves, Zenon
  <2> QED
    BY <2>3 DEF Good
<1>4. left = FoldLeft(LAMBDA acc, sp : RemoveOld(acc, sp, Streams), base, remote_streams_)
  BY Zenon DEF OldRemote!Folded, OldRemote!Greatest, FoldLeft, MapThenFoldSet, Max
<1>5. NewRemote!Folded(left, Streams) = FoldLeft(AddNew, left, Streams)
  <2> HIDE DEF left
  <2> QED
    BY Zenon DEF NewRemote!Folded, NewRemote!Greatest, FoldLeft, MapThenFoldSet, Max
<1> QED
  BY <1>3, <1>4, <1>5 DEF UpdateRemoteStreams

LEMMA UpdateLocalSettled ==
  ASSUME Sound(ch), Settled(ch), local_streams_ \in Seq(StreamParams), Streams \in Seq(StreamParams)
  PROVE  KeptSettled(UpdateLocalStreams(ch, Streams))
<1> DEFINE base == Ok(ch, TRUE)
           left == OldLocal!Folded(base, local_streams_)
<1>1. KeptSettled(base)
  BY TameItself, TameOk, OkSettled DEF KeptSettled, Sound, Shape
<1>2. KeptSettled(left)
  <2> DEFINE Values == OldLocal!Visited(base, local_streams_)
             Good == {c \in Values : KeptSettled(c)}
  <2>1. \A c : \A x \in StreamParams : KeptSettled(c) => KeptSettled(RemoveOldLocal(c, x, Streams))
    BY StepsSettled
  <2> HIDE DEF base
  <2>2. /\ base \in Values => base \in Good
        /\ \A c \in Good : \A x \in StreamParams : RemoveOldLocal(c, x, Streams) \in Values => RemoveOldLocal(c, x, Streams) \in Good
    BY <1>1, <2>1
  <2> HIDE DEF Good
  <2>3. OldLocal!Folded(base, local_streams_) \in Good
    BY <2>2, OldLocal!FoldPreserves, Zenon
  <2> QED
    BY <2>3 DEF Good, left
<1>3. KeptSettled(NewLocal!Folded(left, Streams))
  <2> DEFINE Values == NewLocal!Visited(left, Streams)
             Good == {c \in Values : KeptSettled(c)}
  <2>1. \A c : \A x \in StreamParams : KeptSettled(c) => KeptSettled(AddNewLocal(c, x))
    BY StepsSettled
  <2> HIDE DEF left
  <2>2. /\ left \in Values => left \in Good
        /\ \A c \in Good : \A x \in StreamParams : AddNewLocal(c, x) \in Values => AddNewLocal(c, x) \in Good
    BY <1>2, <2>1
  <2> HIDE DEF Good
  <2>3. NewLocal!Folded(left, Streams) \in Good
    BY <2>2, NewLocal!FoldPreserves, Zenon
  <2> QED
    BY <2>3 DEF Good
<1>4. left = FoldLeft(LAMBDA acc, sp : RemoveOldLocal(acc, sp, Streams), base, local_streams_)
  BY Zenon DEF OldLocal!Folded, OldLocal!Greatest, FoldLeft, MapThenFoldSet, Max
<1>5. NewLocal!Folded(left, Streams) = FoldLeft(AddNewLocal, left, Streams)
  <2> HIDE DEF left
  <2> QED
    BY Zenon DEF NewLocal!Folded, NewLocal!Greatest, FoldLeft, MapThenFoldSet, Max
<1> QED
  BY <1>3, <1>4, <1>5 DEF UpdateLocalStreams

LEMMA RegisterSettled ==
  ASSUME NEW c, DOMAIN c = Fields, Settled(c), NEW asked, NEW crit, NEW then,
         RegisterRtpDemuxerSink_w(asked, c, crit, then)
  PROVE  Settled(ch')
<1>1. Alike(c, [c EXCEPT !.pending_criteria = @ + 1])
  BY DEF Alike, Fields
<1>2. Settled([c EXCEPT !.pending_criteria = @ + 1])
  BY <1>1, AlikeSettled
<1>3. ch' = [c EXCEPT !.pending_criteria = @ + 1] \/ ch' = c
  BY DEF RegisterRtpDemuxerSink_w
<1> QED
  BY <1>2, <1>3, Zenon

LEMMA InitSettled == Init => Settled(ch)
<1> SUFFICES ASSUME Init
             PROVE  Settled(ch)
  OBVIOUS
<1>1. /\ ch.receive_streams_ = <<>> /\ ch.send_streams_ = <<>>
      /\ ch.send_codec_ = NoCodec /\ ch.negotiated_codecs_ = <<>>
  BY DEF Init, WebRtcVideoChannel
<1>2. DOMAIN ch.receive_streams_ = {} /\ DOMAIN ch.send_streams_ = {}
  BY <1>1
<1> QED
  BY <1>1, <1>2 DEF Settled, Defaults, HasCodec

LEMMA SettledStep ==
  ASSUME CommonCodecs, IInv, Settled(ch), [Next]_vars
  PROVE  Settled(ch')
<1>1. Sound(ch) /\ DOMAIN ch = Fields
  BY DEF IInv, Sound, Shape
<1>2. \A c : KeptSettled(c) => Sound(c) /\ Settled(c) /\ DOMAIN c = Fields
  BY DEF KeptSettled, Tame, Sound, Shape
<1>3. CASE ch' = ch
  BY <1>3, Zenon
<1>4. CASE KeptSettled(ch')
  BY <1>2, <1>4
<1>5. CASE \E c, asked, crit, then : KeptSettled(c) /\ RegisterRtpDemuxerSink_w(asked, c, crit, then)
  BY <1>2, <1>5, RegisterSettled
<1>6. CASE UNCHANGED vars \/ Signaling \/ Network \/ FinishDemuxing
  <2>1. ch' = ch
    <3>1. CASE Signaling
      BY <3>1 DEF Signaling, CallSetLocalContent, CallSetRemoteContent, CallSetPayloadTypeDemuxingEnabled,
                  CallSetDefaultSink, CallSetDefaultDelay, CallClose, Call, Enable
    <3>2. CASE Network
      BY <3>2 DEF Network, RegisterRtpDemuxerSink, Register, RegisterOther, DemuxPacket, Writable
    <3> QED
      BY <1>6, <3>1, <3>2 DEF vars, FinishDemuxing
  <2> QED
    BY <1>3, <2>1
<1>7. CASE BeginLocal
  <2> DEFINE set == SetRecvParameters(ch, Head(tasks).content)
  <2>1. KeptSettled(set)
    BY <1>1, SetRecvParametersTame, SetRecvParametersSettled DEF KeptSettled
  <2>2. ch' = set \/ \E asked, crit, then : RegisterRtpDemuxerSink_w(asked, set, crit, then)
    BY <1>7 DEF BeginLocal, Refuse
  <2> HIDE DEF set
  <2> QED
    BY <1>4, <1>5, <2>1, <2>2
<1>8. CASE BeginRemote
  <2> DEFINE set == SetSendParameters(ch, Head(tasks).content)
  <2>1. Head(tasks).content \in RemoteContents
    <3>1. tasks \in Seq(Task) /\ tasks # <<>> /\ Head(tasks).do = "remote"
      BY <1>8 DEF BeginRemote, Start, IInv, Typed
    <3>2. Head(tasks) \in Task
      BY <3>1
    <3> QED
      BY <3>1, <3>2 DEF Task
  <2>2. KeptSettled(set)
    BY <1>1, <2>1, SetSendParametersTame, SetSendParametersSettled DEF KeptSettled, CommonCodecs, HasCommonCodec
  <2>3. ch' = set \/ \E asked, crit, then : RegisterRtpDemuxerSink_w(asked, set, crit, then)
    BY <1>8 DEF BeginRemote, Refuse
  <2> HIDE DEF set
  <2> QED
    BY <1>4, <1>5, <2>2, <2>3
<1>9. CASE BeginStreams
  <2> DEFINE u == UpdateRemoteStreams(ch, Streams)
  <2>1. wpc.then.content \in RemoteContents
    BY <1>9 DEF IInv, Typed, WorkerStates, Idle, Then, Runs, BeginStreams
  <2>2. KeptSettled(u)
    <3>1. Streams \in Seq(StreamParams) /\ remote_streams_ \in Seq(StreamParams)
      BY <2>1, ContentStreams DEF Streams, IInv, Typed
    <3> QED
      BY <1>1, <3>1, UpdateRemoteSettled
  <2>3. ch' = ch \/ \E asked, crit, then : RegisterRtpDemuxerSink_w(asked, u, crit, then)
    BY <1>9 DEF BeginStreams, Streams
  <2> HIDE DEF u
  <2> QED
    BY <1>3, <1>5, <2>2, <2>3
<1>10. CASE FinishLocal
  <2> DEFINE u == UpdateLocalStreams(ch, Streams)
             set == SetSend(u, IsReadyToSendMedia_w)
  <2>1. wpc.then.content \in LocalContents
    BY <1>10 DEF IInv, Typed, WorkerStates, Idle, Then, Runs, FinishLocal
  <2>2. KeptSettled(u)
    <3>1. Streams \in Seq(StreamParams) /\ local_streams_ \in Seq(StreamParams)
      BY <2>1, ContentStreams DEF Streams, IInv, Typed
    <3> QED
      BY <1>1, <3>1, UpdateLocalSettled
  <2>3. ch' = set \/ ch' = u \/ ch' = ch
    BY <1>10 DEF FinishLocal, UpdateMediaSendRecvState_w, Streams
  <2> HIDE DEF u
  <2>4. Settled(set)
    BY <1>2, <2>2, SetSendSettled
  <2> HIDE DEF set
  <2> QED
    BY <1>2, <1>3, <2>2, <2>3, <2>4, Zenon
<1>11. CASE FinishRemote \/ EnableMedia \/ FirstWritable \/ BeginClose
  <2> DEFINE set == SetSend(ch, IsReadyToSendMedia_w)
  <2>1. ch' = set \/ ch' = ch
    BY <1>11 DEF FinishRemote, EnableMedia, FirstWritable, BeginClose, UpdateMediaSendRecvState_w
  <2>2. Settled(set)
    BY <1>1, SetSendSettled
  <2> HIDE DEF set
  <2> QED
    BY <1>3, <2>1, <2>2, Zenon
<1>12. CASE SetPayloadTypeDemuxingEnabled
  <2> DEFINE c == IF Head(tasks).to THEN ch ELSE ResetUnsignaledRecvStream(ch)
  <2>1. KeptSettled(c)
    BY <1>1, ResetTame, TameItself, ResetSettled DEF KeptSettled
  <2>2. ch' = ch \/ \E asked, crit, then : RegisterRtpDemuxerSink_w(asked, c, crit, then)
    BY <1>12 DEF SetPayloadTypeDemuxingEnabled
  <2> HIDE DEF c
  <2> QED
    BY <1>3, <1>5, <2>1, <2>2
<1>13. CASE SetDefault
  <2>1. ch' = SetDefaultSink(ch, "sink") \/ ch' = SetBaseMinimumPlayoutDelayMs(ch, 0, 1)
    BY <1>13 DEF SetDefault
  <2>2. Settled(SetDefaultSink(ch, "sink")) /\ Settled(SetBaseMinimumPlayoutDelayMs(ch, 0, 1))
    BY <1>1, SetDefaultSinkSettled, SetDefaultDelaySettled
  <2> QED
    BY <2>1, <2>2, Zenon
<1>14. CASE CriteriaComplete \/ Cooled \/ FinishClose
  <2>1. \/ ch' = [ch EXCEPT !.pending_criteria = @ - 1] \/ ch' = [ch EXCEPT !.cooldown = FALSE]
        \/ ch' = [ch EXCEPT !.receive_streams_ = <<>>, !.receive_ssrcs_ = {},
                            !.send_streams_ = <<>>, !.send_ssrcs_ = {}]
    BY <1>14 DEF CriteriaComplete, Cooled, FinishClose
  <2>2. Alike(ch, ch')
    <3>1. CASE ch' = [ch EXCEPT !.pending_criteria = @ - 1]
      BY <1>1, <3>1 DEF Alike, Fields
    <3>2. CASE ch' = [ch EXCEPT !.cooldown = FALSE]
      BY <1>1, <3>2 DEF Alike, Fields
    <3>3. CASE ch' = [ch EXCEPT !.receive_streams_ = <<>>, !.receive_ssrcs_ = {},
                                !.send_streams_ = <<>>, !.send_ssrcs_ = {}]
      <4>1. ch'.receive_streams_ = <<>> /\ ch'.send_streams_ = <<>>
        BY <1>1, <3>3 DEF Fields
      <4>2. DOMAIN ch'.receive_streams_ = {} /\ DOMAIN ch'.send_streams_ = {}
        BY <4>1
      <4>3. /\ ch'.send_codec_ = ch.send_codec_ /\ ch'.negotiated_codecs_ = ch.negotiated_codecs_
            /\ ch'.sending_ = ch.sending_ /\ ch'.reduced_size = ch.reduced_size
            /\ ch'.recv_codecs_ = ch.recv_codecs_
            /\ ch'.recv_flexfec_payload_type_ = ch.recv_flexfec_payload_type_
            /\ ch'.default_sink_ = ch.default_sink_ /\ ch'.default_delay = ch.default_delay
        BY <1>1, <3>3 DEF Fields
      <4> QED
        BY <4>2, <4>3 DEF Alike
    <3> QED
      BY <2>1, <3>1, <3>2, <3>3
  <2> QED
    BY <2>2, AlikeSettled
<1>15. CASE ReceivePacket
  <2>1. ch' = OnPacketReceived(ch, Packet(Head(tasks).id))
    BY <1>15 DEF ReceivePacket
  <2>2. Settled(OnPacketReceived(ch, Packet(Head(tasks).id)))
    BY <1>1, PacketSettled
  <2> QED
    BY <2>1, <2>2, Zenon
<1> QED
  BY <1>6, <1>7, <1>8, <1>9, <1>10, <1>11, <1>12, <1>13, <1>14, <1>15 DEF Next, Worker

\* When every description of the other side has a codec that this side can send (without
\* one the code makes send streams from a codec that is not set, webrtc_video_engine.cc:2779):
\* whatever order descriptions, sinks, delays and packets come in, there is at most one
\* default stream and it has the sink and the delay set for such streams, and every stream,
\* made before or after, has the configuration that the channel has now.
THEOREM StreamsAreAsConfigured ==
  ASSUME BufferUnknown = FALSE, CommonCodecs
  PROVE  Spec => []StreamsFollowChannel
<1>1. Settled(ch) => StreamsFollowChannel
  <2> SUFFICES ASSUME Settled(ch)
               PROVE  StreamsFollowChannel
    OBVIOUS
  <2>1. Cardinality(Defaults(ch)) <= 1
    <3>1. CASE Defaults(ch) = {}
      <4>1. Cardinality(Defaults(ch)) = 0
        BY <3>1, FS_EmptySet
      <4> QED
        BY <4>1
    <3>2. CASE Defaults(ch) # {}
      <4>1. PICK s \in Defaults(ch) : TRUE
        BY <3>2
      <4>2. Defaults(ch) = {s}
        BY <4>1 DEF Settled, IsDefaultOf
      <4>3. Cardinality({s}) = 1
        BY FS_Singleton
      <4>4. Cardinality(Defaults(ch)) = 1
        BY <4>2, <4>3, Zenon
      <4> QED
        BY <4>4
    <3> QED
      BY <3>1, <3>2
  <2>2. \A s \in Defaults(ch) : LET r == ch.receive_streams_[s]
                               IN  r.sink = ch.default_sink_ /\ r.delay = ch.default_delay
    BY DEF Settled, IsDefaultOf
  <2>3. \A s \in DOMAIN ch.receive_streams_ :
          LET r == ch.receive_streams_[s]
          IN  /\ [r.config EXCEPT !.nack = 0] = [ConfigureCodecs(ch.recv_codecs_) EXCEPT !.nack = 0]
              /\ r.reduced_size = ch.reduced_size /\ r.flexfec = ch.recv_flexfec_payload_type_
    BY DEF Settled, ReceivesAs, Plain
  <2>4. \A s \in DOMAIN ch.send_streams_ :
          LET t == ch.send_streams_[s]
          IN  /\ t.codec = ch.send_codec_ /\ t.sending = ch.sending_
              /\ t.reduced_size = ch.reduced_size /\ Sender!IsInCall(t)
    BY DEF Settled, SendsAs
  <2> QED
    BY <2>1, <2>2, <2>3, <2>4 DEF StreamsFollowChannel
<1>2. IInv /\ Settled(ch) /\ [Next]_vars => Settled(ch)'
  BY SettledStep
<1> QED
  BY <1>1, <1>2, InitSettled, ChannelInv, PTL DEF Spec

-----------------------------------------------------------------------------
(* The streams that are signalled.                                          *)

Signalled(c) == DOMAIN c.receive_streams_ \ Defaults(c)

LEMMA DescribedStream ==
  ASSUME NEW sp \in Described
  PROVE  sp \in StreamParams /\ sp.ssrcs # <<>>
<1>1. PICK c \in RemoteContents : sp \in Range(c.streams)
  BY DEF Described
<1>2. c.streams \in Seq(StreamParams)
  BY ContentStreams
<1> QED
  BY <1>1, <1>2 DEF Described, Range

LEMMA StreamDescribed ==
  ASSUME NEW c \in RemoteContents, NEW i \in DOMAIN c.streams, c.streams[i].ssrcs # <<>>
  PROVE  c.streams[i] \in Described
BY DEF Described, Range

\* A signalled stream is one of a description, a default one has the SSRC of a packet.
AsGiven(c) ==
  /\ \A s \in Signalled(c) : c.receive_streams_[s].params \in Described
  /\ \A s \in Defaults(c) : s \in MediaSsrcs /\ Ssrcs(c.receive_streams_[s].params) = {s}

Firsts(streams) == {First(streams[i]) : i \in {j \in DOMAIN streams : streams[j].ssrcs # <<>>}}

-----------------------------------------------------------------------------
(* Calls that leave the signalled streams as they are.                      *)

Spares(c, d) ==
  /\ Signalled(d) = Signalled(c) /\ Defaults(d) \subseteq Defaults(c)
  /\ \A s \in DOMAIN d.receive_streams_ : d.receive_streams_[s].params = c.receive_streams_[s].params

LEMMA SparesGiven ==
  ASSUME NEW c, NEW d, AsGiven(c), Spares(c, d)
  PROVE  AsGiven(d) /\ Signalled(d) = Signalled(c)
BY DEF AsGiven, Spares, Signalled, Defaults

LEMMA SparesItself ==
  ASSUME NEW c
  PROVE  Spares(c, c)
BY DEF Spares

LEMMA SparesAgain ==
  ASSUME NEW c, NEW d, NEW e, Spares(c, d), Spares(d, e)
  PROVE  Spares(c, e)
<1>1. DOMAIN e.receive_streams_ \subseteq DOMAIN d.receive_streams_
  BY DEF Spares, Signalled, Defaults
<1> QED
  BY <1>1 DEF Spares

LEMMA SparesSame ==
  ASSUME NEW c, NEW d, d.receive_streams_ = c.receive_streams_
  PROVE  Spares(c, d)
BY DEF Spares, Signalled, Defaults

LEMMA SparesOk ==
  ASSUME NEW c, NEW d, DOMAIN d = Fields, Spares(c, d), NEW b
  PROVE  Spares(c, Ok(d, b))
<1>1. Ok(d, b).receive_streams_ = d.receive_streams_
  BY DEF Ok, Fields
<1> QED
  BY <1>1, SparesSame, SparesAgain

LEMMA SameSpares ==
  ASSUME NEW c, NEW d, Same(c, d)
  PROVE  Spares(c, d)
BY DEF Same, Spares, Signalled, Defaults

LEMMA SetLocalSsrcSpares ==
  ASSUME NEW c, Sound(c), NEW ssrc
  PROVE  Spares(c, SetLocalSsrcOnAll(c, ssrc))
<1> DEFINE d == EachStream(c, LAMBDA r : [r EXCEPT !.local_ssrc = ssrc])
<1>1. Same(c, d)
  BY DEF Same, EachStream, Sound, Shape, Fields
<1>2. Spares(c, d) /\ Sound(d)
  BY <1>1, SameSpares, SameTame DEF Tame
<1>3. SetLocalSsrcOnAll(c, ssrc) = RecreateAll(d, c)
  BY DEF SetLocalSsrcOnAll
<1> HIDE DEF d
<1>4. SetLocalSsrcOnAll(c, ssrc) = d
  BY <1>2, <1>3, EachStreamSame
<1> QED
  BY <1>2, <1>4

LEMMA SetFeedbackSpares ==
  ASSUME NEW c, Sound(c)
  PROVE  Spares(c, SetFeedbackParametersOnAll(c))
<1> DEFINE d == EachStream(c, LAMBDA r : [r EXCEPT !.reduced_size = c.reduced_size,
                                                   !.config.nack = NackOf(c.send_codec_[1])])
<1>1. Same(c, d)
  BY DEF Same, EachStream, Sound, Shape, Fields
<1>2. Spares(c, d) /\ Sound(d)
  BY <1>1, SameSpares, SameTame DEF Tame
<1>3. SetFeedbackParametersOnAll(c) = RecreateAll(d, c)
  BY DEF SetFeedbackParametersOnAll
<1> HIDE DEF d
<1>4. SetFeedbackParametersOnAll(c) = d
  BY <1>2, <1>3, EachStreamSame
<1> QED
  BY <1>2, <1>4

LEMMA SetSendSpares ==
  ASSUME NEW c, Sound(c), NEW send
  PROVE  Spares(c, SetSend(c, send))
<1>1. SetSend(c, send).receive_streams_ = c.receive_streams_
  BY DEF SetSend, Ok, Sound, Shape, Fields
<1> QED
  BY <1>1, SparesSame

LEMMA SetSendParametersSpares ==
  ASSUME NEW c, Sound(c), NEW params
  PROVE  Spares(c, SetSendParameters(c, params))
<1> DEFINE rtcp == [c EXCEPT !.reduced_size = params.reduced_size]
           changed == GetChangedSendParameters(c, params)
           set == [rtcp EXCEPT
                     !.negotiated_codecs_ = IF changed.negotiated = <<>> THEN @ ELSE changed.negotiated[1],
                     !.send_codec_ = IF changed.send_codec = <<>> THEN @ ELSE changed.send_codec,
                     !.send_streams_ = [s \in DOMAIN @ |-> Sender!SetSendParameters(@[s], changed)]]
<1>1. Same(c, rtcp)
  BY DEF Same, Sound, Shape, Fields
<1>2. Sound(rtcp) /\ Spares(c, rtcp)
  BY <1>1, SameTame, SameSpares DEF Tame
<1>3. Same(rtcp, set)
  <2> HIDE DEF rtcp, changed
  <2> QED
    BY <1>2, SenderKeepsParams DEF Same, Sound, Shape, Fields
<1>4. \/ ApplyChangedParams(rtcp, changed) = set
      \/ ApplyChangedParams(rtcp, changed) = SetFeedbackParametersOnAll(set)
  BY DEF ApplyChangedParams
<1>5. \/ SetSendParameters(c, params) = Ok(ApplyChangedParams(rtcp, changed), TRUE)
      \/ SetSendParameters(c, params) = Ok(c, FALSE)
  BY DEF SetSendParameters
<1> HIDE DEF rtcp, changed, set
<1>6. Sound(set) /\ Spares(c, set) /\ DOMAIN set = Fields /\ DOMAIN c = Fields
  <2>1. Tame(rtcp, set)
    BY <1>2, <1>3, SameTame
  <2>2. Spares(c, set)
    BY <1>2, <1>3, SameSpares, SparesAgain
  <2> QED
    BY <2>1, <2>2 DEF Tame, Sound, Shape
<1>7. /\ Spares(c, SetFeedbackParametersOnAll(set)) /\ DOMAIN SetFeedbackParametersOnAll(set) = Fields
  BY <1>6, SetFeedbackSpares, SetFeedbackTame, SparesAgain DEF Tame, Sound, Shape
<1>8. Spares(c, Ok(set, TRUE)) /\ Spares(c, Ok(SetFeedbackParametersOnAll(set), TRUE))
      /\ Spares(c, Ok(c, FALSE))
  BY <1>6, <1>7, SparesOk, SparesItself
<1> QED
  BY <1>4, <1>5, <1>8, Zenon

LEMMA SetRecvParametersSpares ==
  ASSUME NEW c, Sound(c), NEW params
  PROVE  Spares(c, SetRecvParameters(c, params))
<1> DEFINE set == RecvCodecs(c, params)
           Configure(r) == [r EXCEPT !.config = IF set.recv_codecs_ # c.recv_codecs_
                                                THEN ConfigureCodecs(set.recv_codecs_) ELSE @,
                                     !.flexfec = set.recv_flexfec_payload_type_]
           d == EachStream(set, Configure)
<1>1. Same(c, set)
  BY DEF Same, Sound, Shape, Fields, RecvCodecs
<1>2. Sound(set) /\ Spares(c, set)
  BY <1>1, SameTame, SameSpares DEF Tame
<1>3. Same(set, d)
  <2> HIDE DEF set
  <2> QED
    BY <1>2 DEF Same, Sound, Shape, Fields, EachStream
<1>4. Sound(d) /\ Spares(c, d)
  BY <1>2, <1>3, SameTame, SameSpares, SparesAgain DEF Tame
<1>5. SetRecvParameters(c, params) = Ok(RecreateAll(d, c), TRUE) \/ SetRecvParameters(c, params) = Ok(c, FALSE)
  BY DEF SetRecvParameters
<1> HIDE DEF set, d
<1>6. RecreateAll(d, c) = d /\ DOMAIN d = Fields /\ DOMAIN c = Fields
  BY <1>4, EachStreamSame DEF Sound, Shape
<1>7. Spares(c, Ok(d, TRUE)) /\ Spares(c, Ok(c, FALSE))
  BY <1>4, <1>6, SparesOk, SparesItself
<1> QED
  BY <1>5, <1>6, <1>7, Zenon

LEMMA SetDefaultsSpare ==
  ASSUME NEW c, Sound(c), NEW to
  PROVE  Spares(c, SetDefaultSink(c, to)) /\ Spares(c, SetBaseMinimumPlayoutDelayMs(c, 0, to))
BY SetDefaultSinkSame, SetDelaySame, SameSpares

LEMMA AddSendSpares ==
  ASSUME NEW c, Sound(c), NEW sp \in StreamParams
  PROVE  Spares(c, AddSendStream(c, sp))
<1> DEFINE first == First(sp)
           stream == Sender!SetSend(Sender!WebRtcVideoSendStream(sp, c.send_codec_, c.reduced_size), c.sending_)
           added == [c EXCEPT !.send_ssrcs_ = @ \cup Ssrcs(sp), !.send_streams_ = With(@, first, stream)]
           report == [added EXCEPT !.rtcp_receiver_report_ssrc_ = first]
           e == EachStream(report, LAMBDA r : [r EXCEPT !.local_ssrc = first])
           d == AddSendStream(c, sp)
<1>1. d = Ok(c, FALSE) \/ d = Ok(SetLocalSsrcOnAll(report, first), TRUE) \/ d = Ok(added, TRUE)
  BY DEF AddSendStream
<1> HIDE DEF stream, first
<1>2. /\ DOMAIN added = Fields /\ added.receive_streams_ = c.receive_streams_ /\ added.buffered = FALSE
      /\ DOMAIN c = Fields
  BY DEF Sound, Shape, Fields
<1> HIDE DEF added
<1>3. DOMAIN report = Fields /\ report.receive_streams_ = c.receive_streams_ /\ report.buffered = FALSE
  BY <1>2 DEF Fields
<1> HIDE DEF report
<1>4. /\ DOMAIN e = Fields /\ e.buffered = FALSE
      /\ DOMAIN e.receive_streams_ = DOMAIN c.receive_streams_
      /\ \A s \in DOMAIN c.receive_streams_ :
           e.receive_streams_[s] = [c.receive_streams_[s] EXCEPT !.local_ssrc = first]
  BY <1>3 DEF EachStream, Fields
<1>5. Spares(c, e)
  <2> HIDE DEF e
  <2> QED
    BY <1>4, ZenonT(30) DEF Spares, Signalled, Defaults, Sound, Shape
<1>6. SetLocalSsrcOnAll(report, first) = e
  BY <1>4 DEF SetLocalSsrcOnAll, RecreateAll
<1> HIDE DEF d, e
<1>7. Spares(c, Ok(c, FALSE)) /\ Spares(c, Ok(e, TRUE)) /\ Spares(c, Ok(added, TRUE))
  BY <1>2, <1>4, <1>5, SparesOk, SparesItself, SparesSame
<1>8. Spares(c, d)
  BY <1>1, <1>6, <1>7, Zenon
<1> QED
  BY <1>8 DEF d

LEMMA RemoveSendSpares ==
  ASSUME NEW c, Sound(c), NEW ssrc
  PROVE  Spares(c, RemoveSendStream(c, ssrc))
<1> DEFINE left == [c EXCEPT !.send_streams_ = Without(@, ssrc),
                             !.send_ssrcs_ = @ \ Ssrcs(c.send_streams_[ssrc].params)]
           to == IF DOMAIN left.send_streams_ = {} THEN DefaultReportSsrc
                 ELSE CHOOSE s \in DOMAIN left.send_streams_ :
                        \A t \in DOMAIN left.send_streams_ : s <= t
           report == [left EXCEPT !.rtcp_receiver_report_ssrc_ = to]
           e == EachStream(report, LAMBDA r : [r EXCEPT !.local_ssrc = to])
           d == RemoveSendStream(c, ssrc)
<1>1. d = Ok(c, FALSE) \/ d = Ok(SetLocalSsrcOnAll(report, to), TRUE) \/ d = Ok(left, TRUE)
  BY DEF RemoveSendStream
<1> HIDE DEF to
<1>2. /\ DOMAIN left = Fields /\ left.receive_streams_ = c.receive_streams_ /\ left.buffered = FALSE
      /\ DOMAIN c = Fields
  BY DEF Sound, Shape, Fields
<1> HIDE DEF left
<1>3. DOMAIN report = Fields /\ report.receive_streams_ = c.receive_streams_ /\ report.buffered = FALSE
  BY <1>2 DEF Fields
<1> HIDE DEF report
<1>4. /\ DOMAIN e = Fields /\ e.buffered = FALSE
      /\ DOMAIN e.receive_streams_ = DOMAIN c.receive_streams_
      /\ \A s \in DOMAIN c.receive_streams_ :
           e.receive_streams_[s] = [c.receive_streams_[s] EXCEPT !.local_ssrc = to]
  BY <1>3 DEF EachStream, Fields
<1>5. Spares(c, e)
  <2> HIDE DEF e
  <2> QED
    BY <1>4, ZenonT(30) DEF Spares, Signalled, Defaults, Sound, Shape
<1>6. SetLocalSsrcOnAll(report, to) = e
  BY <1>4 DEF SetLocalSsrcOnAll, RecreateAll
<1> HIDE DEF d, e
<1>7. Spares(c, Ok(c, FALSE)) /\ Spares(c, Ok(e, TRUE)) /\ Spares(c, Ok(left, TRUE))
  BY <1>2, <1>4, <1>5, SparesOk, SparesItself, SparesSame
<1>8. Spares(c, d)
  BY <1>1, <1>6, <1>7, Zenon
<1> QED
  BY <1>8 DEF d

LEMMA ResetSpares ==
  ASSUME NEW c, Sound(c)
  PROVE  Spares(c, ResetUnsignaledRecvStream(c))
<1>1. ResetUnsignaledRecvStream(c).receive_streams_
        = [s \in DOMAIN c.receive_streams_ \ Defaults(c) |-> c.receive_streams_[s]]
  BY DEF ResetUnsignaledRecvStream, DeleteReceiveStreams, Sound, Shape, Fields
<1> QED
  BY <1>1 DEF Spares, Signalled, Defaults

LEMMA RegisterSpares ==
  ASSUME NEW c, DOMAIN c = Fields, NEW asked, NEW crit, NEW then,
         RegisterRtpDemuxerSink_w(asked, c, crit, then)
  PROVE  Spares(c, ch')
<1>1. ch'.receive_streams_ = c.receive_streams_
  BY DEF RegisterRtpDemuxerSink_w, Fields
<1> QED
  BY <1>1, SparesSame

-----------------------------------------------------------------------------
(* Calls that change which streams there are.                               *)

LEMMA FirstIs ==
  ASSUME NEW sp \in StreamParams, sp.ssrcs # <<>>
  PROVE  First(sp) \in Ssrcs(sp)
<1>1. sp.ssrcs \in Seq(Int)
  BY DEF StreamParams
<1>2. 1 \in DOMAIN sp.ssrcs /\ Head(sp.ssrcs) = sp.ssrcs[1]
  BY <1>1
<1> QED
  BY <1>2 DEF Ssrcs, First, Range

LEMMA RemoveSignalled ==
  ASSUME NEW c, Sound(c), NEW ssrc
  PROVE  LET d == RemoveRecvStream(c, ssrc)
         IN  /\ Signalled(d) = Signalled(c) \ {ssrc} /\ Defaults(d) = Defaults(c) \ {ssrc}
             /\ \A s \in DOMAIN d.receive_streams_ : d.receive_streams_[s] = c.receive_streams_[s]
<1> DEFINE d == RemoveRecvStream(c, ssrc)
<1>1. CASE ssrc \in DOMAIN c.receive_streams_
  <2>1. d.receive_streams_ = Without(c.receive_streams_, ssrc)
    BY <1>1 DEF RemoveRecvStream, DeleteReceiveStream, Ok, Sound, Shape, Fields
  <2> HIDE DEF d
  <2>2. /\ DOMAIN d.receive_streams_ = DOMAIN c.receive_streams_ \ {ssrc}
        /\ \A s \in DOMAIN d.receive_streams_ : d.receive_streams_[s] = c.receive_streams_[s]
    BY <2>1 DEF Without
  <2> QED
    BY <2>2 DEF d, Signalled, Defaults
<1>2. CASE ssrc \notin DOMAIN c.receive_streams_
  <2>1. d.receive_streams_ = c.receive_streams_
    BY <1>2 DEF RemoveRecvStream, Ok, Sound, Shape, Fields
  <2> HIDE DEF d
  <2> QED
    BY <1>2, <2>1 DEF d, Signalled, Defaults
<1> QED
  BY <1>1, <1>2

\* What becomes of the streams of c when first goes, or a stream for sp comes.
Goes(c, d, first) ==
  /\ DOMAIN d.receive_streams_ = DOMAIN c.receive_streams_ \ {first}
  /\ \A s \in DOMAIN c.receive_streams_ \ {first} : d.receive_streams_[s] = c.receive_streams_[s]

Comes(c, d, sp, default) ==
  /\ DOMAIN d.receive_streams_ = DOMAIN c.receive_streams_ \cup {First(sp)}
  /\ d.receive_streams_[First(sp)].params = sp /\ d.receive_streams_[First(sp)].default = default
  /\ \A s \in DOMAIN c.receive_streams_ \ {First(sp)} : d.receive_streams_[s] = c.receive_streams_[s]

Clashes(c, sp) ==
  \E s \in DOMAIN c.receive_streams_ \ {First(sp)} : Ssrcs(sp) \cap Ssrcs(c.receive_streams_[s].params) # {}

\* What AddRecvStreamAs makes of the streams.  None is made over another of the same
\* SSRC, but a signalled one takes the place of a default one.
LEMMA AddRecvStreams ==
  ASSUME NEW c, Sound(c), NEW sp, sp.ssrcs # <<>>, NEW default \in BOOLEAN
  PROVE  LET d     == AddRecvStreamAs(c, sp, default)
             first == First(sp)
         IN  \/ /\ d.receive_streams_ = c.receive_streams_
                /\ \/ ~ValidateStreamParams(sp)
                   \/ first \in Signalled(c)
                   \/ default /\ first \in DOMAIN c.receive_streams_
             \/ /\ Goes(c, d, first)
                /\ Clashes(c, sp)
                /\ first \notin Signalled(c)
                /\ first \in DOMAIN c.receive_streams_ => ~default
             \/ /\ Comes(c, d, sp, default)
                /\ first \notin Signalled(c)
                /\ first \in DOMAIN c.receive_streams_ => ~default
<1> DEFINE first == First(sp)
           taken == first \in DOMAIN c.receive_streams_
           freed == IF taken THEN DeleteReceiveStream(c, first) ELSE c
           r == WebRtcVideoReceiveStream(freed, sp, default)
           added == [freed EXCEPT !.receive_ssrcs_ = @ \cup Ssrcs(sp),
                                  !.receive_streams_ = With(@, first, r)]
           d == AddRecvStreamAs(c, sp, default)
<1>1. r.params = sp /\ r.default = default
  BY DEF WebRtcVideoReceiveStream
<1>2. /\ DOMAIN freed = Fields /\ Goes(c, freed, first) /\ freed.buffered = FALSE
      /\ freed.receive_ssrcs_ \subseteq c.receive_ssrcs_
      /\ taken => freed.receive_ssrcs_ \cap Ssrcs(c.receive_streams_[first].params) = {}
  <2>1. CASE taken
    BY <2>1 DEF DeleteReceiveStream, Without, Sound, Shape, Fields, Goes
  <2>2. CASE ~taken
    BY <2>2 DEF Sound, Shape, Goes
  <2> QED
    BY <2>1, <2>2
<1>3. Ssrcs(sp) \cap freed.receive_ssrcs_ # {} => Clashes(c, sp)
  <2> HIDE DEF freed
  <2>1. c.receive_ssrcs_ = UNION {Ssrcs(c.receive_streams_[s].params) : s \in DOMAIN c.receive_streams_}
    BY DEF Sound, Books, Exact
  <2> QED
    BY <1>2, <2>1 DEF Clashes
<1> HIDE DEF r, freed
<1>4. /\ added.receive_streams_ = With(freed.receive_streams_, first, r)
      /\ DOMAIN added = Fields /\ added.buffered = FALSE
  BY <1>2 DEF Fields
<1>5. RecreateWebRtcVideoStream(added, first) = added
  BY <1>4 DEF RecreateWebRtcVideoStream, BackfillBufferedPackets
<1>6. /\ Ok(c, FALSE).receive_streams_ = c.receive_streams_
      /\ Ok(freed, FALSE).receive_streams_ = freed.receive_streams_
      /\ Ok(added, TRUE).receive_streams_ = With(freed.receive_streams_, first, r)
  BY <1>2, <1>4 DEF Ok, Sound, Shape, Fields
<1>7. first \in Signalled(c) <=> taken /\ ~c.receive_streams_[first].default
  BY DEF Signalled, Defaults
<1>8. \/ /\ d = Ok(c, FALSE)
         /\ ~ValidateStreamParams(sp) \/ first \in Signalled(c) \/ (default /\ taken)
      \/ d = Ok(freed, FALSE) /\ Clashes(c, sp) /\ first \notin Signalled(c) /\ (taken => ~default)
      \/ d = Ok(added, TRUE) /\ first \notin Signalled(c) /\ (taken => ~default)
  <2> HIDE DEF added, taken, first
  <2>1. CASE ~ValidateStreamParams(sp)
    BY <2>1 DEF AddRecvStreamAs
  <2>2. CASE ValidateStreamParams(sp) /\ taken /\ (default \/ ~c.receive_streams_[first].default)
    <3>1. d = Ok(c, FALSE)
      BY <2>2 DEF AddRecvStreamAs, taken, first
    <3> QED
      BY <1>7, <2>2, <3>1
  <2>3. CASE ValidateStreamParams(sp) /\ ~(taken /\ (default \/ ~c.receive_streams_[first].default))
    <3>1. d = IF ValidateReceiveSsrcAvailability(freed, sp)
              THEN Ok(RecreateWebRtcVideoStream(added, first), TRUE) ELSE Ok(freed, FALSE)
      BY <2>3 DEF AddRecvStreamAs, taken, added, freed, r, first
    <3>2. first \notin Signalled(c) /\ (taken => ~default)
      BY <1>7, <2>3
    <3> QED
      BY <1>3, <1>5, <3>1, <3>2 DEF ValidateReceiveSsrcAvailability
  <2> QED
    BY <2>1, <2>2, <2>3
<1>9. \A e : e.receive_streams_ = freed.receive_streams_ => Goes(c, e, first)
  BY <1>2 DEF Goes
<1>10. \A e : e.receive_streams_ = With(freed.receive_streams_, first, r) => Comes(c, e, sp, default)
  BY <1>1, <1>2 DEF Goes, Comes, With
<1> HIDE DEF d, added, first
<1>11. CASE d = Ok(c, FALSE) /\ (~ValidateStreamParams(sp) \/ first \in Signalled(c) \/ (default /\ taken))
  BY <1>6, <1>11 DEF d, first
<1>12. CASE d = Ok(freed, FALSE) /\ Clashes(c, sp) /\ first \notin Signalled(c) /\ (taken => ~default)
  <2>1. Goes(c, d, first)
    BY <1>6, <1>9, <1>12
  <2> QED
    BY <1>12, <2>1 DEF d, first
<1>13. CASE d = Ok(added, TRUE) /\ first \notin Signalled(c) /\ (taken => ~default)
  <2>1. Comes(c, d, sp, default)
    BY <1>6, <1>10, <1>13
  <2> QED
    BY <1>13, <2>1 DEF d, first
<1> QED
  BY <1>8, <1>11, <1>12, <1>13

LEMMA AddGiven ==
  ASSUME ProperStreams, NEW c, Sound(c), AsGiven(c), NEW sp \in Described,
         \A s \in Signalled(c) : s = First(sp) \/ Ssrcs(sp) \cap Ssrcs(c.receive_streams_[s].params) = {}
  PROVE  LET d == AddRecvStream(c, sp)
         IN  Signalled(d) = Signalled(c) \cup {First(sp)} /\ AsGiven(d)
<1> DEFINE first == First(sp)
           d == AddRecvStream(c, sp)
<1>1. /\ ValidateStreamParams(sp) /\ Ssrcs(sp) \cap MediaSsrcs \subseteq {first}
      /\ sp.ssrcs # <<>>
  BY DescribedStream DEF ProperStreams
<1>2. ~Clashes(c, sp)
  <2> SUFFICES ASSUME NEW s \in DOMAIN c.receive_streams_ \ {first}
               PROVE  Ssrcs(sp) \cap Ssrcs(c.receive_streams_[s].params) = {}
    BY DEF Clashes
  <2>1. CASE s \in Signalled(c)
    BY <2>1
  <2>2. CASE s \in Defaults(c)
    <3>1. s \in MediaSsrcs /\ Ssrcs(c.receive_streams_[s].params) = {s}
      BY <2>2 DEF AsGiven
    <3> QED
      BY <1>1, <3>1
  <2> QED
    BY <2>1, <2>2 DEF Signalled
<1>3. \/ d.receive_streams_ = c.receive_streams_ /\ first \in Signalled(c)
      \/ Comes(c, d, sp, FALSE) /\ first \notin Signalled(c)
  <2>1. d = AddRecvStreamAs(c, sp, FALSE)
    BY DEF AddRecvStream
  <2> HIDE DEF d
  <2> QED
    BY <1>1, <1>2, <2>1, AddRecvStreams
<1> HIDE DEF d
<1>4. CASE d.receive_streams_ = c.receive_streams_ /\ first \in Signalled(c)
  <2>1. Signalled(d) = Signalled(c) /\ AsGiven(d)
    BY <1>4, SparesSame, SparesGiven
  <2> QED
    BY <1>4, <2>1 DEF d
<1>5. CASE Comes(c, d, sp, FALSE) /\ first \notin Signalled(c)
  <2>1. Signalled(d) = Signalled(c) \cup {first} /\ Defaults(d) = Defaults(c) \ {first}
    BY <1>5 DEF Comes, Signalled, Defaults
  <2>2. \A s \in Signalled(d) : d.receive_streams_[s].params \in Described
    BY <1>5, <2>1 DEF Comes, Signalled, AsGiven
  <2>3. \A s \in Defaults(d) : s \in MediaSsrcs /\ Ssrcs(d.receive_streams_[s].params) = {s}
    BY <1>5, <2>1 DEF Comes, Defaults, AsGiven
  <2> QED
    BY <2>1, <2>2, <2>3 DEF d, AsGiven
<1> QED
  BY <1>3, <1>4, <1>5

LEMMA UnsignalledGiven ==
  ASSUME NEW c, Sound(c), AsGiven(c), NEW ssrc \in MediaSsrcs
  PROVE  LET d == OnUnsignalledSsrc(c, ssrc)
         IN  Signalled(d) = Signalled(c) /\ AsGiven(d)
<1> DEFINE old == CHOOSE s \in Defaults(c) : TRUE
           freed == IF Defaults(c) = {} THEN c ELSE RemoveRecvStream(c, old)
           sp == [c.unsignaled_stream_params_ EXCEPT !.ssrcs = <<ssrc>>]
           made == AddRecvStreamAs(freed, sp, TRUE)
           later == SetBaseMinimumPlayoutDelayMs(made, ssrc, made.default_delay)
           d == SetSink(later, ssrc, made.default_sink_)
<1>1. Sound(freed) /\ Signalled(freed) = Signalled(c) /\ AsGiven(freed)
  <2>1. CASE Defaults(c) = {}
    BY <2>1
  <2>2. CASE Defaults(c) # {}
    <3> DEFINE e == RemoveRecvStream(c, old)
    <3>1. old \in Defaults(c) /\ freed = e
      BY <2>2
    <3>2. old \notin Signalled(c)
      BY <3>1 DEF Signalled
    <3>3. /\ Signalled(e) = Signalled(c) \ {old} /\ Defaults(e) = Defaults(c) \ {old}
          /\ \A s \in DOMAIN e.receive_streams_ : e.receive_streams_[s] = c.receive_streams_[s]
      BY RemoveSignalled, ZenonT(30)
    <3>4. Sound(e)
      BY RemoveRecvTame DEF Tame
    <3> HIDE DEF e, old, freed
    <3>5. Spares(c, e)
      BY <3>2, <3>3 DEF Spares
    <3> QED
      BY <3>1, <3>4, <3>5, SparesGiven
  <2> QED
    BY <2>1, <2>2
<1>2. "ssrcs" \in DOMAIN sp /\ sp.ssrcs = <<ssrc>>
  BY DEF Sound, Shape
<1> HIDE DEF sp, freed
<1>3. sp.ssrcs # <<>> /\ First(sp) = ssrc /\ Ssrcs(sp) = {ssrc}
  BY <1>2 DEF First, Ssrcs, Range
<1>4. Sound(made)
  BY <1>1, <1>2, AddRecvAs
<1>5. \/ made.receive_streams_ = freed.receive_streams_
      \/ Goes(freed, made, ssrc) /\ ssrc \notin DOMAIN freed.receive_streams_
      \/ Comes(freed, made, sp, TRUE) /\ ssrc \notin DOMAIN freed.receive_streams_
  BY <1>1, <1>3, AddRecvStreams
<1>6. Signalled(made) = Signalled(freed) /\ AsGiven(made)
  <2> HIDE DEF made
  <2>1. CASE made.receive_streams_ = freed.receive_streams_
    BY <1>1, <2>1, SparesSame, SparesGiven
  <2>2. CASE Goes(freed, made, ssrc) /\ ssrc \notin DOMAIN freed.receive_streams_
    <3>1. Spares(freed, made)
      BY <2>2 DEF Goes, Spares, Signalled, Defaults
    <3> QED
      BY <1>1, <3>1, SparesGiven
  <2>3. CASE Comes(freed, made, sp, TRUE) /\ ssrc \notin DOMAIN freed.receive_streams_
    <3>1. Signalled(made) = Signalled(freed) /\ Defaults(made) = Defaults(freed) \cup {ssrc}
      BY <1>3, <2>3 DEF Comes, Signalled, Defaults
    <3>2. \A s \in Signalled(made) : made.receive_streams_[s].params \in Described
      BY <1>1, <1>3, <2>3, <3>1 DEF Comes, Signalled, AsGiven
    <3>3. \A s \in Defaults(made) : s \in MediaSsrcs /\ Ssrcs(made.receive_streams_[s].params) = {s}
      BY <1>1, <1>3, <2>3, <3>1 DEF Comes, Defaults, AsGiven
    <3> QED
      BY <3>1, <3>2, <3>3 DEF AsGiven
  <2> QED
    BY <1>5, <2>1, <2>2, <2>3
<1>7. d = OnUnsignalledSsrc(c, ssrc)
  BY DEF OnUnsignalledSsrc, freed, sp
<1> HIDE DEF made
<1>8. Sound(later) /\ Spares(made, later)
  BY <1>4, SetDelaySame, SameTame, SameSpares DEF Tame
<1> HIDE DEF later
<1>9. Spares(made, d)
  BY <1>8, SetSinkSame, SameSpares, SparesAgain
<1> HIDE DEF d
<1> QED
  BY <1>1, <1>6, <1>7, <1>9, SparesGiven

LEMMA PacketGiven ==
  ASSUME NEW c, Sound(c), AsGiven(c), NEW packet, packet.ssrc \in VideoSsrcs \cup {OtherSsrc},
         packet.rtx = (packet.ssrc \in RtxSsrcs)
  PROVE  LET d == OnPacketReceived(c, packet)
         IN  Signalled(d) = Signalled(c) /\ AsGiven(d)
<1> DEFINE told == OnUnsignalledSsrc(c, packet.ssrc)
           made == DeliverPacket(told, packet)
           hot == [made EXCEPT !.cooldown = TRUE]
           d == OnPacketReceived(c, packet)
<1>1. \/ d = DeliverPacket(c, packet)
      \/ d = hot /\ packet.ssrc \in MediaSsrcs
      \/ d = c
  <2>1. CASE CallKnows(c, packet.ssrc)
    BY <2>1 DEF OnPacketReceived, MakesDefault
  <2>2. CASE ~CallKnows(c, packet.ssrc) /\ MakesDefault(c, packet)
    BY <2>2 DEF OnPacketReceived, MakesDefault, MediaSsrcs
  <2>3. CASE ~CallKnows(c, packet.ssrc) /\ ~MakesDefault(c, packet)
    BY <2>3 DEF OnPacketReceived, Sound, Shape
  <2> QED
    BY <2>1, <2>2, <2>3
<1>2. \A e : Sound(e) => Spares(e, DeliverPacket(e, packet)) /\ DOMAIN DeliverPacket(e, packet) = Fields
  <2> SUFFICES ASSUME NEW e, Sound(e)
               PROVE  Spares(e, DeliverPacket(e, packet)) /\ DOMAIN DeliverPacket(e, packet) = Fields
    OBVIOUS
  <2>1. /\ DeliverPacket(e, packet).receive_streams_ = e.receive_streams_
        /\ DOMAIN DeliverPacket(e, packet) = Fields
    BY DEF DeliverPacket, Sound, Shape, Fields
  <2> QED
    BY <2>1, SparesSame
<1>3. ASSUME packet.ssrc \in MediaSsrcs
      PROVE  Signalled(hot) = Signalled(c) /\ AsGiven(hot)
  <2>1. Signalled(told) = Signalled(c) /\ AsGiven(told) /\ Sound(told)
    BY <1>3, UnsignalledGiven, UnsignalledSound
  <2> HIDE DEF told
  <2>2. Spares(told, made) /\ DOMAIN made = Fields
    BY <1>2, <2>1
  <2> HIDE DEF made
  <2>3. Spares(made, hot)
    <3>1. hot.receive_streams_ = made.receive_streams_
      BY <2>2 DEF Fields
    <3> QED
      BY <3>1, SparesSame
  <2> HIDE DEF hot
  <2> QED
    BY <2>1, <2>2, <2>3, SparesAgain, SparesGiven
<1>4. Signalled(DeliverPacket(c, packet)) = Signalled(c) /\ AsGiven(DeliverPacket(c, packet))
  BY <1>2, SparesGiven
<1> HIDE DEF hot, d
<1>5. Signalled(d) = Signalled(c) /\ AsGiven(d)
  BY <1>1, <1>3, <1>4
<1> QED
  BY <1>5 DEF d

-----------------------------------------------------------------------------
(* A description of this side: the receive streams stay.                    *)

KeptSpared(d) == Tame(ch, d) /\ Spares(ch, d)

LEMMA LocalStepsSpared ==
  ASSUME NEW c, KeptSpared(c), NEW sp \in StreamParams, NEW streams
  PROVE  KeptSpared(RemoveOldLocal(c, sp, streams)) /\ KeptSpared(AddNewLocal(c, sp))
<1>1. Sound(c) /\ Spares(ch, c) /\ "ssrcs" \in DOMAIN sp
  BY DEF KeptSpared, Tame, StreamParams
<1>2. Tame(ch, RemoveOldLocal(c, sp, streams)) /\ Tame(ch, AddNewLocal(c, sp))
  BY StepsTame DEF KeptSpared
<1>3. /\ Spares(ch, AddSendStream(c, sp)) /\ DOMAIN AddSendStream(c, sp) = Fields
      /\ \A s : Spares(ch, RemoveSendStream(c, s)) /\ DOMAIN RemoveSendStream(c, s) = Fields
  BY <1>1, AddSendSpares, RemoveSendSpares, AddSendTame, RemoveSendTame, SparesAgain DEF Tame, Sound, Shape
<1>4. Spares(ch, RemoveOldLocal(c, sp, streams))
  BY <1>1, <1>3, SparesOk DEF RemoveOldLocal
<1>5. Spares(ch, AddNewLocal(c, sp))
  BY <1>1, <1>3, SparesOk DEF AddNewLocal
<1> QED
  BY <1>2, <1>4, <1>5 DEF KeptSpared

LEMMA UpdateLocalSpares ==
  ASSUME Sound(ch), local_streams_ \in Seq(StreamParams), Streams \in Seq(StreamParams)
  PROVE  KeptSpared(UpdateLocalStreams(ch, Streams))
<1> DEFINE base == Ok(ch, TRUE)
           left == OldLocal!Folded(base, local_streams_)
<1>1. KeptSpared(base)
  BY TameItself, TameOk, SparesItself, SparesOk DEF KeptSpared, Sound, Shape
<1>2. KeptSpared(left)
  <2> DEFINE Values == OldLocal!Visited(base, local_streams_)
             Good == {c \in Values : KeptSpared(c)}
  <2>1. \A c : \A x \in StreamParams : KeptSpared(c) => KeptSpared(RemoveOldLocal(c, x, Streams))
    BY LocalStepsSpared
  <2> HIDE DEF base
  <2>2. /\ base \in Values => base \in Good
        /\ \A c \in Good : \A x \in StreamParams : RemoveOldLocal(c, x, Streams) \in Values => RemoveOldLocal(c, x, Streams) \in Good
    BY <1>1, <2>1
  <2> HIDE DEF Good
  <2>3. OldLocal!Folded(base, local_streams_) \in Good
    BY <2>2, OldLocal!FoldPreserves, Zenon
  <2> QED
    BY <2>3 DEF Good, left
<1>3. KeptSpared(NewLocal!Folded(left, Streams))
  <2> DEFINE Values == NewLocal!Visited(left, Streams)
             Good == {c \in Values : KeptSpared(c)}
  <2>1. \A c : \A x \in StreamParams : KeptSpared(c) => KeptSpared(AddNewLocal(c, x))
    BY LocalStepsSpared
  <2> HIDE DEF left
  <2>2. /\ left \in Values => left \in Good
        /\ \A c \in Good : \A x \in StreamParams : AddNewLocal(c, x) \in Values => AddNewLocal(c, x) \in Good
    BY <1>2, <2>1
  <2> HIDE DEF Good
  <2>3. NewLocal!Folded(left, Streams) \in Good
    BY <2>2, NewLocal!FoldPreserves, Zenon
  <2> QED
    BY <2>3 DEF Good
<1>4. left = FoldLeft(LAMBDA acc, sp : RemoveOldLocal(acc, sp, Streams), base, local_streams_)
  BY Zenon DEF OldLocal!Folded, OldLocal!Greatest, FoldLeft, MapThenFoldSet, Max
<1>5. NewLocal!Folded(left, Streams) = FoldLeft(AddNewLocal, left, Streams)
  <2> HIDE DEF left
  <2> QED
    BY Zenon DEF NewLocal!Folded, NewLocal!Greatest, FoldLeft, MapThenFoldSet, Max
<1> QED
  BY <1>3, <1>4, <1>5 DEF UpdateLocalStreams

-----------------------------------------------------------------------------
(* A description of the other side: its streams are signalled afterwards.   *)

Gone(streams, sp) == sp.ssrcs # <<>> /\ ~Known(streams, sp)

LEMMA RemoveOldGiven ==
  ASSUME NEW c, Sound(c), AsGiven(c), NEW sp \in StreamParams, NEW streams
  PROVE  LET d == RemoveOld(c, sp, streams)
         IN  /\ Sound(d) /\ AsGiven(d)
             /\ Signalled(d) = IF Gone(streams, sp) THEN Signalled(c) \ {First(sp)} ELSE Signalled(c)
<1> DEFINE d == RemoveOld(c, sp, streams)
<1>1. Sound(d)
  <2>1. CASE sp.ssrcs = <<>> /\ ~HasNoSsrcs(streams)
    BY <2>1, ResetTame, TameOk DEF RemoveOld, Tame
  <2>2. CASE sp.ssrcs # <<>> /\ ~Known(streams, sp)
    BY <2>2, RemoveRecvTame, TameOk DEF RemoveOld, Tame
  <2>3. CASE ~(\/ sp.ssrcs = <<>> /\ ~HasNoSsrcs(streams)
               \/ sp.ssrcs # <<>> /\ ~Known(streams, sp))
    BY <2>3 DEF RemoveOld
  <2> QED
    BY <2>1, <2>2, <2>3
<1>2. CASE sp.ssrcs = <<>> /\ ~HasNoSsrcs(streams)
  <2> DEFINE r == ResetUnsignaledRecvStream(c)
  <2>1. d = Ok(r, c.ok)
    BY <1>2 DEF RemoveOld
  <2>2. DOMAIN r = Fields /\ Spares(c, r)
    BY ResetTame, ResetSpares DEF Tame, Sound, Shape
  <2> HIDE DEF d, r
  <2>3. AsGiven(d) /\ Signalled(d) = Signalled(c)
    BY <2>1, <2>2, SparesOk, SparesGiven
  <2> QED
    BY <1>1, <1>2, <2>3 DEF d, Gone
<1>3. CASE sp.ssrcs # <<>> /\ ~Known(streams, sp)
  <2> DEFINE r == RemoveRecvStream(c, First(sp))
  <2>1. d = Ok(r, r.ok /\ c.ok)
    BY <1>3 DEF RemoveOld
  <2>2. /\ DOMAIN r = Fields
        /\ Signalled(r) = Signalled(c) \ {First(sp)} /\ Defaults(r) = Defaults(c) \ {First(sp)}
        /\ \A s \in DOMAIN r.receive_streams_ : r.receive_streams_[s] = c.receive_streams_[s]
    <3>1. DOMAIN r = Fields
      BY RemoveRecvTame DEF Tame, Sound, Shape
    <3>2. /\ Signalled(r) = Signalled(c) \ {First(sp)} /\ Defaults(r) = Defaults(c) \ {First(sp)}
          /\ \A s \in DOMAIN r.receive_streams_ : r.receive_streams_[s] = c.receive_streams_[s]
      BY RemoveSignalled
    <3> QED
      BY <3>1, <3>2
  <2> HIDE DEF d, r
  <2>3. AsGiven(r)
    <3>1. \A s \in Signalled(r) : r.receive_streams_[s].params \in Described
      BY <2>2 DEF AsGiven, Signalled
    <3>2. \A s \in Defaults(r) : s \in MediaSsrcs /\ Ssrcs(r.receive_streams_[s].params) = {s}
      BY <2>2 DEF AsGiven, Defaults
    <3> QED
      BY <3>1, <3>2 DEF AsGiven
  <2>4. Spares(r, d)
    BY <2>1, <2>2, SparesItself, SparesOk
  <2>5. AsGiven(d) /\ Signalled(d) = Signalled(c) \ {First(sp)}
    BY <2>2, <2>3, <2>4, SparesGiven
  <2> QED
    BY <1>1, <1>3, <2>5 DEF d, Gone
<1>4. CASE ~(\/ sp.ssrcs = <<>> /\ ~HasNoSsrcs(streams)
             \/ sp.ssrcs # <<>> /\ ~Known(streams, sp))
  BY <1>4 DEF RemoveOld, Gone
<1> QED
  BY <1>2, <1>3, <1>4

\* The streams that both descriptions have, and how many of a sequence there are so far.
Staying(old, new) == {s \in Firsts(old) : BySsrc(new, s)}
FirstsUpTo(streams, k) == {First(streams[i]) : i \in {j \in 1..k : streams[j].ssrcs # <<>>}}
GoneUpTo(old, new, k) == {First(old[i]) : i \in {j \in 1..k : Gone(new, old[j])}}

AreDescribed(streams) ==
  /\ streams \in Seq(StreamParams)
  /\ \A i \in DOMAIN streams : streams[i].ssrcs # <<>> => streams[i] \in Described

\* The invariant: while the section is open, its signalled streams are those of the
\* last description.
AsDescribed ==
  Closed \/ (AsGiven(ch) /\ Signalled(ch) = Firsts(remote_streams_) /\ AreDescribed(remote_streams_))

LEMMA NamedAlike ==
  ASSUME ProperStreams, NEW a \in Described, NEW streams, AreDescribed(streams),
         BySsrc(streams, First(a))
  PROVE  /\ First(a) \in Firsts(streams)
         /\ \E i \in DOMAIN streams : /\ streams[i].ssrcs # <<>> /\ First(streams[i]) = First(a)
                                      /\ Ssrcs(streams[i]) = Ssrcs(a)
<1>1. PICK i \in DOMAIN streams : First(a) \in Ssrcs(streams[i])
  BY DEF BySsrc
<1>2. streams[i].ssrcs # <<>>
  BY <1>1 DEF Ssrcs, Range
<1>3. streams[i] \in Described
  BY <1>2 DEF AreDescribed
<1>4. First(a) = First(streams[i]) /\ Ssrcs(a) = Ssrcs(streams[i])
  BY <1>1, <1>3 DEF ProperStreams
<1> QED
  BY <1>2, <1>4 DEF Firsts

LEMMA StayingNamed ==
  ASSUME ProperStreams, NEW old, AreDescribed(old), NEW new, AreDescribed(new)
  PROVE  Staying(old, new) \subseteq Firsts(new)
<1> SUFFICES ASSUME NEW s \in Firsts(old), BySsrc(new, s)
             PROVE  s \in Firsts(new)
  BY DEF Staying
<1>1. PICK i \in DOMAIN old : old[i].ssrcs # <<>> /\ s = First(old[i])
  BY DEF Firsts
<1>2. old[i] \in Described
  BY <1>1 DEF AreDescribed
<1> QED
  BY <1>1, <1>2, NamedAlike

\* The streams of new are those of a description, c has those that stay and some of new.
LEMMA AddNewGiven ==
  ASSUME ProperStreams, NEW c, Sound(c), AsGiven(c),
         AreDescribed(remote_streams_), NEW content \in RemoteContents,
         Staying(remote_streams_, content.streams) \subseteq Signalled(c),
         Signalled(c) \subseteq Firsts(content.streams), NEW k \in DOMAIN content.streams
  PROVE  LET sp == content.streams[k]
             d  == AddNew(c, sp)
         IN  /\ Sound(d) /\ AsGiven(d)
             /\ Signalled(d) = IF sp.ssrcs # <<>> THEN Signalled(c) \cup {First(sp)} ELSE Signalled(c)
<1> DEFINE streams == content.streams
           sp == streams[k]
           d == AddNew(c, sp)
<1>1. streams \in Seq(StreamParams) /\ sp \in StreamParams /\ "ssrcs" \in DOMAIN sp
  <2>1. streams \in Seq(StreamParams)
    BY ContentStreams
  <2>2. sp \in StreamParams
    BY <2>1
  <2> QED
    BY <2>1, <2>2 DEF StreamParams
<1>2. AreDescribed(streams)
  BY <1>1, StreamDescribed DEF AreDescribed
<1>3. Sound(d)
  BY <1>1, AddRecvTame, TameOk DEF AddNew, Tame
<1> HIDE DEF d
<1>4. CASE Known(remote_streams_, sp)
  <2>1. d = c
    BY <1>4 DEF d, AddNew
  <2>2. sp.ssrcs # <<>> /\ BySsrc(remote_streams_, First(sp))
    BY <1>4 DEF Known
  <2>3. sp \in Described
    BY <1>2, <2>2 DEF AreDescribed
  <2>4. First(sp) \in Firsts(remote_streams_)
    BY <2>2, <2>3, NamedAlike
  <2>5. BySsrc(streams, First(sp))
    BY <1>1, <2>2, FirstIs DEF BySsrc
  <2>6. First(sp) \in Signalled(c)
    BY <2>4, <2>5 DEF Staying
  <2> QED
    BY <1>3, <2>1, <2>2, <2>6 DEF d
<1>5. CASE ~Known(remote_streams_, sp) /\ sp.ssrcs = <<>>
  <2> DEFINE set == [c EXCEPT !.unsignaled_stream_params_ = sp]
             r == AddRecvStream(c, sp)
  <2>1. d = Ok(r, r.ok /\ c.ok)
    BY <1>5 DEF d, AddNew
  <2>2. r = Ok(set, TRUE)
    BY <1>5 DEF AddRecvStream, AddRecvStreamAs
  <2>3. DOMAIN set = Fields /\ set.receive_streams_ = c.receive_streams_
    BY DEF Sound, Shape, Fields
  <2>4. DOMAIN r = Fields
    BY <1>1, AddRecvTame DEF Tame, Sound, Shape
  <2> HIDE DEF r, set
  <2>5. Spares(c, r)
    BY <2>2, <2>3, SparesSame, SparesOk
  <2>6. Spares(c, d)
    BY <2>1, <2>4, <2>5, SparesOk
  <2>7. AsGiven(d) /\ Signalled(d) = Signalled(c)
    BY <2>6, SparesGiven
  <2> QED
    BY <1>3, <1>5, <2>7 DEF d
<1>6. CASE ~Known(remote_streams_, sp) /\ sp.ssrcs # <<>>
  <2> DEFINE r == AddRecvStream(c, sp)
  <2>1. d = Ok(r, r.ok /\ c.ok)
    BY <1>6 DEF d, AddNew
  <2>2. sp \in Described
    BY <1>2, <1>6 DEF AreDescribed
  <2>3. ASSUME NEW s \in Signalled(c)
        PROVE  s = First(sp) \/ Ssrcs(sp) \cap Ssrcs(c.receive_streams_[s].params) = {}
    <3> DEFINE p == c.receive_streams_[s].params
    <3>1. p \in Described /\ First(p) = s
      BY DEF AsGiven, Signalled, Sound, Books, Exact
    <3>2. PICK j \in DOMAIN streams : streams[j].ssrcs # <<>> /\ First(streams[j]) = s
      BY DEF Firsts
    <3>3. streams[j] \in Described
      BY <1>2, <3>2 DEF AreDescribed
    <3>4. First(p) \in Ssrcs(streams[j])
      BY <3>1, <3>2, <3>3, FirstIs, DescribedStream
    <3> HIDE DEF p
    <3>5. Ssrcs(p) = Ssrcs(streams[j])
      BY <3>1, <3>3, <3>4 DEF ProperStreams
    <3>6. First(streams[j]) = First(sp) \/ Ssrcs(streams[j]) \cap Ssrcs(sp) = {}
      BY <1>6, <3>2 DEF ProperStreams
    <3> QED
      BY <3>2, <3>5, <3>6 DEF p
  <2>4. Signalled(r) = Signalled(c) \cup {First(sp)} /\ AsGiven(r)
    <3> HIDE DEF sp
    <3> QED
      BY <2>2, <2>3, AddGiven
  <2>5. DOMAIN r = Fields
    BY <1>1, AddRecvTame DEF Tame, Sound, Shape
  <2> HIDE DEF r
  <2>6. Spares(r, d)
    BY <2>1, <2>5, SparesItself, SparesOk
  <2>7. AsGiven(d) /\ Signalled(d) = Signalled(c) \cup {First(sp)}
    BY <2>4, <2>6, SparesGiven
  <2> QED
    BY <1>3, <1>6, <2>7 DEF d
<1> QED
  BY <1>4, <1>5, <1>6

LEMMA UpdateRemoteOld ==
  ASSUME Sound(ch), AsGiven(ch), remote_streams_ \in Seq(StreamParams),
         Signalled(ch) = Firsts(remote_streams_)
  PROVE  LET left == OldRemote!Folded(Ok(ch, TRUE), remote_streams_)
         IN  Sound(left) /\ AsGiven(left) /\ Signalled(left) = Staying(remote_streams_, Streams)
<1> DEFINE base == Ok(ch, TRUE)
           len == Len(remote_streams_)
           Good(k, c) == /\ Sound(c) /\ AsGiven(c)
                         /\ Signalled(c) = Signalled(ch) \ GoneUpTo(remote_streams_, Streams, k)
<1>1. PICK h : OldRemote!Trace(base, remote_streams_, h)
  BY OldRemote!FoldTrace, Zenon
<1> DEFINE G == {k \in 0..len : Good(k, h[k])}
<1>2. /\ h[0] = base /\ OldRemote!Folded(base, remote_streams_) = h[len]
      /\ \A k \in 0..(len - 1) : h[k + 1] = RemoveOld(h[k], remote_streams_[k + 1], Streams)
  BY <1>1 DEF OldRemote!Trace
<1>3. len \in Nat /\ DOMAIN remote_streams_ = 1..len
  OBVIOUS
<1>4. 0 \in G
  <2>1. Sound(base)
    BY TameItself, TameOk DEF Tame
  <2>2. AsGiven(base) /\ Signalled(base) = Signalled(ch)
    BY SparesItself, SparesOk, SparesGiven DEF Sound, Shape
  <2>3. GoneUpTo(remote_streams_, Streams, 0) = {}
    BY DEF GoneUpTo
  <2> HIDE DEF base
  <2>4. Good(0, base)
    BY <2>1, <2>2, <2>3
  <2> QED
    BY <1>2, <1>3, <2>4
<1>5. ASSUME NEW k \in 0..(len - 1), k \in G
      PROVE  k + 1 \in G
  <2> DEFINE c == h[k]
             sp == remote_streams_[k + 1]
             d == RemoveOld(c, sp, Streams)
  <2>1. k \in Nat /\ k + 1 \in 1..len /\ k + 1 \in 0..len /\ sp \in StreamParams
    BY <1>3
  <2>2. Good(k, c)
    BY <1>5
  <2>3. h[k + 1] = d
    BY <1>2
  <2>4. GoneUpTo(remote_streams_, Streams, k + 1)
          = GoneUpTo(remote_streams_, Streams, k) \cup (IF Gone(Streams, sp) THEN {First(sp)} ELSE {})
    <3>1. 1..(k + 1) = 1..k \cup {k + 1}
      BY <2>1
    <3> HIDE DEF sp
    <3> QED
      BY <3>1, Zenon DEF GoneUpTo, sp
  <2> HIDE DEF c, sp
  <2>5. /\ Sound(d) /\ AsGiven(d)
        /\ Signalled(d) = IF Gone(Streams, sp) THEN Signalled(c) \ {First(sp)} ELSE Signalled(c)
    BY <2>1, <2>2, RemoveOldGiven
  <2> HIDE DEF d
  <2>6. Good(k + 1, d)
    BY <2>2, <2>4, <2>5
  <2> HIDE DEF Good
  <2> QED
    BY <2>1, <2>3, <2>6
<1>6. Good(len, h[len])
  <2> HIDE DEF Good
  <2>1. G \in SUBSET (0..len)
    OBVIOUS
  <2>2. len \in G
    <3> HIDE DEF G, len
    <3> QED
      BY <1>3, <1>4, <1>5, <2>1, UpTo
  <2> QED
    BY <2>2
<1>7. Signalled(ch) \ GoneUpTo(remote_streams_, Streams, len) = Staying(remote_streams_, Streams)
  <2>1. ASSUME NEW s
        PROVE  s \in GoneUpTo(remote_streams_, Streams, len)
                 <=> s \in Firsts(remote_streams_) /\ ~BySsrc(Streams, s)
    <3>1. CASE s \in GoneUpTo(remote_streams_, Streams, len)
      <4>1. PICK i \in 1..len : Gone(Streams, remote_streams_[i]) /\ s = First(remote_streams_[i])
        BY <3>1 DEF GoneUpTo
      <4> QED
        BY <1>3, <3>1, <4>1 DEF Gone, Known, Firsts
    <3>2. CASE s \in Firsts(remote_streams_) /\ ~BySsrc(Streams, s)
      <4>1. PICK i \in 1..len : remote_streams_[i].ssrcs # <<>> /\ s = First(remote_streams_[i])
        BY <1>3, <3>2 DEF Firsts
      <4>2. Gone(Streams, remote_streams_[i])
        BY <3>2, <4>1 DEF Gone, Known
      <4> QED
        BY <3>2, <4>1, <4>2 DEF GoneUpTo
    <3> QED
      BY <3>1, <3>2
  <2> QED
    BY <2>1 DEF Staying
<1> QED
  BY <1>2, <1>6, <1>7

LEMMA UpdateRemoteGiven ==
  ASSUME ProperStreams, Sound(ch), AsGiven(ch), AreDescribed(remote_streams_),
         Signalled(ch) = Firsts(remote_streams_), wpc.then.content \in RemoteContents
  PROVE  LET u == UpdateRemoteStreams(ch, Streams)
         IN  Sound(u) /\ AsGiven(u) /\ Signalled(u) = Firsts(Streams)
<1> DEFINE base == Ok(ch, TRUE)
           left == OldRemote!Folded(base, remote_streams_)
           stay == Staying(remote_streams_, Streams)
           len == Len(Streams)
           Good(k, c) == /\ Sound(c) /\ AsGiven(c)
                         /\ Signalled(c) = stay \cup FirstsUpTo(Streams, k)
<1>1. remote_streams_ \in Seq(StreamParams) /\ Streams \in Seq(StreamParams) /\ AreDescribed(Streams)
  <2>1. Streams \in Seq(StreamParams)
    BY ContentStreams DEF Streams
  <2>2. AreDescribed(Streams)
    BY <2>1, StreamDescribed DEF AreDescribed, Streams
  <2> QED
    BY <2>1, <2>2 DEF AreDescribed
<1>2. Sound(left) /\ AsGiven(left) /\ Signalled(left) = stay
  BY <1>1, UpdateRemoteOld
<1>3. stay \subseteq Firsts(Streams)
  BY <1>1, StayingNamed
<1>4. left = FoldLeft(LAMBDA acc, sp : RemoveOld(acc, sp, Streams), base, remote_streams_)
  BY Zenon DEF OldRemote!Folded, OldRemote!Greatest, FoldLeft, MapThenFoldSet, Max
<1> HIDE DEF left, stay
<1>5. NewRemote!Folded(left, Streams) = FoldLeft(AddNew, left, Streams)
  BY Zenon DEF NewRemote!Folded, NewRemote!Greatest, FoldLeft, MapThenFoldSet, Max
<1>6. PICK h : NewRemote!Trace(left, Streams, h)
  BY <1>1, NewRemote!FoldTrace, Zenon
<1> DEFINE G == {k \in 0..len : Good(k, h[k])}
<1>7. /\ h[0] = left /\ NewRemote!Folded(left, Streams) = h[len]
      /\ \A k \in 0..(len - 1) : h[k + 1] = AddNew(h[k], Streams[k + 1])
  BY <1>6 DEF NewRemote!Trace
<1>8. len \in Nat /\ DOMAIN Streams = 1..len
  BY <1>1
<1>9. 0 \in G
  <2>1. FirstsUpTo(Streams, 0) = {}
    BY DEF FirstsUpTo
  <2>2. Good(0, left)
    BY <1>2, <2>1
  <2> QED
    BY <1>7, <1>8, <2>2
<1>10. ASSUME NEW k \in 0..(len - 1), k \in G
       PROVE  k + 1 \in G
  <2> DEFINE c == h[k]
             sp == Streams[k + 1]
             d == AddNew(c, sp)
  <2> HIDE DEF len
  <2>1. k \in Nat /\ k + 1 \in 1..len /\ k + 1 \in 0..len /\ k <= len
    BY <1>8
  <2>2. Good(k, c)
    BY <1>10
  <2>3. h[k + 1] = d
    BY <1>7
  <2>4. FirstsUpTo(Streams, k + 1)
          = FirstsUpTo(Streams, k) \cup (IF sp.ssrcs # <<>> THEN {First(sp)} ELSE {})
    <3>1. 1..(k + 1) = 1..k \cup {k + 1}
      BY <2>1
    <3> HIDE DEF sp
    <3> QED
      BY <3>1, Zenon DEF FirstsUpTo, sp
  <2>5. FirstsUpTo(Streams, k) \subseteq Firsts(Streams)
    <3>1. \A i \in 1..k : i \in DOMAIN Streams
      BY <1>8, <2>1
    <3> QED
      BY <3>1 DEF FirstsUpTo, Firsts
  <2>6. /\ Sound(d) /\ AsGiven(d)
        /\ Signalled(d) = IF sp.ssrcs # <<>> THEN Signalled(c) \cup {First(sp)} ELSE Signalled(c)
    <3>1. /\ stay \subseteq Signalled(c) /\ Signalled(c) \subseteq Firsts(Streams)
          /\ Sound(c) /\ AsGiven(c)
      BY <1>3, <2>2, <2>5
    <3>2. k + 1 \in DOMAIN Streams
      BY <1>8, <2>1
    <3> HIDE DEF c
    <3> QED
      BY <3>1, <3>2, AddNewGiven DEF Streams, stay
  <2> HIDE DEF c, sp, d
  <2>7. Good(k + 1, d)
    BY <2>2, <2>4, <2>6
  <2> HIDE DEF Good
  <2> QED
    BY <2>1, <2>3, <2>7
<1>11. Good(len, h[len])
  <2> HIDE DEF Good
  <2>1. G \in SUBSET (0..len)
    OBVIOUS
  <2>2. len \in G
    <3> HIDE DEF G, len
    <3> QED
      BY <1>8, <1>9, <1>10, <2>1, UpTo
  <2> QED
    BY <2>2
<1>12. FirstsUpTo(Streams, len) = Firsts(Streams)
  BY <1>8 DEF FirstsUpTo, Firsts
<1>13. UpdateRemoteStreams(ch, Streams) = h[len]
  BY <1>4, <1>5, <1>7 DEF UpdateRemoteStreams
<1> QED
  BY <1>3, <1>11, <1>12, <1>13

-----------------------------------------------------------------------------
(* The steps.                                                               *)

LEMMA InitAsDescribed == Init => AsDescribed
<1> SUFFICES ASSUME Init
             PROVE  AsDescribed
  OBVIOUS
<1>1. ch.receive_streams_ = <<>> /\ remote_streams_ = <<>>
  BY DEF Init, WebRtcVideoChannel
<1>2. DOMAIN ch.receive_streams_ = {} /\ DOMAIN remote_streams_ = {} /\ remote_streams_ \in Seq(StreamParams)
  BY <1>1
<1> QED
  BY <1>2 DEF AsDescribed, AsGiven, Signalled, Defaults, Firsts, AreDescribed

LEMMA StaysClosed ==
  ASSUME Closed, [Next]_vars
  PROVE  Closed'
<1>1. CASE UNCHANGED vars \/ Signaling \/ Cooled
  BY <1>1 DEF Closed, vars, Signaling, CallSetLocalContent, CallSetRemoteContent,
              CallSetPayloadTypeDemuxingEnabled, CallSetDefaultSink, CallSetDefaultDelay, CallClose, Call,
              Enable, Cooled
<1>2. CASE Network
  BY <1>2 DEF Closed, Network, RegisterRtpDemuxerSink, RegisterOther, DemuxPacket, Writable
<1>3. ~Worker
  BY DEF Closed, Worker, Start, Runs, BeginLocal, FinishLocal, BeginRemote, BeginStreams, FinishRemote,
         SetPayloadTypeDemuxingEnabled, FinishDemuxing, SetDefault, EnableMedia, FirstWritable,
         ReceivePacket, CriteriaComplete, BeginClose, FinishClose
<1> QED
  BY <1>1, <1>2, <1>3 DEF Next

LEMMA DescribedStep ==
  ASSUME ProperStreams, IInv, Numbered(tasks), AsDescribed, ~Closed, [Next]_vars
  PROVE  AsDescribed'
<1>1. /\ Sound(ch) /\ DOMAIN ch = Fields /\ AsGiven(ch) /\ Signalled(ch) = Firsts(remote_streams_)
      /\ AreDescribed(remote_streams_)
  BY DEF IInv, Sound, Shape, AsDescribed
<1>2. ASSUME Spares(ch, ch'), remote_streams_' = remote_streams_
      PROVE  AsDescribed'
  <2>1. AsGiven(ch') /\ Signalled(ch') = Signalled(ch)
    BY <1>1, <1>2, SparesGiven
  <2> QED
    BY <1>1, <1>2, <2>1 DEF AsDescribed
<1>3. CASE ch' = ch /\ remote_streams_' = remote_streams_
  <2>1. Spares(ch, ch')
    BY <1>3, SparesSame
  <2> QED
    BY <1>2, <1>3, <2>1
<1>4. ASSUME NEW c, DOMAIN c = Fields, Spares(ch, c), NEW asked, NEW crit, NEW then,
             RegisterRtpDemuxerSink_w(asked, c, crit, then), remote_streams_' = remote_streams_
      PROVE  AsDescribed'
  <2>1. Spares(ch, ch')
    BY <1>4, RegisterSpares, SparesAgain
  <2> QED
    BY <1>2, <1>4, <2>1
<1>5. CASE UNCHANGED vars \/ Signaling \/ Network \/ FinishDemuxing
  <2>1. ch' = ch /\ remote_streams_' = remote_streams_
    <3>1. CASE Signaling
      BY <3>1 DEF Signaling, CallSetLocalContent, CallSetRemoteContent, CallSetPayloadTypeDemuxingEnabled,
                  CallSetDefaultSink, CallSetDefaultDelay, CallClose, Call, Enable, section
    <3>2. CASE Network
      BY <3>2 DEF Network, RegisterRtpDemuxerSink, Register, RegisterOther, DemuxPacket, Writable, section
    <3> QED
      BY <1>5, <3>1, <3>2 DEF vars, FinishDemuxing, section
  <2> QED
    BY <1>3, <2>1
<1>6. CASE BeginLocal
  <2> DEFINE set == SetRecvParameters(ch, Head(tasks).content)
  <2>1. Spares(ch, set) /\ DOMAIN set = Fields
    BY <1>1, SetRecvParametersTame, SetRecvParametersSpares DEF Tame, Sound, Shape
  <2>2. ch' = set \/ \E asked, crit, then : RegisterRtpDemuxerSink_w(asked, set, crit, then)
    BY <1>6 DEF BeginLocal, Refuse
  <2>3. remote_streams_' = remote_streams_
    BY <1>6 DEF BeginLocal
  <2> HIDE DEF set
  <2> QED
    BY <1>2, <1>4, <2>1, <2>2, <2>3
<1>7. CASE BeginRemote
  <2> DEFINE set == SetSendParameters(ch, Head(tasks).content)
  <2>1. Spares(ch, set) /\ DOMAIN set = Fields
    BY <1>1, SetSendParametersTame, SetSendParametersSpares DEF Tame, Sound, Shape
  <2>2. ch' = set \/ \E asked, crit, then : RegisterRtpDemuxerSink_w(asked, set, crit, then)
    BY <1>7 DEF BeginRemote, Refuse
  <2>3. remote_streams_' = remote_streams_
    BY <1>7 DEF BeginRemote
  <2> HIDE DEF set
  <2> QED
    BY <1>2, <1>4, <2>1, <2>2, <2>3
<1>8. CASE BeginStreams
  <2> DEFINE u == UpdateRemoteStreams(ch, Streams)
  <2>1. wpc.then.content \in RemoteContents
    BY <1>8 DEF IInv, Typed, WorkerStates, Idle, Then, Runs, BeginStreams
  <2>2. Sound(u) /\ AsGiven(u) /\ Signalled(u) = Firsts(Streams)
    BY <1>1, <2>1, UpdateRemoteGiven
  <2>3. AreDescribed(Streams)
    <3>1. Streams \in Seq(StreamParams)
      BY <2>1, ContentStreams DEF Streams
    <3> QED
      BY <2>1, <3>1, StreamDescribed DEF AreDescribed, Streams
  <2>4. \/ ch' = ch /\ remote_streams_' = remote_streams_
        \/ /\ remote_streams_' = Streams
           /\ \E asked, crit, then : RegisterRtpDemuxerSink_w(asked, u, crit, then)
    BY <1>8 DEF BeginStreams, Streams
  <2> HIDE DEF u
  <2>5. ASSUME remote_streams_' = Streams, NEW asked, NEW crit, NEW then,
               RegisterRtpDemuxerSink_w(asked, u, crit, then)
        PROVE  AsDescribed'
    <3>1. DOMAIN u = Fields
      BY <2>2 DEF Sound, Shape
    <3>2. Spares(u, ch')
      BY <2>5, <3>1, RegisterSpares
    <3>3. AsGiven(ch') /\ Signalled(ch') = Firsts(Streams)
      BY <2>2, <3>2, SparesGiven
    <3> HIDE DEF Streams
    <3> QED
      BY <2>3, <2>5, <3>3 DEF AsDescribed
  <2> QED
    BY <1>3, <2>4, <2>5
<1>9. CASE FinishLocal
  <2> DEFINE u == UpdateLocalStreams(ch, Streams)
             set == SetSend(u, IsReadyToSendMedia_w)
  <2>1. wpc.then.content \in LocalContents
    BY <1>9 DEF IInv, Typed, WorkerStates, Idle, Then, Runs, FinishLocal
  <2>2. KeptSpared(u)
    <3>1. Streams \in Seq(StreamParams) /\ local_streams_ \in Seq(StreamParams)
      BY <2>1, ContentStreams DEF Streams, IInv, Typed
    <3> QED
      BY <1>1, <3>1, UpdateLocalSpares
  <2>3. ch' = set \/ ch' = u \/ ch' = ch
    BY <1>9 DEF FinishLocal, UpdateMediaSendRecvState_w, Streams
  <2>4. remote_streams_' = remote_streams_
    BY <1>9 DEF FinishLocal
  <2> HIDE DEF u
  <2>5. Spares(ch, u) /\ Spares(ch, set)
    BY <2>2, SetSendSpares, SparesAgain DEF KeptSpared, Tame
  <2> HIDE DEF set
  <2> QED
    BY <1>2, <1>3, <2>3, <2>4, <2>5
<1>10. CASE FinishRemote \/ EnableMedia \/ FirstWritable \/ BeginClose
  <2> DEFINE set == SetSend(ch, IsReadyToSendMedia_w)
  <2>1. ch' = set \/ ch' = ch
    BY <1>10 DEF FinishRemote, EnableMedia, FirstWritable, BeginClose, UpdateMediaSendRecvState_w
  <2>2. remote_streams_' = remote_streams_
    BY <1>10 DEF FinishRemote, EnableMedia, FirstWritable, BeginClose
  <2>3. Spares(ch, set)
    BY <1>1, SetSendSpares
  <2> HIDE DEF set
  <2> QED
    BY <1>2, <1>3, <2>1, <2>2, <2>3
<1>11. CASE SetPayloadTypeDemuxingEnabled
  <2> DEFINE c == IF Head(tasks).to THEN ch ELSE ResetUnsignaledRecvStream(ch)
  <2>1. Spares(ch, c) /\ DOMAIN c = Fields
    BY <1>1, ResetTame, ResetSpares, SparesItself DEF Tame, Sound, Shape
  <2>2. ch' = ch \/ \E asked, crit, then : RegisterRtpDemuxerSink_w(asked, c, crit, then)
    BY <1>11 DEF SetPayloadTypeDemuxingEnabled
  <2>3. remote_streams_' = remote_streams_
    BY <1>11 DEF SetPayloadTypeDemuxingEnabled
  <2> HIDE DEF c
  <2> QED
    BY <1>3, <1>4, <2>1, <2>2, <2>3
<1>12. CASE SetDefault
  <2>1. ch' = SetDefaultSink(ch, "sink") \/ ch' = SetBaseMinimumPlayoutDelayMs(ch, 0, 1)
    BY <1>12 DEF SetDefault
  <2>2. Spares(ch, SetDefaultSink(ch, "sink")) /\ Spares(ch, SetBaseMinimumPlayoutDelayMs(ch, 0, 1))
    BY <1>1, SetDefaultsSpare
  <2>3. Spares(ch, ch')
    BY <2>1, <2>2, Zenon
  <2>4. remote_streams_' = remote_streams_
    BY <1>12 DEF SetDefault, section
  <2> QED
    BY <1>2, <2>3, <2>4
<1>13. CASE CriteriaComplete \/ Cooled
  <2>1. ch' = [ch EXCEPT !.pending_criteria = @ - 1] \/ ch' = [ch EXCEPT !.cooldown = FALSE]
    BY <1>13 DEF CriteriaComplete, Cooled
  <2>2. ch'.receive_streams_ = ch.receive_streams_
    BY <1>1, <2>1 DEF Fields
  <2>3. remote_streams_' = remote_streams_
    BY <1>13 DEF CriteriaComplete, Cooled, section
  <2> QED
    BY <1>2, <2>2, <2>3, SparesSame
<1>14. CASE FinishClose
  BY <1>14 DEF FinishClose, AsDescribed, Closed
<1>15. CASE ReceivePacket
  <2> DEFINE packet == Packet(Head(tasks).id)
  <2>1. /\ tasks \in Seq(Task) /\ tasks # <<>> /\ Head(tasks).do = "packet"
        /\ sent \in Seq(VideoSsrcs \cup {OtherSsrc})
    BY <1>15 DEF ReceivePacket, Start, IInv, Typed
  <2>2. 1 \in 1..Len(tasks) /\ Head(tasks) = tasks[1]
    BY <2>1
  <2>3. Head(tasks).id \in 1..Len(sent)
    BY <2>1, <2>2 DEF Numbered
  <2>4. sent[Head(tasks).id] \in VideoSsrcs \cup {OtherSsrc}
    BY <2>1, <2>3
  <2>5. packet.ssrc \in VideoSsrcs \cup {OtherSsrc} /\ packet.rtx = (packet.ssrc \in RtxSsrcs)
    BY <2>4 DEF Packet
  <2>6. ch' = OnPacketReceived(ch, packet) /\ remote_streams_' = remote_streams_
    BY <1>15 DEF ReceivePacket, section
  <2> HIDE DEF packet
  <2>7. AsGiven(ch') /\ Signalled(ch') = Signalled(ch)
    BY <1>1, <2>5, <2>6, PacketGiven
  <2> QED
    BY <1>1, <2>6, <2>7 DEF AsDescribed
<1> QED
  BY <1>5, <1>6, <1>7, <1>8, <1>9, <1>10, <1>11, <1>12, <1>13, <1>14, <1>15 DEF Next, Worker

\* When the streams of descriptions are proper (they share no SSRC, and a first SSRC
\* names one stream in all of them): whatever order descriptions and packets come in, and
\* whatever default streams the packets make meanwhile, the signalled streams are those of
\* the last description, one each (channel.cc UpdateRemoteStreams_w): no default stream
\* keeps one out, and none of an earlier description is left.
THEOREM DescribedStreamsOnly ==
  ASSUME BufferUnknown = FALSE, ProperStreams
  PROVE  Spec => []SignalledStreams
<1>1. IInv /\ Queued /\ AsDescribed /\ [Next]_vars => AsDescribed'
  BY StaysClosed, DescribedStep DEF Queued, AsDescribed
<1>2. IInv /\ AsDescribed => SignalledStreams
  <2>1. IInv => PendingIsUnderWay
    BY CountedIsPending DEF IInv
  <2>2. AsDescribed /\ wpc.at = "idle" => Signalled(ch) = Firsts(remote_streams_)
    BY DEF AsDescribed, Closed
  <2> QED
    BY <2>1, <2>2 DEF SignalledStreams, Signalled, Firsts
<1> QED
  BY <1>1, <1>2, InitAsDescribed, ChannelInv, QueueHolds, PTL DEF Spec

=============================================================================
