-------------------------- MODULE MCVoiceChannel --------------------------
(* The instance of VoiceChannel that TLC checks. *)
EXTENDS VoiceChannel

\* SSRCs that no description has.
CONSTANTS u1, u2
MCSsrcs == {1, u1, u2}
UnsignalledSsrcs == Permutations({u1, u2})

Codec(id, name, params) == [id |-> id, name |-> name, params |-> params]
Opus == Codec(111, "opus", <<>>)
Red == Codec(63, "red", <<>>)
Latm == Codec(117, "latm", <<>>)
LatmOfAnswer == Codec(117, "latm", "config" :> "a")

Stream(ssrcs, group) == [ssrcs |-> ssrcs, group |-> group]
Content(send, recv, codecs, sps) ==
  [direction |-> [send |-> send, recv |-> recv], codecs |-> codecs, streams |-> sps]

\* A player; a side that also sends, and takes other codecs.
MCLocalContents ==
  {Content(FALSE, TRUE, <<Opus, Red, Latm>>, <<>>),
   Content(TRUE, TRUE, <<Opus>>, <<Stream(<<4>>, "a")>>)}

\* A sender with one stream; one whose streams are not signalled; one that stops; one
\* that uses a payload type for another codec.
MCRemoteContents ==
  {Content(TRUE, TRUE, <<LatmOfAnswer, Red>>, <<Stream(<<1>>, "b")>>),
   Content(TRUE, FALSE, <<LatmOfAnswer>>, <<Stream(<<>>, "c")>>),
   Content(FALSE, FALSE, <<Opus>>, <<>>),
   Content(TRUE, FALSE, <<LatmOfAnswer, Codec(111, "adts", <<>>)>>, <<>>)}

MCPayloads == {[pt |-> 63, inner |-> 117]}

MCMedia == {[set |-> "sink", to |-> "sink"], [set |-> "sink", to |-> NoSink],
            [set |-> "volume", to |-> 2], [set |-> "delay", to |-> 1],
            [set |-> "send", ssrc |-> 4, to |-> TRUE]}
=============================================================================
