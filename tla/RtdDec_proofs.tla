---------------------------- MODULE RtdDec_proofs ----------------------------
(***************************************************************************)
(* Proofs about the opening and the closing of a session, for any number   *)
(* of slices that the header waits.                                        *)
(***************************************************************************)
EXTENDS RtdDec, TLAPS

-----------------------------------------------------------------------------
(* The inductive invariant.  TypeOK is taken apart because no prover takes  *)
(* the Boolean variables and the count of the slices together.             *)

\* The wait has slices left as long as it goes on.
Slices ==
  /\ waits \in 0..MaxWaits
  /\ pc \in {"open", "check", "lock", "timedwait", "wake"} => waits < MaxWaits

Types ==
  /\ peer_connection_ \in BOOLEAN
  /\ sig_pc \in SigPC
  /\ stream_info_parsed_ \in BOOLEAN
  /\ media_conn_status_ \in ConnStatus
  /\ ice \in IceState
  /\ pc \in PlayerPC
  /\ signaled \in BOOLEAN
  /\ mutex \in {"free", "player"}
  /\ stream_info \subseteq Parts
  /\ media_info_received \in BOOLEAN
  /\ saw_flag \in BOOLEAN
  /\ streams \subseteq Parts

\* media_info_callback has written what lies before its next statement, and
\* the flag comes last.
WrittenInOrder ==
  /\ sig_pc = "write_video" => "audio" \in stream_info
  /\ sig_pc = "flag" => Parts \subseteq stream_info
  /\ media_info_received => Parts \subseteq stream_info

\* What a wait that ended with the flag saw is still there when the streams
\* are made of it, one after the other.
FlagKept ==
  /\ saw_flag /\ pc # "closed" => media_info_received
  /\ saw_flag /\ pc = "video" => "audio" \in streams

Control ==
  /\ Types
  /\ pc = "open" => ~peer_connection_ /\ sig_pc = "idle"
  /\ WrittenInOrder
  /\ FlagKept
  /\ NoCallbackAfterClose
  /\ FlaggedHeaderIsComplete

LEMMA SlicesInit == Init => Slices
BY MaxWaitsAssumption DEF Init, Slices

LEMMA SlicesStep == Slices /\ [Next]_vars => Slices'
<1> SUFFICES ASSUME Slices, [Next]_vars PROVE Slices'
  OBVIOUS
<1> USE MaxWaitsAssumption DEF Slices
<1>1. CASE TestReceived
  <2>1. CASE pc' = "audio" /\ waits' = waits
    BY <2>1
  <2>2. CASE waits' = waits + 1 /\ pc' = IF waits' = MaxWaits THEN "audio" ELSE "check"
    BY <1>1, <2>2 DEF TestReceived, EndWait
  <2> QED
    BY <1>1, <2>1, <2>2 DEF TestReceived, EndWait
<1>2. CASE waits' = waits /\ (pc' = pc \/ pc' \notin {"open", "check", "lock", "timedwait", "wake"}
                              \/ pc \in {"open", "check", "lock", "timedwait"})
  BY <1>2
<1>3. CASE UNCHANGED dvars \/ MediaInfoCallback
  BY <1>2, <1>3 DEF MediaInfoCallback, WriteInfo, SetFlag, SignalInfo, dvars
<1>4. CASE Open \/ CheckInterrupt \/ LockAndWait \/ Wake
  BY <1>2, <1>4 DEF Open, CheckInterrupt, LockAndWait, Wake, Goto
<1>5. CASE InitStream("audio", "video", "audio") \/ InitStream("video", "playing", "video")
           \/ Stop \/ PostRelease \/ Close
  BY <1>2, <1>5 DEF InitStream, Stop, PostRelease, Close, Goto
<1> QED
  BY <1>1, <1>3, <1>4, <1>5 DEF Next, ReadHeader, vars

LEMMA ControlInit == Init => Control
BY DEF Init, EngineInit, Control, Types, SigPC, ConnStatus, IceState, PlayerPC,
       WrittenInOrder, FlagKept, NoCallbackAfterClose, FlaggedHeaderIsComplete

\* The signaling thread between its callbacks, and the ICE agent.
LEMMA EngineStep ==
  ASSUME Control, UNCHANGED <<dvars, ivars>>,
         Signaling \/ OnIceConnectionChange
  PROVE  Control'
<1> USE DEF Control, dvars, ivars, Types, SigPC, ConnStatus, IceState, PlayerPC
<1>1. peer_connection_' = peer_connection_ /\ (peer_connection_ \/ sig_pc # "idle")
  BY DEF Signaling, OfferCreated, SignalingFails, AnswerReceived, OnIceConnectionChange
<1>2. sig_pc' \in {"idle", "http", "write_audio"}
  BY DEF Signaling, OfferCreated, SignalingFails, AnswerReceived, OnIceConnectionChange
<1>3. /\ stream_info_parsed_' \in BOOLEAN
      /\ media_conn_status_' \in ConnStatus /\ ice' \in IceState
  <2>1. CASE Signaling
    BY <2>1 DEF Signaling, OfferCreated, SignalingFails, AnswerReceived
  <2>2. CASE OnIceConnectionChange
    <3>1. ice' \in IceState \ {"new"}
      BY <2>2 DEF OnIceConnectionChange, IceNext
    <3>2. media_conn_status_' = StatusAfter(ice') /\ stream_info_parsed_' = stream_info_parsed_
      BY <2>2 DEF OnIceConnectionChange
    <3>3. StatusAfter(ice') \in ConnStatus
      BY <3>1 DEF StatusAfter
    <3> QED BY <3>1, <3>2, <3>3
  <2> QED BY <2>1, <2>2
<1>4. pc # "open" /\ pc # "closed"
  BY <1>1 DEF NoCallbackAfterClose, Signaling, OfferCreated, SignalingFails, AnswerReceived,
              OnIceConnectionChange
<1> QED
  BY <1>1, <1>2, <1>3, <1>4
     DEF WrittenInOrder, FlagKept, NoCallbackAfterClose, FlaggedHeaderIsComplete

LEMMA CallbackStep ==
  ASSUME Control, MediaInfoCallback
  PROVE  Control'
<1> USE DEF Control, Types, SigPC, Parts, dvars, ivars, WrittenInOrder, FlagKept,
            NoCallbackAfterClose, FlaggedHeaderIsComplete
<1>1. CASE WriteInfo("write_audio", "write_video", "audio")
  BY <1>1 DEF WriteInfo
<1>2. CASE WriteInfo("write_video", "flag", "video")
  BY <1>2 DEF WriteInfo
<1>3. CASE SetFlag("flag", "signal")
  BY <1>3 DEF SetFlag
<1>4. CASE SignalInfo
  BY <1>4 DEF SignalInfo
<1> QED
  BY <1>1, <1>2, <1>3, <1>4 DEF MediaInfoCallback

LEMMA PlayerStep ==
  ASSUME Control, ReadHeader \/ Stop \/ PostRelease \/ Close
  PROVE  Control'
<1> USE DEF Control, Parts, evars, dvars, ivars, Goto
<1>1. CASE Open
  <2>1. Types'
    BY <1>1 DEF Open, OpenSucceeds, OpenFails, Types, PlayerPC, SigPC
  <2>2. WrittenInOrder' /\ FlagKept'
    BY <1>1 DEF Open, OpenSucceeds, OpenFails, WrittenInOrder, FlagKept
  <2>3. NoCallbackAfterClose' /\ FlaggedHeaderIsComplete'
    BY <1>1 DEF Open, OpenSucceeds, OpenFails, FlagKept, WrittenInOrder, NoCallbackAfterClose, FlaggedHeaderIsComplete, Types
  <2> QED
    BY <1>1, <2>1, <2>2, <2>3 DEF Open, OpenSucceeds, OpenFails
<1>2. CASE CheckInterrupt \/ LockAndWait \/ Wake
  <2>1. Types'
    <3>1. CASE CheckInterrupt
      BY <3>1 DEF CheckInterrupt, Types, PlayerPC
    <3>2. CASE LockAndWait
      BY <3>2 DEF LockAndWait, Types, PlayerPC
    <3>3. CASE Wake
      BY <3>3 DEF Wake, Types, PlayerPC
    <3> QED
      BY <1>2, <3>1, <3>2, <3>3
  <2>2. WrittenInOrder' /\ FlagKept'
    BY <1>2 DEF CheckInterrupt, LockAndWait, Wake, WrittenInOrder, FlagKept
  <2>3. NoCallbackAfterClose' /\ FlaggedHeaderIsComplete'
    BY <1>2 DEF CheckInterrupt, LockAndWait, Wake, FlagKept, WrittenInOrder, NoCallbackAfterClose, FlaggedHeaderIsComplete, Types
  <2> QED
    BY <1>2, <2>1, <2>2, <2>3 DEF CheckInterrupt, LockAndWait, Wake
<1>3. CASE TestReceived
  <2>1. Types'
    BY <1>3 DEF TestReceived, EndWait, Types, PlayerPC, SigPC
  <2>2. WrittenInOrder' /\ FlagKept'
    BY <1>3 DEF TestReceived, EndWait, WrittenInOrder, FlagKept
  <2>3. NoCallbackAfterClose' /\ FlaggedHeaderIsComplete'
    BY <1>3 DEF TestReceived, EndWait, FlagKept, WrittenInOrder, NoCallbackAfterClose, FlaggedHeaderIsComplete, Types
  <2> QED
    BY <1>3, <2>1, <2>2, <2>3 DEF TestReceived, EndWait
<1>4. CASE InitStream("audio", "video", "audio") \/ InitStream("video", "playing", "video")
  <2>1. Types'
    <3>1. CASE InitStream("audio", "video", "audio")
      BY <3>1 DEF InitStream, Types, PlayerPC
    <3>2. CASE InitStream("video", "playing", "video")
      BY <3>2 DEF InitStream, Types, PlayerPC
    <3> QED
      BY <1>4, <3>1, <3>2
  <2>2. WrittenInOrder' /\ FlagKept'
    BY <1>4 DEF InitStream, WrittenInOrder, FlagKept
  <2>3. NoCallbackAfterClose' /\ FlaggedHeaderIsComplete'
    <3>1. CASE InitStream("video", "playing", "video")
      <4>1. saw_flag => "audio" \in streams /\ "video" \in stream_info
        BY <3>1 DEF InitStream, FlagKept, WrittenInOrder
      <4>2. pc' = "playing" => streams' = streams \cup ({"video"} \cap stream_info)
        BY <3>1 DEF InitStream
      <4> QED
        BY <3>1, <4>1, <4>2 DEF InitStream, NoCallbackAfterClose, FlaggedHeaderIsComplete, Types
    <3>2. CASE InitStream("audio", "video", "audio")
      BY <3>2 DEF InitStream, NoCallbackAfterClose, FlaggedHeaderIsComplete
    <3> QED BY <1>4, <3>1, <3>2
  <2> QED
    BY <1>4, <2>1, <2>2, <2>3 DEF InitStream
<1>5. CASE Stop \/ PostRelease
  <2>1. Types'
    <3>1. pc' \in PlayerPC
      BY <1>5 DEF Stop, PostRelease, PlayerPC
    <3> QED
      BY <1>5, <3>1 DEF Stop, PostRelease, Types
  <2>2. WrittenInOrder' /\ FlagKept'
    BY <1>5 DEF Stop, PostRelease, WrittenInOrder, FlagKept
  <2>3. NoCallbackAfterClose' /\ FlaggedHeaderIsComplete'
    BY <1>5 DEF Stop, PostRelease, FlagKept, WrittenInOrder, NoCallbackAfterClose, FlaggedHeaderIsComplete, Types
  <2> QED
    BY <1>5, <2>1, <2>2, <2>3 DEF Stop, PostRelease
<1>6. CASE Close
  <2>1. Types'
    BY <1>6 DEF Close, EngineClose, Types, PlayerPC, SigPC
  <2>2. WrittenInOrder' /\ FlagKept'
    BY <1>6 DEF Close, EngineClose, WrittenInOrder, FlagKept
  <2>3. NoCallbackAfterClose' /\ FlaggedHeaderIsComplete'
    BY <1>6 DEF Close, EngineClose, FlagKept, WrittenInOrder, NoCallbackAfterClose, FlaggedHeaderIsComplete, Types
  <2> QED
    BY <1>6, <2>1, <2>2, <2>3 DEF Close, EngineClose
<1> QED
  BY <1>1, <1>2, <1>3, <1>4, <1>5, <1>6 DEF ReadHeader

\* What the two theorems below follow from.
LEMMA ControlHolds == Spec => [](Slices /\ Control)
<1>1. Control /\ [Next]_vars => Control'
  <2> SUFFICES ASSUME Control, [Next]_vars PROVE Control'
    OBVIOUS
  <2>1. CASE UNCHANGED vars
    BY <2>1 DEF vars, evars, dvars, ivars, Control, Types, WrittenInOrder,
                FlagKept, NoCallbackAfterClose, FlaggedHeaderIsComplete
  <2> QED
    BY <2>1, EngineStep, CallbackStep, PlayerStep DEF Next
<1> QED
  BY <1>1, SlicesInit, SlicesStep, ControlInit, PTL DEF Spec

\* After rtd_read_close has returned no callback runs or will, and the context it has
\* zeroed stays so, whatever the server and the network do.
THEOREM SessionIsSound == Spec => []SessionInv
<1>1. Slices /\ Control => SessionInv
  <2>1. Slices /\ Types => TypeOK
    BY Zenon DEF Slices, Types, TypeOK
  <2> QED
    BY <2>1 DEF Control, SessionInv
<1> QED
  BY <1>1, ControlHolds, PTL

\* A header that is read because the flag is set has every stream, although the signaling
\* thread writes the info and the flag without the mutex that the wait holds.
THEOREM HeadersAreComplete == Spec => []FlaggedHeaderIsComplete
<1>1. Slices /\ Control => FlaggedHeaderIsComplete
  BY DEF Control
<1> QED
  BY <1>1, ControlHolds, PTL

=============================================================================
