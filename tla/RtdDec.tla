------------------------------- MODULE RtdDec -------------------------------
(***************************************************************************)
(* The FFmpeg demuxer rtd_dec.c opening and closing a session: the thread  *)
(* that runs rtd_read_header waits, in slices of 10 ms, for the signaling  *)
(* thread's media_info_callback, and then creates the streams from what    *)
(* the callback wrote.  rtd_read_packet is in RtdDemuxer.                  *)
(*                                                                         *)
(* media_info_callback writes stream_info and then media_info_received     *)
(* without the mutex.  The model keeps the order of the two statements and *)
(* splits the copy of the structure, which another thread may see half     *)
(* done.                                                                   *)
(***************************************************************************)
EXTENDS RtdEngine

CONSTANT MaxWaits   \* RECV_STREAM_INFO_TIMEOUT / STREAM_INFO_QUERY_INTERVAL
ASSUME MaxWaitsAssumption == MaxWaits \in Nat \ {0}

VARIABLES pc,                   \* where the player's thread is
          waits,                \* slices waited
          signaled,             \* a pthread_cond_signal is on its way to the waiter
          mutex,                \* media_info_mutex: "free" or "player"
          stream_info,          \* which parts of it have been written
          media_info_received,
          saw_flag,             \* history: the wait ended with the flag set
          streams               \* the streams rtd_stream_info_init created

dvars == <<pc, waits, signaled, mutex, saw_flag, streams>>
ivars == <<stream_info, media_info_received>>
vars == <<evars, dvars, ivars>>

Parts == {"audio", "video"}
PlayerPC == {"open", "check", "lock", "timedwait", "wake", "audio", "video",
             "playing", "closing", "joining", "closed"}

Init ==
  /\ EngineInit
  /\ pc = "open"
  /\ waits = 0
  /\ signaled = FALSE
  /\ mutex = "free"
  /\ stream_info = {}
  /\ media_info_received = FALSE
  /\ saw_flag = FALSE
  /\ streams = {}

-----------------------------------------------------------------------------
(* media_info_callback, on the signaling thread.                           *)

WriteInfo(from, to, part) ==
  /\ sig_pc = from
  /\ sig_pc' = to
  /\ stream_info' = stream_info \cup {part}
  /\ UNCHANGED <<peer_connection_, stream_info_parsed_, media_conn_status_, ice,
                 dvars, media_info_received>>

SetFlag(from, to) ==
  /\ sig_pc = from
  /\ sig_pc' = to
  /\ media_info_received' = TRUE
  /\ UNCHANGED <<peer_connection_, stream_info_parsed_, media_conn_status_, ice,
                 dvars, stream_info>>

\* Lock, signal and unlock: a signal wakes the player only if it waits.
SignalInfo ==
  /\ sig_pc = "signal" /\ mutex = "free"
  /\ sig_pc' = "idle"
  /\ signaled' = (pc = "timedwait" \/ signaled)
  /\ UNCHANGED <<peer_connection_, stream_info_parsed_, media_conn_status_, ice, pc,
                 waits, mutex, saw_flag, streams, ivars>>

MediaInfoCallbackFlagFirst ==
  \/ SetFlag("write_audio", "write_video")
  \/ WriteInfo("write_video", "flag", "audio")
  \/ WriteInfo("flag", "signal", "video")
  \/ SignalInfo

MediaInfoCallback ==
  \/ WriteInfo("write_audio", "write_video", "audio")
  \/ WriteInfo("write_video", "flag", "video")
  \/ SetFlag("flag", "signal")
  \/ SignalInfo

-----------------------------------------------------------------------------
(* rtd_read_header.                                                        *)

Goto(p) == pc' = p /\ UNCHANGED <<waits, signaled, mutex, saw_flag, streams>>

Open ==
  /\ pc = "open"
  /\ \/ OpenSucceeds /\ Goto("check")
     \/ OpenFails /\ Goto("closing")
  /\ UNCHANGED <<ivars>>

\* Each slice begins with the interrupt callback of the application.
CheckInterrupt ==
  /\ pc = "check"
  /\ Goto("lock") \/ Goto("closing")
  /\ UNCHANGED <<evars, ivars>>

\* pthread_cond_timedwait takes the mutex and gives it up while it waits.
LockAndWait ==
  /\ pc = "lock" /\ mutex = "free"
  /\ pc' = "timedwait"
  /\ UNCHANGED <<waits, signaled, mutex, saw_flag, streams, evars, ivars>>

\* The time is over, or a signal has come, or the wait ends for no reason.
Wake ==
  /\ pc = "timedwait" /\ mutex = "free"
  /\ mutex' = "player"
  /\ \E spurious \in BOOLEAN : signaled' = (signaled \/ spurious)
  /\ pc' = "wake"
  /\ UNCHANGED <<waits, saw_flag, streams, evars, ivars>>

\* The test after a wait.  The loop ends after MaxWaits slices as if the info
\* had come.
EndWait(unlocked, counted, last) ==
  /\ pc = "wake"
  /\ signaled' = FALSE
  /\ IF signaled \/ media_info_received
     THEN pc' = "audio" /\ mutex' = unlocked /\ UNCHANGED waits
     ELSE /\ mutex' = "free"
          /\ waits' = waits + counted
          /\ pc' = IF waits' = last THEN "audio" ELSE "check"
  /\ saw_flag' = media_info_received
  /\ UNCHANGED <<streams, evars, ivars>>

TestReceivedKeepsMutex == EndWait("player", 1, MaxWaits)

TestReceived == EndWait("free", 1, MaxWaits)

\* rtd_stream_info_init: a stream for each enabled part; on an error the
\* header is given up.
InitStream(from, to, part) ==
  /\ pc = from
  /\ \/ pc' = to /\ streams' = streams \cup ({part} \cap stream_info)
     \/ part \in stream_info /\ pc' = "closing" /\ UNCHANGED streams
  /\ UNCHANGED <<waits, signaled, mutex, saw_flag, evars, ivars>>

ReadHeader ==
  \/ Open \/ CheckInterrupt \/ LockAndWait \/ Wake \/ TestReceived
  \/ InitStream("audio", "video", "audio")
  \/ InitStream("video", "playing", "video")

\* The application stops playing.
Stop ==
  /\ pc = "playing"
  /\ Goto("closing")
  /\ UNCHANGED <<evars, ivars>>

\* rtd_read_close: releasing the peer connection is a task for the signaling
\* thread.  What was posted before it counts as done before this step, so from
\* here on the thread only carries its present task through.
PostRelease ==
  /\ pc = "closing"
  /\ Goto("joining")
  /\ UNCHANGED <<evars, ivars>>

\* The release has run: the demuxer goes, and the context is zeroed.
Close ==
  /\ pc = "joining"
  /\ EngineClose
  /\ pc' = "closed"
  /\ stream_info' = {}
  /\ media_info_received' = FALSE
  /\ UNCHANGED <<waits, signaled, mutex, saw_flag, streams>>

-----------------------------------------------------------------------------
Next ==
  \/ Signaling /\ UNCHANGED <<dvars, ivars>>
  \/ pc # "joining" /\ OnIceConnectionChange /\ UNCHANGED <<dvars, ivars>>
  \/ MediaInfoCallback
  \/ ReadHeader
  \/ Stop
  \/ PostRelease
  \/ Close
  \/ pc = "closed" /\ UNCHANGED vars

Spec == Init /\ [][Next]_vars

\* The header is read without a stop, a request ends (it has a time limit) and
\* a task that has begun is carried through.
Fairness ==
  /\ WF_vars(ReadHeader)
  /\ WF_vars(PostRelease)
  /\ WF_vars(Close)
  /\ WF_vars(Signaling /\ UNCHANGED <<dvars, ivars>>)
  /\ WF_vars(MediaInfoCallback)

FairSpec == Spec /\ Fairness

-----------------------------------------------------------------------------
\* Every variable has its type.
TypeOK ==
  /\ peer_connection_ \in BOOLEAN
  /\ sig_pc \in SigPC
  /\ stream_info_parsed_ \in BOOLEAN
  /\ media_conn_status_ \in ConnStatus
  /\ ice \in IceState
  /\ pc \in PlayerPC
  /\ waits \in 0..MaxWaits
  /\ signaled \in BOOLEAN
  /\ mutex \in {"free", "player"}
  /\ stream_info \subseteq Parts
  /\ media_info_received \in BOOLEAN
  /\ saw_flag \in BOOLEAN
  /\ streams \subseteq Parts

\* Once rtd_read_close returns the signaling thread is in no callback and will
\* start none: nothing touches the context that has been zeroed.
NoCallbackAfterClose ==
  pc = "closed" => /\ ~peer_connection_ /\ sig_pc = "idle"
                   /\ stream_info = {} /\ ~media_info_received

\* The types, and the end of a session.
SessionInv == TypeOK /\ NoCallbackAfterClose

\* When the wait ends because the flag is set, every stream of the answer is
\* created, although neither the flag nor the info is written under the mutex.
FlaggedHeaderIsComplete ==
  pc = "playing" /\ saw_flag => streams = Parts

\* Opening ends, whatever the server and the network do: the header is read or
\* the session is closed again.  A close ends, also when a request is under way or
\* the callback waits for the mutex: the threads never wait for each other.
CallsEnd ==
  /\ <>(pc \in {"playing", "closed"})
  /\ (pc = "closing") ~> (pc = "closed")
=============================================================================
