--------------------------- MODULE RtdFrameQueue ---------------------------
(***************************************************************************)
(* The two RtdFrameQueue objects of a demuxer (rtd_frame_queue.cpp).       *)
(*                                                                         *)
(* Every operation of the class runs under the queue's mutex_, so each is  *)
(* one atomic action here.  A buffer is a heap cell named by its index in  *)
(* `heap': queues and free lists hold indices, the way the code holds      *)
(* RtdFrameBuffer pointers, so that a buffer reachable from two places     *)
(* shows as an index that occurs twice.  heap[b].home is a history field:  *)
(* the queue whose WriteBack allocated b.                                  *)
(***************************************************************************)
EXTENDS Naturals, SequencesExt

CONSTANTS Kind,      \* the queues of a demuxer: "audio" and "video"
          Capacity   \* capacity_ of each queue

ASSUME CapacityAssumption == Capacity \in [Kind -> Nat \ {0}]

VARIABLES heap,       \* every buffer ever allocated: its payload and its home
          queue,      \* queue_ of each queue, the oldest frame first
          free_list   \* free_list_ of each queue, used as a stack

qvars == <<heap, queue, free_list>>

QueueInit ==
  /\ heap = << >>
  /\ queue = [k \in Kind |-> << >>]
  /\ free_list = [k \in Kind |-> << >>]

IsFull(k) == Len(queue[k]) = Capacity[k]

\* WriteBack with a buffer at hand: the last freed one is used first.
Reuse(k, f) ==
  LET b == Last(free_list[k])
  IN  /\ free_list[k] # << >>
      /\ free_list' = [free_list EXCEPT ![k] = Front(@)]
      /\ heap' = [heap EXCEPT ![b].frame = f]
      /\ queue' = [queue EXCEPT ![k] = Append(@, b)]

\* WriteBack with an empty free list.
Allocate(k, f) ==
  /\ free_list[k] = << >>
  /\ heap' = Append(heap, [frame |-> f, home |-> k])
  /\ queue' = [queue EXCEPT ![k] = Append(@, Len(heap) + 1)]
  /\ UNCHANGED free_list

\* The successful WriteBack; on a full queue the call changes nothing.
WriteBack(k, f) == ~IsFull(k) /\ (Reuse(k, f) \/ Allocate(k, f))

\* The buffer that ReadFront hands out, and what the call does to the queue.
Oldest(k) == Head(queue[k])

\* Mutant of ReadFront: the buffer is free as soon as it is read.
ReadFrontFrees(k) ==
  /\ queue[k] # << >>
  /\ queue' = [queue EXCEPT ![k] = Tail(@)]
  /\ free_list' = [free_list EXCEPT ![k] = Append(@, Head(queue[k]))]
  /\ UNCHANGED heap

ReadFront(k) ==
  /\ queue[k] # << >>
  /\ queue' = [queue EXCEPT ![k] = Tail(@)]
  /\ UNCHANGED <<heap, free_list>>

FreeBuffer(k, b) ==
  /\ free_list' = [free_list EXCEPT ![k] = Append(@, b)]
  /\ UNCHANGED <<heap, queue>>

\* Mutant of Clear: the queued buffers are forgotten.
ClearForgets(k) ==
  /\ queue' = [queue EXCEPT ![k] = << >>]
  /\ UNCHANGED <<heap, free_list>>

Clear(k) ==
  /\ free_list' = [free_list EXCEPT ![k] = @ \o queue[k]]
  /\ queue' = [queue EXCEPT ![k] = << >>]
  /\ UNCHANGED heap

=============================================================================
