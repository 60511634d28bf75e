----------------------------- MODULE FrameRelay -----------------------------
(***************************************************************************)
(* What the buffer pool of pipe.c promises the rest of cpw, with no word   *)
(* of buffers: bytes are accepted in order, none leaves before the frame   *)
(* it belongs to is complete (store and forward), and they leave in the    *)
(* order they came.  Frames are counted from the first byte ever read.     *)
(*                                                                         *)
(* Bytes are numbered from 1 as they are read, so the n-th byte delivered  *)
(* is right exactly when its number is n.                                  *)
(***************************************************************************)
EXTENDS Naturals, Sequences

CONSTANTS FrameSize,  \* bytes of a frame (pipe.h, FRAME_SIZE)
          MaxBytes    \* bound on the bytes that ever arrive

VARIABLES nread,      \* bytes accepted so far
          ready,      \* how many of them belong to complete frames
          out,        \* the bytes delivered, in order
          running     \* FALSE once the pool has been freed

vars == <<nread, ready, out, running>>

Init == /\ nread = 0
        /\ ready = 0
        /\ out = <<>>
        /\ running = TRUE

(* k bytes arrive; they fit in the frame being collected. *)
Accept(k) ==
  /\ running
  /\ k <= FrameSize - (nread - ready)
  /\ nread + k <= MaxBytes
  /\ nread' = nread + k
  /\ ready' = IF nread' - ready = FrameSize THEN nread' ELSE ready
  /\ UNCHANGED <<out, running>>

(* The next k bytes of complete frames leave. *)
Deliver(k) ==
  /\ running
  /\ k <= ready - Len(out)
  /\ out' = out \o [i \in 1..k |-> Len(out) + i]
  /\ UNCHANGED <<nread, ready, running>>

(* The pool is freed: what was accepted and not delivered is dropped. *)
Stop ==
  /\ running
  /\ running' = FALSE
  /\ ready' = Len(out)
  /\ UNCHANGED <<nread, out>>

Next == \/ \E k \in 1..FrameSize : Accept(k) \/ Deliver(k)
        \/ Stop

Spec == Init /\ [][Next]_vars
=============================================================================
