------------------------------- MODULE BufList -------------------------------
(***************************************************************************)
(* The buffer pool of pipe.c and the data path through it.                 *)
(*                                                                         *)
(* A cpwbuflist holds the same Depth buffers in two lists for its whole    *)
(* life.  cpw_pipe_read fills the head of "empty"; a buffer that is full   *)
(* goes to the tail of "inuse".  cpw_pipe_write drains the head of         *)
(* "inuse"; a buffer that is drained goes to the tail of "empty".  One     *)
(* field, pos, is the fill mark in the first list and the drain mark in    *)
(* the second.  Both pipes of the program share one pool (cpw.c:118).      *)
(*                                                                         *)
(* utlist.h lists are sequences of buffers.  A byte is its number in the   *)
(* order of reading, 1 being the first byte ever read, so that the order   *)
(* and the identity of what is written can be told; 0 is memory that was   *)
(* never filled.  The results of read() and write() are parameters.        *)
(***************************************************************************)
EXTENDS Integers, Sequences, SequencesExt

CONSTANTS Depth,      \* buffers in the pool (pipe.h, PIPE_BUF_DEPTH)
          FrameSize,  \* bytes of a buffer   (pipe.h, FRAME_SIZE)
          MaxBytes    \* bound on the bytes that are ever read

ASSUME DepthAssumption     == Depth \in Nat \ {0}
ASSUME FrameSizeAssumption == FrameSize \in Nat \ {0}
ASSUME MaxBytesAssumption  == MaxBytes \in Nat

Buffer == 1..Depth
Offset == 0..(FrameSize - 1)

VARIABLES empty,  \* buffers to be filled, head first
          inuse,  \* full frames to be written, head first
          pos,    \* cpwpipebuf.pos of each buffer
          data,   \* the bytes in each buffer
          freed,  \* buffers given back to the heap, in order
          nread,  \* bytes read so far
          out     \* bytes written so far, in order

poolvars == <<empty, inuse, pos, data, freed, nread, out>>

-----------------------------------------------------------------------------
(* utlist.h *)

(* fault: DL_PREPEND where DL_APPEND is meant *)
Fault_Prepend(list, b) == <<b>> \o list

DL_APPEND(list, b) == Append(list, b)

DL_DELETE(list, b) == RemoveAt(list, CHOOSE i \in DOMAIN list : list[i] = b)

-----------------------------------------------------------------------------
(* cpw_buflist_new(Depth): buffers are allocated one by one and appended. *)
PoolInit ==
  /\ empty = [b \in Buffer |-> b]
  /\ inuse = <<>>
  /\ pos = [b \in Buffer |-> 0]
  /\ data = [b \in Buffer |-> [i \in Offset |-> 0]]
  /\ freed = <<>>
  /\ nread = 0
  /\ out = <<>>

(* fault: a full buffer goes back to the list it came from *)
Fault_FullStaysEmpty(b, p) ==
  /\ empty' = DL_APPEND(DL_DELETE(empty, b), b)
  /\ pos' = [p EXCEPT ![b] = 0]
  /\ UNCHANGED inuse

(* p: the positions when the call is made.  The ELSE branch is the code's  *)
(* two error logs, "not full to switch" and "not in list to switch".       *)
cpw_buflist_buffer_full(b, p) ==
  IF p[b] = FrameSize /\ Contains(empty, b)
  THEN /\ empty' = DL_DELETE(empty, b)
       /\ pos' = [p EXCEPT ![b] = 0]
       /\ inuse' = DL_APPEND(inuse, b)
  ELSE /\ pos' = p
       /\ UNCHANGED <<empty, inuse>>

(* fault: a drained buffer is taken from inuse and put nowhere *)
Fault_EmptyLoses(b, p) ==
  /\ inuse' = DL_DELETE(inuse, b)
  /\ pos' = [p EXCEPT ![b] = 0]
  /\ UNCHANGED empty

(* fault: pos is not reset *)
Fault_EmptyKeepsPos(b, p) ==
  /\ inuse' = DL_DELETE(inuse, b)
  /\ pos' = p
  /\ empty' = DL_APPEND(empty, b)

cpw_buflist_buffer_empty(b, p) ==
  IF p[b] = FrameSize /\ Contains(inuse, b)
  THEN /\ inuse' = DL_DELETE(inuse, b)
       /\ pos' = [p EXCEPT ![b] = 0]
       /\ empty' = DL_APPEND(empty, b)
  ELSE /\ pos' = p
       /\ UNCHANGED <<empty, inuse>>

(* fault: the buffer is handed on after any read, full or not *)
Fault_FillHandsOnEarly(b, r) ==
  /\ data' = [data EXCEPT ![b] =
                [i \in Offset |-> IF i \in pos[b]..(pos[b] + r - 1)
                                  THEN nread + 1 + (i - pos[b])
                                  ELSE data[b][i]]]
  /\ nread' = nread + r
  /\ cpw_buflist_buffer_full(b, [pos EXCEPT ![b] = FrameSize])
  /\ UNCHANGED <<freed, out>>

(* read() put r bytes into b at pos[b]. *)
Fill(b, r) ==
  LET p == [pos EXCEPT ![b] = @ + r] IN
  /\ data' = [data EXCEPT ![b] =
                [i \in Offset |-> IF i \in pos[b]..(pos[b] + r - 1)
                                  THEN nread + 1 + (i - pos[b])
                                  ELSE data[b][i]]]
  /\ nread' = nread + r
  /\ IF r = FrameSize - pos[b]
     THEN cpw_buflist_buffer_full(b, p)
     ELSE pos' = p /\ UNCHANGED <<empty, inuse>>
  /\ UNCHANGED <<freed, out>>

(* write() took w bytes from b at pos[b]. *)
Drain(b, w) ==
  LET p == [pos EXCEPT ![b] = @ + w] IN
  /\ out' = out \o [k \in 1..w |-> data[b][pos[b] + k - 1]]
  /\ IF w = FrameSize - pos[b]
     THEN cpw_buflist_buffer_empty(b, p)
     ELSE pos' = p /\ UNCHANGED <<empty, inuse>>
  /\ UNCHANGED <<data, freed, nread>>

(* The conditions under which the two functions make their system call,    *)
(* and the number of bytes they ask for.                                   *)
CanRead  == empty # <<>> /\ pos[Head(empty)] < FrameSize
CanWrite == inuse # <<>> /\ pos[Head(inuse)] < FrameSize

(* fault: the whole buffer is asked for, whatever it already holds *)
Fault_ReadWhole == FrameSize

readbytes  == FrameSize - pos[Head(empty)]
writebytes == FrameSize - pos[Head(inuse)]

(* r and w: the result of the call, 0 end of file, -1 an error. *)
cpw_pipe_read(r) ==
  /\ CanRead
  /\ r <= readbytes
  /\ IF r > 0 THEN Fill(Head(empty), r) ELSE UNCHANGED poolvars

cpw_pipe_write(w) ==
  /\ CanWrite
  /\ w <= writebytes
  /\ IF w > 0 THEN Drain(Head(inuse), w) ELSE UNCHANGED poolvars

(* fault: the buffers of inuse are freed and stay in the list *)
Fault_FreeKeepsInuse ==
  /\ freed' = freed \o empty \o inuse
  /\ empty' = <<>>
  /\ UNCHANGED <<inuse, pos, data, nread, out>>

(* Frees every buffer of both lists; the pipebuf structs and the list head *)
(* leak, so that a second call on the shared pool finds two empty lists.   *)
cpw_buflist_free ==
  /\ freed' = freed \o empty \o inuse
  /\ empty' = <<>>
  /\ inuse' = <<>>
  /\ UNCHANGED <<pos, data, nread, out>>

-----------------------------------------------------------------------------
(* The pool under any caller. *)
Read  == \E r \in -1..FrameSize : nread + r <= MaxBytes /\ cpw_pipe_read(r)
Write == \E w \in -1..FrameSize : cpw_pipe_write(w)

PoolNext == Read \/ Write \/ cpw_buflist_free

PoolSpec == PoolInit /\ [][PoolNext]_poolvars

-----------------------------------------------------------------------------
(* Bytes of the frame being collected. *)
partial == IF empty = <<>> THEN 0 ELSE pos[Head(empty)]

(* Bytes of complete frames read so far. *)
ready == nread - partial

running == freed = <<>>

(* Every variable has its type. *)
TypeOK ==
  /\ empty \in Seq(Buffer)
  /\ inuse \in Seq(Buffer)
  /\ freed \in Seq(Buffer)
  /\ pos \in [Buffer -> 0..FrameSize]
  /\ data \in [Buffer -> [Offset -> Nat]]
  /\ nread \in Nat
  /\ out \in Seq(Nat)

(* Whatever the two callers do, every buffer is in exactly one of the two  *)
(* lists, once, or has been freed once: moving and freeing (pipe.c:256-313)*)
(* neither lose a buffer nor duplicate one nor free it twice.              *)
Holds(list, b)   == \E i \in DOMAIN list : list[i] = b
NoDup(list)      == \A i, j \in DOMAIN list : list[i] = list[j] => i = j
Disjoint(l1, l2) == \A i \in DOMAIN l1, j \in DOMAIN l2 : l1[i] # l2[j]

Partition ==
  /\ NoDup(empty) /\ NoDup(inuse) /\ NoDup(freed)
  /\ Disjoint(empty, inuse) /\ Disjoint(empty, freed) /\ Disjoint(inuse, freed)
  /\ \A b \in Buffer : Holds(empty, b) \/ Holds(inuse, b) \/ Holds(freed, b)

(* A buffer that is in a list always has room: the branches "but full"     *)
(* (pipe.c:87) and "but empty" (pipe.c:126), in which a ready pipe would   *)
(* be polled for ever without a system call, are never reached.  Only the  *)
(* head of a list is part filled or part drained.                          *)
AlwaysRoom ==
  \A list \in {empty, inuse} : \A i \in DOMAIN list :
    /\ pos[list[i]] < FrameSize
    /\ i # 1 => pos[list[i]] = 0

(* Bytes are written in the order they were read, each once, and none that *)
(* is stale or was never read: the n-th byte written is the n-th byte read.*)
InOrder == \A n \in DOMAIN out : out[n] = n

(* What the buffers hold while the pool lives: each full frame is a run of *)
(* consecutive bytes (Consecutive) and each follows the one before it      *)
(* (Successive); the first byte still to be written is the one after the   *)
(* last byte written, and the last full frame ends with the last byte of a *)
(* complete frame (Joined), beyond which no full frame reaches (Complete); *)
(* the frame being collected goes on from there (Collecting).              *)
Consecutive ==
  \A i \in DOMAIN inuse : \A k \in Offset :
    data[inuse[i]][k] = data[inuse[i]][0] + k

Successive ==
  \A i \in 1..(Len(inuse) - 1) :
    data[inuse[i + 1]][0] = data[inuse[i]][0] + FrameSize

Joined ==
  IF inuse = <<>>
  THEN ready = Len(out)
  ELSE /\ data[inuse[1]][0] + pos[inuse[1]] = Len(out) + 1
       /\ data[inuse[Len(inuse)]][0] + FrameSize = ready + 1

Complete ==
  \A i \in DOMAIN inuse : data[inuse[i]][0] + FrameSize <= ready + 1

Collecting ==
  empty # <<>> =>
    \A k \in 0..(pos[empty[1]] - 1) : data[empty[1]][k] = ready + k + 1

FrameChain ==
  running => Consecutive /\ Successive /\ Joined /\ Complete /\ Collecting

(* Once freed, the lists stay empty, so nothing is read into memory that   *)
(* has been given back.                                                    *)
NothingAfterFree == ~running => empty = <<>> /\ inuse = <<>>

(* The pool implements FrameRelay: store and forward of whole frames.      *)
Frames == INSTANCE FrameRelay
            WITH ready <- IF running THEN ready ELSE Len(out)
RelaySpec == Frames!Spec
=============================================================================
