-------------------------------- MODULE Relay --------------------------------
(***************************************************************************)
(* The program: main() of cpw.c from the creation of the two pipes to its  *)
(* end, the signal handler, and the two FIFOs with the processes at their  *)
(* far ends.                                                               *)
(*                                                                         *)
(* cpw is one thread, and pc names the statement it is about to execute.   *)
(* The granularity is that of its system calls: between two of them the    *)
(* producer, the consumer and a signal may intervene.  The FIFOs behave as *)
(* Linux FIFOs do under O_NONBLOCK; their contents are byte counts, the    *)
(* bytes themselves are followed in the pool (module BufList).             *)
(***************************************************************************)
EXTENDS BufList

CONSTANTS InCap,         \* capacity of the input FIFO
          OutCap,        \* capacity of the output FIFO
          MaxSessions,   \* bound on the opens of the input by a producer
          MaxConsumers,  \* bound on the opens of the output by a consumer
          MaxSignals,    \* bound on the signals sent to cpw
          MayFail        \* whether malloc() and open() may run out

ASSUME CapacityAssumption == InCap \in Nat \ {0} /\ OutCap \in Nat \ {0}
ASSUME BoundsAssumption ==
         /\ {MaxSessions, MaxConsumers, MaxSignals} \subseteq Nat
         /\ MayFail \in BOOLEAN

VARIABLES
  pc,          \* the next statement of main()
  infd,        \* inpipe->fd:  "none" (closed), "open" or "bad" (-1)
  outfd,       \* outpipe->fd, likewise
  watched,     \* what rfds and wfds hold when pselect is called
  isset,       \* what they hold when it has returned
  last_signum, \* whether last_signum is not 0
  count,       \* signals handled
  sigpipe,     \* disposition of SIGPIPE inherited by cpw
  inbuf,       \* bytes in the input FIFO
  writing,     \* a producer has the input FIFO open, or blocks opening it
  hup,         \* a producer had it open since cpw opened it (POLLHUP)
  sessions,    \* opens of the input FIFO by a producer
  lost,        \* bytes written to the input FIFO and dropped by the kernel
  outbuf,      \* bytes in the output FIFO
  reading,     \* a consumer has the output FIFO open, or blocks opening it
  consumers    \* opens of the output FIFO by a consumer

loopvars == <<pc, infd, outfd, watched, isset>>
sigvars  == <<last_signum, count, sigpipe>>
invars   == <<inbuf, writing, hup, sessions, lost>>
outvars  == <<outbuf, reading, consumers>>

vars == <<poolvars, loopvars, sigvars, invars, outvars>>

Setup    == {"create_in", "create_out"}
Loop     == {"watch", "select", "asleep", "write", "read", "close", "reopen",
             "check"}
Shutdown == {"free_in", "free_out", "kill"}
Stopped  == {"failed", "aborted", "killed", "exited"}

Alive == pc \notin Stopped

-----------------------------------------------------------------------------
Init ==
  /\ PoolInit
  /\ pc = "create_in"
  /\ infd = "none" /\ outfd = "none"
  /\ watched = {} /\ isset = {}
  /\ last_signum = FALSE /\ count = 0
  /\ sigpipe \in {"default", "ignored"}
  /\ inbuf = 0 /\ writing = FALSE /\ hup = FALSE /\ sessions = 0 /\ lost = 0
  /\ outbuf = 0 /\ reading = FALSE /\ consumers = 0

-----------------------------------------------------------------------------
(* Set-up.  Opening the read end never waits; opening the write end with   *)
(* O_NONBLOCK fails (ENXIO) when no process has the other end open.  The   *)
(* pipe is kept with fd -1, and nothing ever opens it again.               *)

OpenResults == IF MayFail THEN {"open", "bad"} ELSE {"open"}

CreateIn ==
  /\ pc = "create_in"
  /\ \/ /\ MayFail
        /\ pc' = "failed"
        /\ UNCHANGED <<infd, hup>>
     \/ /\ infd' \in OpenResults
        /\ hup' = writing
        /\ pc' = "create_out"
  /\ UNCHANGED <<poolvars, outfd, watched, isset, sigvars, inbuf, writing,
                 sessions, lost, outvars>>

CreateOut ==
  /\ pc = "create_out"
  /\ \/ /\ MayFail
        /\ cpw_buflist_free
        /\ infd' = "none"
        /\ pc' = "failed"
        /\ UNCHANGED outfd
     \/ /\ outfd' \in IF reading THEN OpenResults ELSE {"bad"}
        /\ pc' = "watch"
        /\ UNCHANGED <<poolvars, infd>>
  /\ UNCHANGED <<watched, isset, sigvars, invars, outvars>>

-----------------------------------------------------------------------------
(* The main loop. *)

fd(p) == IF p = "in" THEN infd ELSE outfd

(* fault: the pipes are watched whether or not they have a buffer *)
Fault_WantBoth == {"in", "out"}

(* fault: the output is watched only when the pool is full *)
Fault_WantOutWhenFull == IF empty # <<>> THEN {"in"} ELSE {"out"}

Wanted == {p \in {"in", "out"} : IF p = "in" THEN empty # <<>>
                                              ELSE inuse # <<>>}

(* Lines 141-167.  FD_SET(-1) writes outside the set: a fortified C        *)
(* library aborts, otherwise the bit is beyond the range pselect looks at. *)
Watch ==
  /\ pc = "watch"
  /\ \/ /\ watched' = {p \in Wanted : fd(p) = "open"}
        /\ pc' = "select"
     \/ /\ \E p \in Wanted : fd(p) = "bad"
        /\ pc' = "aborted"
        /\ UNCHANGED watched
  /\ UNCHANGED <<poolvars, infd, outfd, isset, sigvars, invars, outvars>>

Readable == inbuf > 0 \/ (hup /\ ~writing)
Writable == outbuf < OutCap \/ ~reading

Ready == {p \in watched : IF p = "in" THEN Readable ELSE Writable}

(* Line 170: pselect returns at once if something is ready and otherwise   *)
(* sleeps.  It is given no signal mask, so a signal handled just before    *)
(* does not keep it from sleeping.                                         *)
Select ==
  /\ pc = "select"
  /\ isset' = Ready
  /\ pc' = IF Ready = {} THEN "asleep" ELSE "write"
  /\ UNCHANGED <<poolvars, infd, outfd, watched, sigvars, invars, outvars>>

Wake ==
  /\ pc = "asleep"
  /\ Ready # {}
  /\ isset' = Ready
  /\ pc' = "write"
  /\ UNCHANGED <<poolvars, infd, outfd, watched, sigvars, invars, outvars>>

(* Lines 174-181 and cpw_pipe_write.  The consumer may have left or come   *)
(* since pselect returned: write() then fails or raises SIGPIPE.  The      *)
(* FD_ISSET(-1) of a pipe that could not be opened (line 176) aborts a     *)
(* fortified build; elsewhere the bit is not set.                          *)
WriteOut ==
  /\ pc = "write"
  /\ \/ /\ ~("out" \in isset /\ CanWrite)
        /\ pc' = "read"
        /\ UNCHANGED <<poolvars, outbuf>>
     \/ /\ fd("out") = "bad"
        /\ pc' = "aborted"
        /\ UNCHANGED <<poolvars, outbuf>>
     \/ /\ "out" \in isset /\ reading
        /\ \E w \in 1..FrameSize :
             /\ outbuf + w <= OutCap
             /\ cpw_pipe_write(w)
             /\ outbuf' = outbuf + w
        /\ pc' = "read"
     \/ /\ "out" \in isset
        /\ reading /\ outbuf = OutCap
        /\ cpw_pipe_write(-1)
        /\ pc' = "read"
        /\ UNCHANGED outbuf
     \/ /\ "out" \in isset
        /\ ~reading /\ CanWrite
        /\ IF sigpipe = "ignored"
           THEN cpw_pipe_write(-1) /\ pc' = "read"
           ELSE UNCHANGED poolvars /\ pc' = "killed"
        /\ UNCHANGED outbuf
  /\ UNCHANGED <<infd, outfd, watched, isset, sigvars, invars, reading,
                 consumers>>

(* fault: a short read is taken for the end of file *)
Fault_ReadInShortIsEof ==
  /\ pc = "read"
  /\ IF "in" \in isset /\ CanRead
     THEN LET r == IF inbuf < readbytes THEN inbuf ELSE readbytes IN
          /\ inbuf' = inbuf - r
          /\ pc' = IF r < readbytes THEN "close" ELSE "check"
          /\ cpw_pipe_read(r)
     ELSE UNCHANGED <<poolvars, inbuf>> /\ pc' = "check"
  /\ UNCHANGED <<infd, outfd, watched, isset, sigvars, writing, hup,
                 sessions, lost, outvars>>

(* fault: the end of file drops the part of a frame that was read *)
Fault_ReadInEofDrops ==
  /\ pc = "read"
  /\ IF "in" \in isset /\ CanRead
     THEN IF inbuf = 0 /\ ~writing
          THEN /\ pos' = [pos EXCEPT ![Head(empty)] = 0]
               /\ pc' = "close"
               /\ UNCHANGED <<empty, inuse, data, freed, nread, out, inbuf>>
          ELSE LET r == IF inbuf < readbytes THEN inbuf ELSE readbytes IN
               cpw_pipe_read(r) /\ inbuf' = inbuf - r /\ pc' = "check"
     ELSE UNCHANGED <<poolvars, inbuf>> /\ pc' = "check"
  /\ UNCHANGED <<infd, outfd, watched, isset, sigvars, writing, hup,
                 sessions, lost, outvars>>

(* fault: nothing is done at the end of file *)
Fault_ReadInIgnoresEof ==
  /\ pc = "read"
  /\ IF "in" \in isset /\ CanRead
     THEN LET r == IF inbuf < readbytes THEN inbuf ELSE readbytes IN
          cpw_pipe_read(r) /\ inbuf' = inbuf - r
     ELSE UNCHANGED <<poolvars, inbuf>>
  /\ pc' = "check"
  /\ UNCHANGED <<infd, outfd, watched, isset, sigvars, writing, hup,
                 sessions, lost, outvars>>

(* Lines 183-188 and cpw_pipe_read up to the end of file, which goes on    *)
(* with CloseIn.  A producer that came since pselect saw the end of file   *)
(* makes read() fail with EAGAIN, and FD_ISSET(-1) (line 185) may abort.   *)
ReadIn ==
  /\ pc = "read"
  /\ \/ /\ ~("in" \in isset /\ CanRead)
        /\ pc' = "check"
        /\ UNCHANGED <<poolvars, inbuf>>
     \/ /\ fd("in") = "bad"
        /\ pc' = "aborted"
        /\ UNCHANGED <<poolvars, inbuf>>
     \/ /\ "in" \in isset
        /\ \E r \in 1..FrameSize :
             /\ r <= inbuf
             /\ cpw_pipe_read(r)
             /\ inbuf' = inbuf - r
        /\ pc' = "check"
     \/ /\ "in" \in isset
        /\ inbuf = 0 /\ writing
        /\ cpw_pipe_read(-1)
        /\ pc' = "check"
        /\ UNCHANGED inbuf
     \/ /\ "in" \in isset
        /\ inbuf = 0 /\ ~writing
        /\ cpw_pipe_read(0)
        /\ pc' = "close"
        /\ UNCHANGED inbuf
  /\ UNCHANGED <<infd, outfd, watched, isset, sigvars, writing, hup,
                 sessions, lost, outvars>>

(* pipe.c:73.  A FIFO nobody has open any more drops what is in it. *)
CloseIn ==
  /\ pc = "close"
  /\ infd' = "none"
  /\ inbuf' = IF writing THEN inbuf ELSE 0
  /\ lost' = IF writing THEN lost ELSE lost + inbuf
  /\ pc' = "reopen"
  /\ UNCHANGED <<poolvars, outfd, watched, isset, sigvars, writing, hup,
                 sessions, outvars>>

(* pipe.c:74-81. *)
ReopenIn ==
  /\ pc = "reopen"
  /\ infd' \in OpenResults
  /\ hup' = writing
  /\ pc' = "check"
  /\ UNCHANGED <<poolvars, outfd, watched, isset, sigvars, inbuf, writing,
                 sessions, lost, outvars>>

(* fault: the flag is not looked at *)
Fault_CheckNothing ==
  /\ pc = "check"
  /\ pc' = "watch"
  /\ UNCHANGED <<poolvars, infd, outfd, watched, isset, sigvars, invars,
                 outvars>>

(* Lines 207-209. *)
Check ==
  /\ pc = "check"
  /\ pc' = IF last_signum THEN "free_in" ELSE "watch"
  /\ UNCHANGED <<poolvars, infd, outfd, watched, isset, sigvars, invars,
                 outvars>>

-----------------------------------------------------------------------------
(* Lines 213-226: each pipe is closed and the pool is freed through both,  *)
(* then SIGTERM is sent to process group gpid, which is 0 for want of an   *)
(* assignment: cpw handles its own signal before it exits.  What SIGTERM   *)
(* does to a producer or consumer of the group is their leaving.           *)

FreeIn ==
  /\ pc = "free_in"
  /\ infd' = "none"
  /\ cpw_buflist_free
  /\ pc' = "free_out"
  /\ UNCHANGED <<outfd, watched, isset, sigvars, invars, outvars>>

FreeOut ==
  /\ pc = "free_out"
  /\ outfd' = "none"
  /\ cpw_buflist_free
  /\ pc' = "kill"
  /\ UNCHANGED <<infd, watched, isset, sigvars, invars, outvars>>

Kill ==
  /\ pc = "kill"
  /\ count' = count + 1
  /\ last_signum' = TRUE
  /\ pc' = "exited"
  /\ UNCHANGED <<poolvars, infd, outfd, watched, isset, sigpipe, invars,
                 outvars>>

-----------------------------------------------------------------------------
(* sig_handler.  A sleeping pselect returns with EINTR, and the loop goes  *)
(* on to its check; anywhere else the handler leaves main() where it was.  *)
Signal ==
  /\ Alive
  /\ count < MaxSignals
  /\ count' = count + 1
  /\ last_signum' = TRUE
  /\ pc' = IF pc = "asleep" THEN "check" ELSE pc
  /\ UNCHANGED <<poolvars, infd, outfd, watched, isset, sigpipe, invars,
                 outvars>>

-----------------------------------------------------------------------------
(* The other ends of the FIFOs.  One producer and one consumer at a time;  *)
(* they write and read byte by byte, which the reads and writes of cpw see *)
(* as any number of bytes.                                                 *)

ProducerOpen ==
  /\ Alive
  /\ ~writing /\ sessions < MaxSessions
  /\ writing' = TRUE
  /\ hup' = TRUE
  /\ sessions' = sessions + 1
  /\ UNCHANGED <<poolvars, loopvars, sigvars, inbuf, lost, outvars>>

ProducerWrite ==
  /\ Alive
  /\ writing /\ infd = "open"
  /\ inbuf < InCap
  /\ nread + inbuf + lost < MaxBytes
  /\ inbuf' = inbuf + 1
  /\ UNCHANGED <<poolvars, loopvars, sigvars, writing, hup, sessions, lost,
                 outvars>>

ProducerClose ==
  /\ Alive
  /\ writing
  /\ writing' = FALSE
  /\ inbuf' = IF infd = "open" THEN inbuf ELSE 0
  /\ lost' = IF infd = "open" THEN lost ELSE lost + inbuf
  /\ UNCHANGED <<poolvars, loopvars, sigvars, hup, sessions, outvars>>

ConsumerOpen ==
  /\ Alive
  /\ ~reading /\ consumers < MaxConsumers
  /\ reading' = TRUE
  /\ consumers' = consumers + 1
  /\ UNCHANGED <<poolvars, loopvars, sigvars, invars, outbuf>>

ConsumerRead ==
  /\ Alive
  /\ reading /\ outbuf > 0
  /\ outbuf' = outbuf - 1
  /\ UNCHANGED <<poolvars, loopvars, sigvars, invars, reading, consumers>>

ConsumerClose ==
  /\ Alive
  /\ reading
  /\ reading' = FALSE
  /\ outbuf' = IF outfd = "open" THEN outbuf ELSE 0
  /\ UNCHANGED <<poolvars, loopvars, sigvars, invars, consumers>>

-----------------------------------------------------------------------------
Main == \/ CreateIn \/ CreateOut
        \/ Watch \/ Select \/ Wake \/ WriteOut \/ ReadIn \/ CloseIn
        \/ ReopenIn \/ Check
        \/ FreeIn \/ FreeOut \/ Kill

Environment == \/ ProducerOpen \/ ProducerWrite \/ ProducerClose
               \/ ConsumerOpen \/ ConsumerRead \/ ConsumerClose

Next == Main \/ Signal \/ Environment

Spec == Init /\ [][Next]_vars

(* cpw is scheduled whenever it can run, and a consumer that has the       *)
(* output open goes on reading; nothing is assumed of the producer, of     *)
(* signals, or of who comes and leaves.                                    *)
FairSpec == Spec /\ WF_vars(Main) /\ WF_vars(ConsumerRead)

-----------------------------------------------------------------------------
(* Every variable of the program and of its environment has its type.      *)
RelayTypeOK ==
  /\ pc \in Setup \cup Loop \cup Shutdown \cup Stopped
  /\ {infd, outfd} \subseteq {"none", "open", "bad"}
  /\ {watched, isset} \subseteq SUBSET {"in", "out"}
  /\ count \in 0..(MaxSignals + 1)
  /\ sigpipe \in {"default", "ignored"}
  /\ inbuf \in 0..InCap /\ outbuf \in 0..OutCap
  /\ sessions \in 0..MaxSessions /\ consumers \in 0..MaxConsumers
  /\ {last_signum, writing, hup, reading} \subseteq BOOLEAN
  /\ lost \in Nat

(* The sets pselect returned stay valid while they are used, although the  *)
(* write (cpw.c:179) moves buffers between the lists before the read       *)
(* (cpw.c:186) looks at them: the function called for a set bit always has *)
(* a buffer to work on.                                                    *)
ReadyStaysValid ==
  /\ pc = "write" /\ "out" \in isset => CanWrite
  /\ pc \in {"write", "read"} /\ "in" \in isset => CanRead

(* cpw never sleeps with nothing to wake it while both pipes are open: one *)
(* of the two lists is not empty, so one pipe is watched (cpw.c:147-167).  *)
NeverSleepsOnNothing ==
  pc = "asleep" /\ infd = "open" /\ outfd = "open" => watched # {}

(* The pool is shared (cpw.c:118) and freed through both pipes (cpw.c:213- *)
(* 218), and also when the second pipe cannot be created (cpw.c:113): at   *)
(* the end every buffer has been freed exactly once, whichever list it was *)
(* in when the signal came.                                                *)
FreedOnce ==
  pc \in {"kill", "exited"} => NoDup(freed) /\ \A b \in Buffer : Holds(freed, b)

(* A pipe whose output could not be opened stays closed (pipe.c:176-181):  *)
(* then nothing is ever written, and cpw takes in no more than the pool    *)
(* holds, whatever the producer sends.                                     *)
NoOutputNoFlow ==
  outfd = "bad" => out = <<>> /\ nread <= Depth * FrameSize

(* Closing the input at the end of file (pipe.c:73) never drops a byte of  *)
(* the first producer: data is lost only when another producer comes       *)
(* between the read() that saw the end of file and the close(), or when    *)
(* cpw has been told to stop.                                              *)
FirstSessionKept == lost > 0 => sessions > 1 \/ last_signum

-----------------------------------------------------------------------------
(* Under fairness. *)

CannotDeliver == ~reading \/ outfd = "bad" \/ last_signum \/ ~Alive

(* A frame that is complete in the pool is written out, unless the         *)
(* consumer leaves, was not there when cpw started, or cpw is stopped.     *)
FramesDelivered ==
  \A n \in 1..MaxBytes : (ready >= n) ~> (Len(out) >= n \/ CannotDeliver)

(* A byte in the input FIFO is read, unless it is lost at an end of file   *)
(* or the input or the output fails: a full pool is drained and the input  *)
(* is then watched again.                                                  *)
InputDrained ==
  \A n \in 1..MaxBytes :
    (nread + inbuf >= n)
      ~> (nread >= n \/ lost > 0 \/ infd = "bad" \/ CannotDeliver)

(* The loop never spins: once the world outside is quiet cpw sleeps or has *)
(* ended.  In particular the end of file of the input is not reported for  *)
(* ever, because the FIFO is opened anew (pipe.c:73-74).  With SIGPIPE     *)
(* ignored this is not so: a write that fails with EPIPE is retried at     *)
(* once, for ever.                                                         *)
Quiet == pc = "asleep" \/ ~Alive
EventuallyQuiet == sigpipe = "default" => <>[]Quiet

(* After a signal cpw ends, or it sleeps until something happens.          *)
StopsOrSleeps == last_signum ~> Quiet

(* "entering main loop, CTRL-C to bail out" (cpw.c:138): a signal that     *)
(* comes when the loop has been entered ends cpw.                          *)
SignalEndsCpw == [](pc \in Loop /\ ~last_signum => (last_signum ~> ~Alive))
=============================================================================
