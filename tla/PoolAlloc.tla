------------------------------ MODULE PoolAlloc ------------------------------
(***************************************************************************)
(* Set-up of the two pipes and of the pool when memory runs out: main()    *)
(* from cpw.c:103 to 123 with cpw_pipe_create_with_buflist,                *)
(* cpw_pipe_create, cpw_buflist_new, cpw_pipebuf_new, cpw_pipebuf_init and *)
(* the frees of their error paths.  Each malloc() or calloc() may fail.    *)
(* The set-up goes on where module Startup arrives at "running"; the two   *)
(* share pc and the log.                                                   *)
(*                                                                         *)
(* Objects of the heap are named; heap says what became of each.  The buf  *)
(* field of a pipebuf is NULL exactly when its memory was never had: the   *)
(* size check of cpw_pipebuf_init (pipe.c:329) always passes, FRAME_SIZE   *)
(* being below MAX_FRAME_SIZE.                                             *)
(***************************************************************************)
EXTENDS SequencesExt, Startup

CONSTANTS Depths,        \* the depths cpw_buflist_new may be asked for
          MaxDepth       \* MAX_PIPE_BUF_DEPTH

ASSUME AllocAssumption == Depths \subseteq Int /\ MaxDepth \in Nat \ {0}

Slot == 1..MaxDepth

(* The structs and the memory of each pipe and each buffer. *)
InPipe    == <<"inpipe", 0>>
InName    == <<"inname", 0>>
OutPipe   == <<"outpipe", 0>>
OutName   == <<"outname", 0>>
List      == <<"buflist", 0>>
Struct(b) == <<"pipebuf", b>>
Frame(b)  == <<"buf", b>>

Object == {InPipe, InName, OutPipe, OutName, List}
            \cup {Struct(b) : b \in Slot} \cup {Frame(b) : b \in Slot}

VARIABLES asked,  \* the depth asked for
          depth,  \* the depth of the loop, clamped
          empty,  \* buflist->empty: the buffers made so far
          heap,   \* "none", "live" or "freed", of each object
          badfree \* a pointer was freed that was freed before or never had

allocvars == <<asked, depth, empty, heap, badfree>>
vars == <<startvars, pc, out, allocvars>>

Init ==
  /\ StartInit
  /\ asked \in Depths
  /\ depth = asked
  /\ empty = <<>>
  /\ heap = [o \in Object |-> "none"]
  /\ badfree = FALSE

(* One allocation of o: it succeeds and goes on, or fails, prints messages *)
(* of these levels, and goes to another place.                             *)
Allocate(from, o, onward, failed, levels) ==
  /\ pc = from
  /\ \/ heap' = [heap EXCEPT ![o] = "live"] /\ Goto(onward) /\ CPW_LOG({})
     \/ UNCHANGED heap /\ Goto(failed) /\ CPW_LOG(levels)
  /\ UNCHANGED <<asked, depth, empty, badfree>>

Free(objects) ==
  /\ heap' = [o \in Object |-> IF o \in objects THEN "freed" ELSE heap[o]]
  /\ badfree' = (badfree \/ \E o \in objects : heap[o] # "live")

-----------------------------------------------------------------------------
(* cpw_pipe_create(input01): the struct, then the name.  A failure makes   *)
(* main() exit; the struct is freed when the name cannot be had.           *)
CreateStruct == Allocate("running", InPipe, "name", "failure", {ERROR})
CreateName   == Allocate("name", InName, "depth", "free_pipe", {})

FreePipe ==
  /\ pc = "free_pipe"
  /\ Free({InPipe})
  /\ Goto("failure") /\ CPW_LOG({ERROR})
  /\ UNCHANGED <<asked, depth, empty>>

(* cpw_buflist_new, lines 221-228. *)
CheckDepth ==
  /\ pc = "depth"
  /\ \/ depth <= 0 /\ UNCHANGED depth /\ Goto("undo") /\ CPW_LOG({ERROR})
     \/ depth \in 1..MaxDepth /\ UNCHANGED depth /\ Goto("list") /\ CPW_LOG({})
     \/ depth > MaxDepth /\ depth' = MaxDepth /\ Goto("list") /\ CPW_LOG({WARNING})
  /\ UNCHANGED <<asked, empty, heap, badfree>>

CreateList == Allocate("list", List, "loop", "undo", {ERROR})

(* The buffer the loop is at: the next after those in the list. *)
nextbuf == Len(empty) + 1

Fault_LoopShort ==  \* the loop leaves out the last buffer
  /\ pc = "loop"
  /\ Goto(IF nextbuf < depth THEN "struct" ELSE "out_pipe")
  /\ UNCHANGED <<allocvars, out>>

Loop ==
  /\ pc = "loop"
  /\ Goto(IF nextbuf <= depth THEN "struct" ELSE "out_pipe")
  /\ UNCHANGED <<allocvars, out>>

(* cpw_pipebuf_new: without a struct it returns NULL, and what was made    *)
(* so far is freed.                                                        *)
CreateBufStruct == Allocate("struct", Struct(nextbuf), "frame", "free_list", {ERROR})

(* cpw_pipebuf_init: it says whether it succeeded, cpw_pipebuf_new does    *)
(* not look (pipe.c:322), and the buffer is appended either way.           *)
InitBuf ==
  /\ pc = "frame"
  /\ \/ heap' = [heap EXCEPT ![Frame(nextbuf)] = "live"] /\ CPW_LOG({})
     \/ UNCHANGED heap /\ CPW_LOG({ERROR})
  /\ empty' = Append(empty, nextbuf)
  /\ Goto("loop")
  /\ UNCHANGED <<asked, depth, badfree>>

(* cpw_buflist_free: the buf of each buffer of the list is freed unless it *)
(* is NULL; the structs and the list are not freed.                        *)
Frames == {Frame(b) : b \in {c \in ToSet(empty) : heap[Frame(c)] # "none"}}

cpw_buflist_free == Free(Frames) /\ empty' = <<>>

Fault_FreeListTwice ==  \* the failed list is freed and keeps its buffers
  /\ pc = "free_list"
  /\ Free(Frames)
  /\ Goto("free_in")
  /\ UNCHANGED <<asked, depth, empty, out>>

FreeList ==
  /\ pc = "free_list"
  /\ cpw_buflist_free
  /\ Goto("undo")
  /\ UNCHANGED <<asked, depth, out>>

(* cpw_pipe_create_with_buflist without a pool, lines 142-146, or the end  *)
(* of cpw_pipe_free; main() tells of the failure (cpw.c:105, 112).         *)
Undo ==
  /\ pc = "undo"
  /\ Free({InName, InPipe})
  /\ Goto("failure") /\ CPW_LOG({ERROR})
  /\ UNCHANGED <<asked, depth, empty>>

(* cpw_pipe_create(output01). *)
CreateOutStruct == Allocate("out_pipe", OutPipe, "out_name", "free_in", {ERROR})
CreateOutName   == Allocate("out_name", OutName, "ready", "free_out", {})

FreeOut ==
  /\ pc = "free_out"
  /\ Free({OutPipe})
  /\ Goto("free_in") /\ CPW_LOG({ERROR})
  /\ UNCHANGED <<asked, depth, empty>>

(* cpw_pipe_free(inpipe), cpw.c:113: the pool, then the name and struct. *)
FreeIn ==
  /\ pc = "free_in"
  /\ cpw_buflist_free
  /\ Goto("undo")
  /\ UNCHANGED <<asked, depth, out>>

AllocNext ==
  \/ CreateStruct \/ CreateName \/ FreePipe
  \/ CheckDepth \/ CreateList \/ Loop \/ CreateBufStruct \/ InitBuf
  \/ FreeList \/ Undo
  \/ CreateOutStruct \/ CreateOutName \/ FreeOut \/ FreeIn

Next ==
  \/ StartNext /\ UNCHANGED allocvars
  \/ UNCHANGED startvars /\ AllocNext

Spec == Init /\ [][Next]_vars

-----------------------------------------------------------------------------
(* Whichever allocation fails, at whatever point, all that was had for the *)
(* two pipes and the pool is given back before main() exits but the        *)
(* structs of the pool, which no code frees (pipe.c:298-313, 351-357), and *)
(* along no error path is memory freed twice, or freed that was never had: *)
(* cpw_pipe_create, cpw_pipe_create_with_buflist, cpw_buflist_new and      *)
(* main() share the undoing between them.  The context, the config, the    *)
(* parse context and its stream are not given back at exit() at all; what  *)
(* becomes of them elsewhere is the business of module Ownership.          *)
LeakOnlyStructs ==
  /\ ~badfree
  /\ pc = "failure" =>
       \A o \in Object : heap[o] = "live" =>
         o = List \/ o \in {Struct(b) : b \in Slot}

(* main() goes on only with both pipes and a list of as many different     *)
(* buffers as were asked for, or MaxDepth, each with its struct            *)
(* (pipe.c:221-245).  The memory of a buffer may be missing, for a failed  *)
(* cpw_pipebuf_init is not looked at (pipe.c:322); but then an error has   *)
(* been told of it where errors are shown.                                 *)
PoolIsComplete ==
  pc = "ready" =>
    /\ \A o \in {InPipe, InName, OutPipe, OutName, List} : heap[o] = "live"
    /\ Len(empty) = IF asked > MaxDepth THEN MaxDepth ELSE asked
    /\ IsInjective(empty)
    /\ \A b \in ToSet(empty) :
         /\ heap[Struct(b)] = "live"
         /\ heap[Frame(b)] = "live" \/ (ShowsErrors => ERROR \in out)

(* Not a byte is asked for, for a pipe or for the pool, but with a valid   *)
(* file read with all the memory that it takes, for a command line of      *)
(* options alone; "Check only configfile syntax and logic, then exit"      *)
(* (arg.c:27): with -c never, and the program succeeds when the file is    *)
(* valid and only then (cpw.c:63-116).                                     *)
RunsOnlyWhenReady ==
  /\ (\E o \in Object : heap[o] # "none") => Ready
  /\ pc = "success" => Given("c") /\ valid = "valid"
  /\ Given("c") /\ valid = "valid" => pc = "success"
=============================================================================
