----------------------------- MODULE Ownership -----------------------------
(***************************************************************************)
(* The memory of a context with its config, of a parse context, a command  *)
(* and a process (context.c, config.c, command.c, process.c,               *)
(* commandarg.c): what each call allocates, what it keeps when an          *)
(* allocation fails, what it overwrites, and what the done and free        *)
(* functions give back.  A caller such as main() or a test calls them in   *)
(* any order and as often as it likes, an init for the second time         *)
(* included.  Its parse context may be its own or that of the config; the  *)
(* commands and processes it changes or gives up are its own, as they are  *)
(* in every such call of the program and its tests.                        *)
(*                                                                         *)
(* An object is the number of its allocation, the caller is object 1, and  *)
(* the pointers are a set of edges: to be NULL is to have no edge.  The    *)
(* kind of an object is the name of the field it is in, so that a struct   *)
(* and its list elements are found by kind.                                *)
(***************************************************************************)
EXTENDS Integers, FiniteSets, SequencesExt

CONSTANTS CPW_CONFIG_MAX_LINE_TOKEN,
          MaxMade,  \* bound on the definitions and arguments of a file
          Rooms     \* bounds on the allocations, one of which holds

Kind == {"context", "config", "arguments", "parsecontext", "configfile_path", "stream",
         "linetoken", "token", "configerror", "error_message", "command", "process", "args",
         "source", "output"}

ASSUME OwnershipAssumption ==
  /\ {CPW_CONFIG_MAX_LINE_TOKEN, MaxMade} \subseteq Nat
  /\ Rooms \subseteq [Kind -> Nat]

VARIABLES
  room,    \* how many objects of each kind there may be
  kind,    \* of each object
  live,    \* the objects that have not been freed
  points,  \* <<h, o>>: object h has a pointer to object o
  badfree, \* something was freed that was not live
  crashed  \* a call followed a null pointer or read beyond its tokens

vars == <<room, kind, live, points, badfree, crashed>>

Caller == 1

Init ==
  /\ room \in Rooms
  /\ kind = <<"caller">> /\ live = {Caller} /\ points = {}
  /\ badfree = FALSE /\ crashed = FALSE

(* What the fields or the list of h of this name lead to; {} for NULL. *)
Field(h, name) == {o \in DOMAIN kind : <<h, o>> \in points /\ kind[o] = name}

Config == UNION {Field(c, "config") : c \in Field(Caller, "context")}

EdgesTo(h, objects) == {h} \X objects
EdgesOf(h, names)   == {e \in points : e[1] = h /\ kind[e[2]] \in names}

(* The i-th object that a call allocates. *)
NewObject(i) == Len(kind) + i

(* One call: what it allocates and frees, the pointers it clears or        *)
(* overwrites, and those it sets.                                          *)
Change(new, freed, cleared, set) ==
  /\ ~crashed
  /\ kind' = kind \o new
  /\ \A k \in ToSet(new) : Cardinality({o \in DOMAIN kind' : kind'[o] = k}) <= room[k]
  /\ live' = (live \ freed) \cup {NewObject(i) : i \in DOMAIN new}
  /\ badfree' = (badfree \/ ~(freed \subseteq live))
  /\ points' = (points \ cleared) \cup set
  /\ UNCHANGED <<room, crashed>>

(* The program ends, and its memory with it. *)
Crash ==
  /\ ~crashed /\ crashed' = TRUE
  /\ kind' = <<"caller">> /\ live' = {Caller} /\ points' = {}
  /\ UNCHANGED <<room, badfree>>

(* The caller has room for one pointer of each kind. *)
NewOfCaller(name) ==
  /\ Field(Caller, name) = {}
  /\ Change(<<name>>, {}, {}, {<<Caller, NewObject(1)>>})

-----------------------------------------------------------------------------
cpw_context_new == NewOfCaller("context")

(* Each may fail on its own.  What the fields held before is not looked at.*)
cpw_context_init ==
  \E c \in Field(Caller, "context") :
    \E got \in {<<>>, <<"config">>, <<"arguments">>, <<"config", "arguments">>} :
      Change(got, {}, EdgesOf(c, {"config", "arguments"}),
             EdgesTo(c, {NewObject(i) : i \in DOMAIN got}))

Fault_cpw_context_free ==  \* the arguments go with the structure
  \E c \in Field(Caller, "context") :
    Change(<<>>, {c} \cup Field(c, "config"), EdgesTo(Caller, {c}), {})

(* The config is freed, not what it leads to. *)
cpw_context_free ==
  \E c \in Field(Caller, "context") :
    Change(<<>>, {c} \cup Field(c, "config") \cup Field(c, "arguments"),
           EdgesTo(Caller, {c}), {})

-----------------------------------------------------------------------------
(* What cpw_parsecontext_init assigns, in its order.  The first that       *)
(* cannot be had ends it; the memory of a token may be NULL.               *)
Assigned == <<"configfile_path", "stream", "linetoken">>
Tokens   == 0..CPW_CONFIG_MAX_LINE_TOKEN
Initial  == {SubSeq(Assigned, 1, n) : n \in 0..2}
              \cup {Assigned \o [i \in 1..n |-> "token"] : n \in Tokens}

(* The field that could not be filled is overwritten as well; the errors   *)
(* are dropped at the end, when all went well.                             *)
Overwritten(got) ==
  IF Len(got) >= 3 THEN ToSet(Assigned) \cup {"configerror"}
                   ELSE {Assigned[i] : i \in 1..Len(got) + 1}

(* The pointers of parse context p to got, allocated from object b on. *)
Initialised(p, got, b) ==
  {<<p, b + i>> : i \in {j \in DOMAIN got : got[j] # "token"}}
    \cup {<<b + 3, b + i>> : i \in {j \in DOMAIN got : got[j] = "token"}}

cpw_parsecontext_new == NewOfCaller("parsecontext")

(* The parse contexts a caller can name: its own and that of the config. *)
Parsecontexts == UNION {Field(h, "parsecontext") : h \in {Caller} \cup Config}

cpw_parsecontext_init ==
  \E p \in Parsecontexts : \E got \in Initial :
    Change(got, {}, EdgesOf(p, Overwritten(got)), Initialised(p, got, Len(kind)))

(* The parse context is a new one, which may not be had; command, process  *)
(* and parsecontext of the config are overwritten.                         *)
cpw_config_init ==
  \E g \in Config :
    LET fields == EdgesOf(g, {"parsecontext", "command", "process"})
    IN  \/ Change(<<>>, {}, fields, {})
        \/ \E got \in Initial :
             Change(<<"parsecontext">> \o got, {}, fields,
                    {<<g, NewObject(1)>>} \cup Initialised(NewObject(1), got, NewObject(1)))

(* An error without memory for its message is not put into the list. *)
AnError == {<<"configerror">>, <<"configerror", "error_message">>}
Appended(p, error) ==
  IF Len(error) = 2 THEN {<<p, NewObject(1)>>, <<NewObject(1), NewObject(2)>>} ELSE {}

cpw_parsecontext_add_config_error ==
  \E p \in Parsecontexts : \E error \in AnError :
    Change(error, {}, {}, Appended(p, error))

(* fclose(NULL) and linetoken->token crash; so does a parse context that   *)
(* is NULL, for it is the address of the pointer that is looked at twice.  *)
cpw_parsecontext_done ==
  \E h \in {Caller} \cup Config :
    \/ \E p \in Field(h, "parsecontext") :
         /\ Field(p, "stream") # {} /\ Field(p, "linetoken") # {}
         /\ Change(<<>>, {p} \cup Field(p, "stream") \cup Field(p, "configfile_path")
                           \cup Field(p, "configerror")
                           \cup UNION {Field(l, "token") : l \in Field(p, "linetoken")},
                   EdgesTo(h, {p}), {})
    \/ /\ \A p \in Field(h, "parsecontext") :
            Field(p, "stream") = {} \/ Field(p, "linetoken") = {}
       /\ Crash

-----------------------------------------------------------------------------
(* A pass over the file may add errors; one stands for all of them, and    *)
(* more come with the next pass.  It needs the stream, and the linetoken   *)
(* for every line; what is not there, or lies beyond the tokens of a line  *)
(* (module Tokens), may end it.                                            *)
CanRead(p, new) == Field(p, "stream") # {} /\ (Field(p, "linetoken") = {} => new = <<>>)

cpw_config_validate_configfile_syntax ==
  \/ \E p \in Parsecontexts : \E error \in {<<>>} \cup AnError :
       /\ CanRead(p, error)
       /\ Change(error, {}, {}, Appended(p, error))
  \/ Crash

(* The logic pass of parse context p makes these commands, processes and   *)
(* arguments: owner is the definition an argument belongs to, uses the     *)
(* command a process names, 0 for none.                                    *)
Made  == SeqOf({"command", "process", "args"}, MaxMade)
At(new, names) == {NewObject(i) : i \in {j \in DOMAIN new : new[j] \in names}}

Defined(new, owner, uses) ==
  {<<owner[a], a>> : a \in At(new, {"args"})}
    \cup {<<o, uses[o]>> : o \in {q \in At(new, {"process"}) : uses[q] # 0}}

(* Both lists are put into the config when the parse context has no error, *)
(* one of the syntax pass included, and there is a config.                 *)
cpw_config_validate_configfile_logic ==
  \/ \E p \in Parsecontexts, made \in Made : \E error \in {<<>>} \cup AnError :
     LET new   == error \o made
         lists == At(new, {"command", "process"})
         valid == Field(p, "configerror") = {} /\ Len(error) # 2
     IN  /\ CanRead(p, new)
         /\ \E owner \in [At(new, {"args"}) -> lists],
               uses \in [At(new, {"process"}) -> At(new, {"command"}) \cup {0}],
               config \in {{}} \cup {{g} : g \in Config} :
              /\ \A a \in DOMAIN owner : owner[a] < a
              /\ Change(new, {},
                   {e \in points : valid /\ e[1] \in config /\ kind[e[2]] \in {"command", "process"}},
                   Appended(p, error) \cup Defined(new, owner, uses)
                     \cup IF valid THEN config \X lists ELSE {})
  \/ Crash

-----------------------------------------------------------------------------
cpw_command_new == NewOfCaller("command")
cpw_process_new == NewOfCaller("process")

AddToOwn(owner, name) ==
  \E o \in Field(Caller, owner) : Change(<<name>>, {}, {}, {<<o, NewObject(1)>>})

cpw_command_add_arg == AddToOwn("command", "args")
cpw_process_add_arg == AddToOwn("process", "args")

(* A source or an output is made, and kept, by the caller. *)
AddOfCaller(name) ==
  \E o \in Field(Caller, "process") :
    Change(<<name>>, {}, {}, {<<o, NewObject(1)>>, <<Caller, NewObject(1)>>})

cpw_process_add_source == AddOfCaller("source")
cpw_process_add_output == AddOfCaller("output")

(* The list is the caller's own or that of the config; the command stays   *)
(* where it is.                                                            *)
cpw_process_set_command ==
  \E o \in Field(Caller, "process"), h \in {Caller} \cup Config :
    \E c \in Field(h, "command") :
      Change(<<>>, {}, EdgesOf(o, {"command"}), {<<o, c>>})

Fault_cpw_command_done ==  \* the structure is freed too
  \E c \in Field(Caller, "command") :
    Change(<<>>, {c} \cup Field(c, "args"), EdgesTo(Caller, {c}) \cup EdgesOf(c, {"args"}), {})

(* The structure is not freed. *)
cpw_command_done ==
  \E c \in Field(Caller, "command") :
    Change(<<>>, Field(c, "args"), EdgesTo(Caller, {c}) \cup EdgesOf(c, {"args"}), {})

cpw_process_free ==
  \E o \in Field(Caller, "process") :
    Change(<<>>, Field(o, "args"),
           EdgesTo(Caller, {o}) \cup EdgesOf(o, {"args", "source", "output"}), {})

-----------------------------------------------------------------------------
Next ==
  \/ cpw_context_new \/ cpw_context_init \/ cpw_context_free
  \/ cpw_parsecontext_new \/ cpw_parsecontext_init \/ cpw_config_init
  \/ cpw_parsecontext_add_config_error \/ cpw_parsecontext_done
  \/ cpw_config_validate_configfile_syntax \/ cpw_config_validate_configfile_logic
  \/ cpw_command_new \/ cpw_command_add_arg \/ cpw_command_done
  \/ cpw_process_new \/ cpw_process_add_arg \/ cpw_process_add_source \/ cpw_process_add_output
  \/ cpw_process_set_command \/ cpw_process_free

Spec == Init /\ [][Next]_vars

-----------------------------------------------------------------------------
(* Nothing that has not been freed leads to it. *)
Lost == {o \in live \ {Caller} : \A h \in live : <<h, o>> \notin points}

(* Nothing is freed twice, and no pointer of anything that is not lost     *)
(* leads to what has been freed: the command a process borrows from a list *)
(* (process.c:111) and the sources and outputs a caller lends it           *)
(* (process.c:171-201) stay good whoever of them goes first, and so does   *)
(* what an init that failed or was called again leaves in a parse context. *)
HeldIsLive ==
  /\ ~badfree
  /\ \A e \in points : e[1] \in live \ Lost => e[2] \in live

(* Holder and field: what goes with a structure that is freed (the parse   *)
(* context and the lists of a config, context.c:24; the tokens' struct and *)
(* the message of every error, config.c:250-260) ...                       *)
Dropped ==
  {<<"config", "parsecontext">>, <<"config", "command">>, <<"config", "process">>,
   <<"parsecontext", "linetoken">>, <<"configerror", "error_message">>}

(* ... what a second init or validation overwrites (context.c:11-12,       *)
(* config.c:76-95, 332-333, 503-505), and the structures that their done   *)
(* and free functions only forget (command.c:127, process.c:194), be it    *)
(* that a process went on using the command (process.c:111).               *)
Forgotten ==
  {<<"context", "config">>, <<"context", "arguments">>,
   <<"config", "parsecontext">>, <<"config", "command">>, <<"config", "process">>,
   <<"parsecontext", "configfile_path">>, <<"parsecontext", "stream">>,
   <<"parsecontext", "linetoken">>, <<"parsecontext", "configerror">>,
   <<"caller", "command">>, <<"caller", "process">>, <<"process", "command">>}

(* A step loses memory for good only so; or what it has just made, for     *)
(* want of a message (config.c:223-232) or because the file is invalid     *)
(* (config.c:328-337).  Everything else that a call gives up, it frees.    *)
KnownLoss(o) ==
  \/ o \notin DOMAIN kind /\ kind'[o] \in {"configerror", "command", "process"}
  \/ \E e \in points :
       /\ e[2] = o
       /\ <<kind[e[1]], kind[o]>> \in IF e[1] \in live' THEN Forgotten ELSE Dropped

LossesAreKnown == [][\A o \in Lost' \ Lost : KnownLoss(o)]_vars
=============================================================================
