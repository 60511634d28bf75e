------------------------------ MODULE Startup ------------------------------
(***************************************************************************)
(* From main() to the pipes: the context, the command line, the log level, *)
(* the parse context, and whether the program goes on (cpw.c, context.c,   *)
(* arg.c, log.c, config.c).  Any allocation may fail and the file may be   *)
(* missing.  What the file says is the business of module Config: here it  *)
(* turns out valid or not.  Module PoolAlloc goes on from "running".       *)
(***************************************************************************)
EXTENDS Integers, Sequences

CONSTANTS CommandLines,  \* the command lines looked at
          INT_MAX        \* largest int; 2^31 - 1 in the program

ASSUME StartupAssumption ==
  /\ INT_MAX \in Nat /\ INT_MAX >= 256
  /\ \A c \in CommandLines : Len(c) \in Nat /\ c = [i \in 1..Len(c) |-> c[i]]

ERROR == 16
WARNING == 24
INFO == 32
CPW_LOG_LEVEL_DEFAULT == 32

(* An option, or an argument that is none; getopt puts those last. *)
Opt(key, value) == [key |-> key, value |-> value]

VARIABLES
  argv,       \* what is left of the command line
  commandline,
  pc,         \* the next call, or how it ended: "running", "success",
              \* "failure", "usage", "crashed"
  arguments, args,
  has,        \* what could be had of memory and files
  log_ptr, cpw_log_level,
  valid,      \* what validation found: "unknown", "valid", "invalid"
  out         \* levels of the messages printed

logvars == <<log_ptr, cpw_log_level>>
startvars == <<argv, commandline, arguments, args, has, logvars, valid>>

(* calloc() leaves zeros. *)
Zeros == [silent |-> 0, verbose |-> 0, config_file |-> "NULL", log_level |-> 0,
          check_config_only |-> 0]

StartInit ==
  /\ commandline \in CommandLines /\ argv = commandline
  /\ pc = "context_new"
  /\ arguments = Zeros /\ args = <<>>
  /\ has = {}
  /\ log_ptr = FALSE /\ cpw_log_level = CPW_LOG_LEVEL_DEFAULT
  /\ valid = "unknown"
  /\ out = {}

(* CPW_LOG and cpw_log_printf. *)
CPW_LOG(levels) ==
  out' = out \cup {n \in levels : log_ptr' /\ n <= cpw_log_level'}

Goto(place) == pc' = place

-----------------------------------------------------------------------------
cpw_context_new ==
  /\ pc = "context_new"
  /\ has' \in {has, has \cup {"context"}}
  /\ Goto("context_init")
  /\ UNCHANGED <<argv, commandline, arguments, args, logvars, valid, out>>

(* cpw_config_new complains when it gets no memory. *)
cpw_context_init ==
  /\ pc = "context_init"
  /\ UNCHANGED logvars
  /\ \/ /\ "context" \in has
        /\ \E got \in SUBSET {"config", "arguments"} :
             /\ has' = has \cup got
             /\ CPW_LOG(IF "config" \in got THEN {} ELSE {ERROR})
     \/ "context" \notin has /\ CPW_LOG({WARNING}) /\ UNCHANGED has
  /\ Goto("arg_parse")
  /\ UNCHANGED <<argv, commandline, arguments, args, valid>>

cpw_arg_parse ==
  /\ pc = "arg_parse"
  /\ \/ /\ "arguments" \in has
        /\ arguments' = [arguments EXCEPT !.config_file = "/etc/cpw.conf",
                           !.log_level = CPW_LOG_LEVEL_DEFAULT, !.check_config_only = 0]
        /\ Goto("argp_parse")
     \/ "arguments" \notin has /\ Goto("crashed") /\ UNCHANGED arguments
  /\ UNCHANGED <<argv, commandline, args, has, logvars, valid, out>>

Set(o) ==
  CASE o.key = "q" -> [arguments EXCEPT !.silent = 1]
    [] o.key = "v" -> [arguments EXCEPT !.verbose = 1]
    [] o.key = "c" -> [arguments EXCEPT !.check_config_only = 1]
    [] o.key = "f" -> [arguments EXCEPT !.config_file = o.value]
    [] o.key = "l" -> [arguments EXCEPT !.log_level = o.value]
    [] OTHER       -> arguments

(* parse_opt is called for each option, for each other argument, and at    *)
(* the end; argp_usage() ends the program.                                 *)
parse_opt ==
  /\ pc = "argp_parse"
  /\ \/ /\ argv # <<>> /\ Head(argv).key \in {"q", "v", "c", "f", "l"}
        /\ arguments' = Set(Head(argv)) /\ argv' = Tail(argv)
        /\ UNCHANGED <<pc, args>>
     \/ /\ argv # <<>> /\ Head(argv).key = "ARGP_KEY_ARG" /\ Len(args) < 2
        /\ args' = Append(args, Head(argv).value) /\ argv' = Tail(argv)
        /\ UNCHANGED <<pc, arguments>>
     \/ /\ argv = <<>> /\ args = <<>>
        /\ Goto("log_init") /\ UNCHANGED <<argv, arguments, args>>
     \/ /\ \/ argv = <<>> /\ args # <<>>
           \/ argv # <<>> /\ Len(args) = 2
           \/ argv # <<>> /\ Head(argv).key = "unknown"
        /\ Goto("usage") /\ UNCHANGED <<argv, arguments, args>>
  /\ UNCHANGED <<commandline, has, logvars, valid, out>>

(* An int that is too large wraps round. *)
Wrapped(n) == ((n + INT_MAX + 1) % (2 * (INT_MAX + 1))) - (INT_MAX + 1)

Fault_cpw_log_init ==  \* the log function is not set
  /\ pc = "log_init"
  /\ UNCHANGED log_ptr
  /\ cpw_log_level' = Wrapped(arguments.log_level * 8)
  /\ CPW_LOG({INFO})
  /\ Goto("config_init")
  /\ UNCHANGED <<argv, commandline, arguments, args, has, valid>>

cpw_log_init ==
  /\ pc = "log_init"
  /\ log_ptr' = TRUE
  /\ cpw_log_level' = Wrapped(arguments.log_level * 8)
  /\ CPW_LOG({INFO})
  /\ Goto("config_init")
  /\ UNCHANGED <<argv, commandline, arguments, args, has, valid>>

(* What the parse context needs, in its order.  Whether the tokens have    *)
(* memory is not looked at.                                                *)
Needs == <<"parsecontext", "configfile_path", "stream", "linetoken">>

cpw_config_init ==
  /\ pc = "config_init"
  /\ UNCHANGED logvars
  /\ \/ /\ "config" \in has
        /\ \E tokens \in SUBSET {"tokens"} :
             has' = has \cup {Needs[i] : i \in DOMAIN Needs} \cup tokens
        /\ Goto("validate") /\ UNCHANGED out
     \/ /\ "config" \in has
        /\ \E n \in 0..Len(Needs) - 1 : has' = has \cup {Needs[i] : i \in 1..n}
        /\ CPW_LOG({ERROR}) /\ Goto("failure")
     \/ "config" \notin has /\ CPW_LOG({ERROR}) /\ Goto("failure") /\ UNCHANGED has
  /\ UNCHANGED <<argv, commandline, arguments, args, valid>>

Fault_ValidateOnly ==  \* the program goes on after it has checked the file
  /\ pc = "validate"
  /\ UNCHANGED logvars
  /\ \/ valid' = "valid" /\ CPW_LOG({INFO}) /\ Goto("running")
     \/ valid' = "invalid" /\ CPW_LOG({INFO, ERROR}) /\ Goto("failure")
  /\ UNCHANGED <<argv, commandline, arguments, args, has>>

(* A file without a line of tokens is valid and needs none.  With them any *)
(* result is possible, and looking beyond the tokens of a line (module     *)
(* Tokens) or at a token without memory ends the program.                  *)
cpw_config_validate ==
  /\ pc = "validate"
  /\ UNCHANGED logvars
  /\ \/ /\ valid' = "valid" /\ CPW_LOG({INFO})
        /\ Goto(IF arguments.check_config_only = 1 THEN "success" ELSE "running")
     \/ /\ "tokens" \in has
        /\ valid' = "invalid" /\ CPW_LOG({INFO, ERROR}) /\ Goto("failure")
     \/ /\ CPW_LOG({INFO}) /\ Goto("crashed") /\ UNCHANGED valid
  /\ UNCHANGED <<argv, commandline, arguments, args, has>>

StartNext == cpw_context_new \/ cpw_context_init \/ cpw_arg_parse \/ parse_opt \/ cpw_log_init
               \/ cpw_config_init \/ cpw_config_validate

-----------------------------------------------------------------------------
Given(key) == \E i \in DOMAIN commandline : commandline[i].key = key

Ready ==
  /\ valid = "valid" /\ ~Given("c") /\ ~Given("ARGP_KEY_ARG") /\ ~Given("unknown")
  /\ {"context", "config", "arguments", "stream"} \subseteq has

(* The command line does not ask for silence, and asks for no level but    *)
(* one of the documented range that shows errors.                          *)
ShowsErrors == ~Given("q") /\ (Given("l") => arguments.log_level \in 2..8)

(* A failure has been explained when the program ends, be it of the file   *)
(* (cpw.c:77-95) or of the set-up of the pipes (cpw.c:104-116), unless the *)
(* command line is one that should not show it.                            *)
FailuresAreTold == pc = "failure" /\ ShowsErrors => ERROR \in out

(* "Don't produce any output" (arg.c:24).  The option is stored and never  *)
(* looked at: not even the name of the program is held back (cpw.c:59).    *)
QuietIsQuiet == Given("q") => out = {}
=============================================================================
