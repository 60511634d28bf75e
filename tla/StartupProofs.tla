---------------------------- MODULE StartupProofs ----------------------------
(***************************************************************************)
(* The start of the program up to the main loop (modules Startup and       *)
(* PoolAlloc): nothing is set up but when everything is there and the      *)
(* command line asks for it, a failure says why and gives back what it     *)
(* had, and the pool is whole or there is none.  For command lines of      *)
(* every length, every depth asked for and every largest depth, whatever   *)
(* is missing and wherever memory runs out.                                *)
(*                                                                         *)
(* StartupInv ties what has been parsed so far to the part of the command  *)
(* line that is gone (Parsed): only at the end of it do the arguments say  *)
(* what was given.  ToldInv adds what the log shows.  AllocInv says what   *)
(* is live at each place: the pipes by pc (PipesAre), of the buffers only  *)
(* those of the list, which are 1 to Len(empty), and none that was freed   *)
(* while the list still holds it (FramesAre).                              *)
(***************************************************************************)
EXTENDS PoolAlloc, TLAPS

Early  == {"context_new", "context_init", "arg_parse"}
SetUp  == {"running", "name", "free_pipe", "depth", "list", "loop", "struct", "frame", "free_list",
           "undo", "out_pipe", "out_name", "ready", "free_out", "free_in"}
Late   == {"log_init", "config_init", "validate", "success", "failure"} \cup SetUp

KeyAmong(key, k) == \E j \in 1..k : commandline[j].key = key

(* k arguments have been parsed. *)
Parsed(k) ==
  /\ k + Len(argv) = Len(commandline)
  /\ \A i \in 1..Len(argv) : argv[i] = commandline[k + i]
  /\ arguments.check_config_only = 1 <=> KeyAmong("c", k)
  /\ args = <<>> => ~KeyAmong("ARGP_KEY_ARG", k)
  /\ ~KeyAmong("unknown", k)

StartupInv ==
  /\ commandline \in CommandLines
  /\ Len(argv) \in Nat /\ argv = [i \in 1..Len(argv) |-> argv[i]]
  /\ "check_config_only" \in DOMAIN arguments
  /\ args \in Seq({argument.value : argument \in {commandline[i] : i \in 1..Len(commandline)}})
  /\ \E k \in 0..Len(commandline) : Parsed(k)
  /\ pc \in Early => argv = commandline /\ args = <<>>
  /\ pc \in Late => argv = <<>> /\ args = <<>>
  /\ pc \in Late \cup {"argp_parse"} => "arguments" \in has
  /\ "config" \in has => "context" \in has
  /\ pc = "validate" \/ valid = "valid" => {"config", "stream"} \subseteq has
  /\ pc \in SetUp \cup {"success"} => valid = "valid"
  /\ valid = "valid" => /\ pc \in SetUp \cup {"success", "failure"}
                        /\ arguments.check_config_only = 1 <=> pc = "success"

-----------------------------------------------------------------------------
(* All of the command line has been parsed once nothing of it is left.     *)
LEMMA ParsedAll ==
  ASSUME StartupInv, argv = <<>>, args = <<>>
  PROVE  /\ arguments.check_config_only = 1 <=> Given("c")
         /\ ~Given("ARGP_KEY_ARG") /\ ~Given("unknown")
<1>1. PICK k \in 0..Len(commandline) : Parsed(k)
  BY DEF StartupInv
<1>2. Len(commandline) \in Nat /\ DOMAIN commandline = 1..Len(commandline)
  BY StartupAssumption DEF StartupInv
<1>3. k = Len(commandline)
  BY <1>1, <1>2 DEF Parsed
<1>4. \A key : Given(key) <=> KeyAmong(key, k)
  BY <1>2, <1>3 DEF Given, KeyAmong
<1> QED BY <1>1, <1>4 DEF Parsed

(* One more has been parsed. *)
LEMMA ParseStep ==
  ASSUME StartupInv, pc = "argp_parse", parse_opt
  PROVE  StartupInv'
<1>1. PICK k \in 0..Len(commandline) : Parsed(k)
  BY DEF StartupInv
<1>2. /\ commandline' = commandline /\ has' = has /\ valid' = valid
      /\ "arguments" \in has /\ valid # "valid"
      /\ Len(commandline) \in Nat /\ Len(argv) \in Nat /\ commandline \in CommandLines
      /\ argv = [i \in 1..Len(argv) |-> argv[i]] /\ "check_config_only" \in DOMAIN arguments
  BY StartupAssumption DEF parse_opt, StartupInv, SetUp
<1> DEFINE V == {argument.value : argument \in {commandline[i] : i \in 1..Len(commandline)}}
<1>3. ASSUME UNCHANGED <<argv, arguments, args>>, pc' \in {"log_init", "usage"},
             pc' = "log_init" => argv = <<>> /\ args = <<>>
      PROVE  StartupInv'
  <2>1. Parsed(k)'
    BY <1>1, <1>2, <1>3 DEF Parsed, KeyAmong
  <2> QED BY <1>2, <1>3, <2>1 DEF StartupInv, Early, Late, SetUp
<1>4. ASSUME argv # <<>>, argv' = Tail(argv), pc' = pc,
             \/ /\ Head(argv).key \in {"q", "v", "c", "f", "l"}
                /\ arguments' = Set(Head(argv)) /\ args' = args
             \/ /\ Head(argv).key = "ARGP_KEY_ARG"
                /\ args' = Append(args, Head(argv).value) /\ arguments' = arguments
      PROVE  StartupInv'
  <2> DEFINE o == Head(argv)
             T == {argv[i] : i \in 1..Len(argv)}
  <2>1. argv \in Seq(T) /\ Len(argv) >= 1
    <3>1. argv \in Seq(T)
      BY <1>2
    <3> HIDE DEF T
    <3> QED BY <1>4, <3>1
  <2>2. /\ Len(argv') = Len(argv) - 1 /\ Len(argv') \in Nat
        /\ argv' = [i \in 1..Len(argv') |-> argv'[i]]
        /\ \A i \in 1..Len(argv') : argv'[i] = argv[i + 1]
        /\ o = argv[1]
    <3> HIDE DEF T
    <3>1. argv' \in Seq(T) /\ Len(argv') = Len(argv) - 1 /\ o = argv[1]
          /\ \A i \in 1..Len(argv) - 1 : argv'[i] = argv[i + 1]
      BY <1>4, <2>1
    <3>2. Len(argv') \in Nat /\ argv' = [i \in 1..Len(argv') |-> argv'[i]]
      BY <3>1
    <3> QED BY <3>1, <3>2
  <2>3. /\ k + 1 \in 0..Len(commandline) /\ k + 1 \in 1..Len(commandline) /\ k \in Nat
        /\ k + 1 + Len(argv') = Len(commandline)
    BY <1>1, <1>2, <2>1, <2>2 DEF Parsed
  <2>4. o = commandline[k + 1]
    <3>1. 1 \in 1..Len(argv)
      BY <1>2, <2>1
    <3> QED BY <1>1, <2>2, <3>1 DEF Parsed
  <2>5. \A i \in 1..Len(argv') : argv'[i] = commandline[(k + 1) + i]
    <3> TAKE i \in 1..Len(argv')
    <3>1. i + 1 \in 1..Len(argv) /\ k + (i + 1) = (k + 1) + i
      BY <1>2, <2>2, <2>3
    <3> QED BY <1>1, <2>2, <3>1 DEF Parsed
  <2>6. \A key : KeyAmong(key, k + 1) <=> KeyAmong(key, k) \/ o.key = key
    <3>1. \A j \in 1..k + 1 : j \in 1..k \/ j = k + 1
      BY <2>3
    <3>2. k + 1 \in 1..k + 1 /\ \A j \in 1..k : j \in 1..k + 1
      BY <2>3
    <3> QED BY <2>4, <3>1, <3>2 DEF KeyAmong
  <2> HIDE DEF o, T
  <2>7. /\ "check_config_only" \in DOMAIN arguments'
        /\ arguments'.check_config_only = 1
             <=> (arguments.check_config_only = 1 \/ o.key = "c")
    <3>1. CASE o.key = "ARGP_KEY_ARG"
      BY <1>2, <1>4, <3>1 DEF o
    <3>2. CASE o.key \in {"q", "v", "c", "f", "l"}
      <4>1. arguments' = Set(o)
        BY <1>4, <3>2 DEF o
      <4>2. CASE o.key = "c"
        BY <1>2, <4>1, <4>2 DEF Set
      <4>3. CASE o.key = "q"
        BY <1>2, <4>1, <4>3 DEF Set
      <4>4. CASE o.key = "v"
        BY <1>2, <4>1, <4>4 DEF Set
      <4>5. CASE o.key = "f"
        BY <1>2, <4>1, <4>5 DEF Set
      <4>6. CASE o.key = "l"
        BY <1>2, <4>1, <4>6 DEF Set
      <4> QED BY <3>2, <4>2, <4>3, <4>4, <4>5, <4>6
    <3> QED BY <1>4, <3>1, <3>2 DEF o
  <2>8. args' \in Seq(V) /\ (args' = <<>> => args = <<>> /\ o.key # "ARGP_KEY_ARG")
        /\ o.key # "unknown"
    <3>1. args \in Seq(V) /\ o.value \in V
      BY <2>3, <2>4 DEF StartupInv
    <3> HIDE DEF V
    <3>2. CASE o.key = "ARGP_KEY_ARG"
      <4>1. args' = Append(args, o.value)
        BY <1>4, <3>2 DEF o
      <4> QED BY <3>1, <3>2, <4>1
    <3>3. CASE o.key \in {"q", "v", "c", "f", "l"} /\ args' = args
      BY <3>1, <3>3
    <3> QED BY <1>4, <3>2, <3>3 DEF o
  <2>9. Parsed(k + 1)'
    <3>1. \A key : KeyAmong(key, k + 1)' <=> KeyAmong(key, k + 1)
      BY <1>2 DEF KeyAmong
    <3> QED BY <1>1, <1>2, <2>3, <2>5, <2>6, <2>7, <2>8, <3>1 DEF Parsed
  <2> QED BY <1>2, <1>4, <2>2, <2>3, <2>7, <2>8, <2>9 DEF StartupInv, Early, Late
<1> QED BY <1>3, <1>4 DEF parse_opt, Goto

(* Any other step leaves the command line alone.                           *)
LEMMA OtherStep ==
  ASSUME StartupInv, UNCHANGED <<commandline, argv, args>>,
         arguments'.check_config_only = 1 <=> arguments.check_config_only = 1,
         "check_config_only" \in DOMAIN arguments'
  PROVE  /\ commandline' \in CommandLines
         /\ Len(argv') \in Nat /\ argv' = [i \in 1..Len(argv') |-> argv'[i]]
         /\ args' \in Seq({argument.value :
                             argument \in {commandline'[i] : i \in 1..Len(commandline')}})
         /\ \E k \in 0..Len(commandline') : Parsed(k)'
<1>1. PICK k \in 0..Len(commandline) : Parsed(k)
  BY DEF StartupInv
<1>2. Parsed(k)'
  BY <1>1 DEF Parsed, KeyAmong
<1> QED BY <1>2 DEF StartupInv

LEMMA StartupStep ==
  ASSUME StartupInv, StartNext
  PROVE  StartupInv'
<1> USE DEF Early, Late, SetUp, Goto
<1>1. CASE cpw_context_new
  BY <1>1, OtherStep DEF cpw_context_new, StartupInv
<1>2. CASE cpw_context_init
  BY <1>2, OtherStep DEF cpw_context_init, StartupInv
<1>3. CASE cpw_arg_parse
  <2>1. arguments.check_config_only # 1
    <3>1. PICK k \in 0..Len(commandline) : Parsed(k)
      BY DEF StartupInv
    <3>2. argv = commandline /\ Len(commandline) \in Nat
      BY <1>3 DEF cpw_arg_parse, StartupInv
    <3>3. k = 0
      BY <3>1, <3>2 DEF Parsed
    <3> QED BY <3>1, <3>3 DEF Parsed, KeyAmong
  <2>2. /\ "check_config_only" \in DOMAIN arguments'
        /\ arguments'.check_config_only # 1
    <3>1. "check_config_only" \in DOMAIN arguments
      BY DEF StartupInv
    <3>2. CASE UNCHANGED arguments
      BY <2>1, <3>1, <3>2
    <3>3. CASE arguments' = [arguments EXCEPT !.config_file = "/etc/cpw.conf",
                               !.log_level = CPW_LOG_LEVEL_DEFAULT, !.check_config_only = 0]
      BY <3>1, <3>3
    <3> QED BY <1>3, <3>2, <3>3 DEF cpw_arg_parse
  <2>3. UNCHANGED <<commandline, argv, args, has, valid>>
    BY <1>3 DEF cpw_arg_parse
  <2>4. pc = "arg_parse" /\ (pc' = "crashed" \/ (pc' = "argp_parse" /\ "arguments" \in has))
    BY <1>3 DEF cpw_arg_parse
  <2>5. /\ commandline' \in CommandLines
        /\ Len(argv') \in Nat /\ argv' = [i \in 1..Len(argv') |-> argv'[i]]
        /\ args' \in Seq({argument.value :
                             argument \in {commandline'[i] : i \in 1..Len(commandline')}})
        /\ \E k \in 0..Len(commandline') : Parsed(k)'
    BY <2>1, <2>2, <2>3, OtherStep
  <2> QED BY <2>2, <2>3, <2>4, <2>5 DEF StartupInv
<1>4. CASE parse_opt
  BY <1>4, ParseStep DEF parse_opt
<1>5. CASE cpw_log_init
  BY <1>5, OtherStep DEF cpw_log_init, StartupInv
<1>6. CASE cpw_config_init
  BY <1>6, OtherStep DEF cpw_config_init, Needs, StartupInv
<1>7. CASE cpw_config_validate
  BY <1>7, OtherStep DEF cpw_config_validate, StartupInv
<1> QED BY <1>1, <1>2, <1>3, <1>4, <1>5, <1>6, <1>7 DEF StartNext

(* So does the set-up of the pipes, which stays set-up until it is ready   *)
(* or fails.                                                               *)
LEMMA SetUpPlaces ==
  ASSUME AllocNext
  PROVE  pc \in SetUp /\ pc' \in SetUp \cup {"failure"}
BY DEF AllocNext, CreateStruct, CreateName, FreePipe, CheckDepth, CreateList, Loop,
       CreateBufStruct, InitBuf, FreeList, Undo, CreateOutStruct, CreateOutName, FreeOut, FreeIn,
       Allocate, Goto, SetUp

LEMMA StartupKept ==
  ASSUME StartupInv, UNCHANGED startvars, AllocNext \/ pc' = pc
  PROVE  StartupInv'
<1>1. pc' = pc \/ (pc \in SetUp /\ pc' \in SetUp \cup {"failure"})
  BY SetUpPlaces
<1>2. UNCHANGED <<argv, commandline, arguments, args, has, valid>>
  BY DEF startvars
<1> QED BY <1>1, <1>2, OtherStep DEF StartupInv, Early, Late, SetUp

(* What is parsed and what is there, at each place of main() (cpw.c:60-97).*)
THEOREM StartupInvariant == Spec => []StartupInv
<1>1. Init => StartupInv
  <2> SUFFICES ASSUME Init PROVE StartupInv
    OBVIOUS
  <2>1. Parsed(0) /\ 0 \in 0..Len(commandline)
    BY StartupAssumption DEF Init, StartInit, Parsed, KeyAmong, Zeros
  <2> QED BY <2>1, StartupAssumption DEF Init, StartInit, StartupInv, Early, Late, SetUp, Zeros
<1>2. StartupInv /\ [Next]_vars => StartupInv'
  BY StartupStep, StartupKept DEF Next, vars
<1> QED BY <1>1, <1>2, PTL DEF Spec

-----------------------------------------------------------------------------
(* With a level that shows errors the log has told the error by the time   *)
(* the program ends; the level is what the command line said or else the   *)
(* default, and neither wraps round.                                       *)
Logging == {"config_init", "validate", "failure"} \cup SetUp

ToldInv ==
  /\ "log_level" \in DOMAIN arguments
  /\ pc \in Late \cup {"argp_parse"} => Given("l") \/ arguments.log_level = 32
  /\ pc \in Logging => log_ptr = TRUE /\ cpw_log_level = Wrapped(arguments.log_level * 8)
  /\ pc = "failure" /\ ShowsErrors => ERROR \in out

LEMMA Remainder ==
  ASSUME NEW a \in Nat, NEW b \in Nat, a < b
  PROVE  a % b = a
OBVIOUS

LEMMA DoesNotWrap ==
  ASSUME NEW n \in Nat, n <= INT_MAX
  PROVE  Wrapped(n) = n
<1>1. n + INT_MAX + 1 \in Nat /\ 2 * (INT_MAX + 1) \in Nat /\ n + INT_MAX + 1 < 2 * (INT_MAX + 1)
  BY StartupAssumption
<1>2. (n + INT_MAX + 1) % (2 * (INT_MAX + 1)) = n + INT_MAX + 1
  BY <1>1, Remainder
<1> QED BY <1>2, StartupAssumption DEF Wrapped

LEMMA LoudEnough ==
  ASSUME ToldInv, pc \in Logging, ShowsErrors
  PROVE  log_ptr = TRUE /\ ERROR <= cpw_log_level
<1>1. arguments.log_level \in 2..8 \/ arguments.log_level = 32
  BY DEF ToldInv, ShowsErrors, Logging, Late, SetUp
<1>2. /\ arguments.log_level * 8 \in Nat /\ arguments.log_level * 8 <= INT_MAX
      /\ 16 <= arguments.log_level * 8
  BY <1>1, StartupAssumption
<1>3. Wrapped(arguments.log_level * 8) = arguments.log_level * 8
  BY <1>2, DoesNotWrap
<1> QED BY <1>2, <1>3 DEF ToldInv, ERROR

LEMMA ToldStep ==
  ASSUME StartupInv, ToldInv, [Next]_vars
  PROVE  ToldInv'
<1> USE DEF Early, Late, SetUp, Logging, Goto
<1>1. ASSUME commandline' = commandline, arguments' = arguments, logvars' = logvars,
             pc' \in Late \cup {"argp_parse"} => pc \in Late \cup {"argp_parse"},
             pc' \in Logging => pc \in Logging,
             pc' = "failure" => (pc = "failure" /\ out' = out)
                                \/ \E levels : ERROR \in levels /\ CPW_LOG(levels)
      PROVE  ToldInv'
  <2>1. Given("l")' <=> Given("l")
    BY <1>1 DEF Given
  <2>2. ShowsErrors' <=> ShowsErrors
    BY <1>1, <2>1 DEF ShowsErrors, Given
  <2>3. log_ptr' = log_ptr /\ cpw_log_level' = cpw_log_level
    BY <1>1 DEF logvars
  <2>4. ASSUME pc' = "failure", ShowsErrors PROVE ERROR \in out'
    <3>1. pc \in Logging
      BY <1>1, <2>4
    <3>2. log_ptr' = TRUE /\ ERROR <= cpw_log_level'
      BY <2>3, <2>4, <3>1, LoudEnough
    <3>3. CASE pc = "failure" /\ out' = out
      BY <2>4, <3>3 DEF ToldInv
    <3>4. CASE \E levels : ERROR \in levels /\ CPW_LOG(levels)
      BY <3>2, <3>4 DEF CPW_LOG
    <3> QED BY <1>1, <2>4, <3>3, <3>4
  <2> QED BY <1>1, <2>1, <2>2, <2>3, <2>4 DEF ToldInv
<1>2. CASE cpw_context_new
  BY <1>1, <1>2 DEF cpw_context_new
<1>3. CASE cpw_context_init
  BY <1>1, <1>3 DEF cpw_context_init
<1>4. CASE cpw_arg_parse
  <2>1. commandline' = commandline /\ pc' \in {"argp_parse", "crashed"} /\ pc = "arg_parse"
    BY <1>4 DEF cpw_arg_parse
  <2>2. CASE arguments' = arguments /\ pc' = "crashed"
    BY <2>1, <2>2 DEF ToldInv
  <2>3. CASE arguments' = [arguments EXCEPT !.config_file = "/etc/cpw.conf",
                             !.log_level = CPW_LOG_LEVEL_DEFAULT, !.check_config_only = 0]
    <3>1. "log_level" \in DOMAIN arguments'
      BY <2>3 DEF ToldInv
    <3>2. arguments'.log_level = 32
      BY <2>3 DEF ToldInv, CPW_LOG_LEVEL_DEFAULT
    <3> QED BY <2>1, <3>1, <3>2 DEF ToldInv
  <2> QED BY <1>4, <2>2, <2>3 DEF cpw_arg_parse
<1>5. CASE parse_opt
  <2>1. /\ pc = "argp_parse" /\ commandline' = commandline
        /\ pc' \in {"argp_parse", "log_init", "usage"}
    BY <1>5 DEF parse_opt
  <2>2. Given("l")' <=> Given("l")
    BY <2>1 DEF Given
  <2>3. CASE arguments' = arguments
    BY <2>1, <2>2, <2>3 DEF ToldInv
  <2>4. CASE argv # <<>> /\ Head(argv).key \in {"q", "v", "c", "f", "l"}
             /\ arguments' = Set(Head(argv))
    <3>1. "log_level" \in DOMAIN arguments'
      BY <2>4 DEF Set, ToldInv
    <3>2. CASE Head(argv).key = "l"
      <4>1. PICK k \in 0..Len(commandline) : Parsed(k)
        BY DEF StartupInv
      <4>2. /\ Len(argv) \in Nat /\ argv = [j \in 1..Len(argv) |-> argv[j]]
            /\ Len(commandline) \in Nat /\ commandline = [j \in 1..Len(commandline) |-> commandline[j]]
        BY StartupAssumption DEF StartupInv
      <4>3. Len(argv) >= 1 /\ Head(argv) = argv[1]
        <5> DEFINE T == {argv[j] : j \in 1..Len(argv)}
        <5>1. argv \in Seq(T)
          BY <4>2
        <5> HIDE DEF T
        <5> QED BY <2>4, <5>1
      <4>4. argv[1] = commandline[k + 1] /\ k + 1 \in 1..Len(commandline)
        BY <4>1, <4>2, <4>3 DEF Parsed
      <4>5. k + 1 \in DOMAIN commandline /\ commandline[k + 1].key = "l"
        BY <3>2, <4>2, <4>3, <4>4
      <4>6. Given("l")
        BY <4>5 DEF Given
      <4> QED BY <2>1, <2>2, <3>1, <4>6 DEF ToldInv
    <3>3. CASE Head(argv).key # "l"
      <4>1. arguments'.log_level = arguments.log_level
        BY <2>4, <3>3 DEF Set, ToldInv
      <4> QED BY <2>1, <2>2, <3>1, <4>1 DEF ToldInv
    <3> QED BY <3>2, <3>3
  <2> QED BY <1>5, <2>3, <2>4 DEF parse_opt
<1>6. CASE cpw_log_init
  <2>1. /\ pc = "log_init" /\ pc' = "config_init" /\ commandline' = commandline
        /\ arguments' = arguments /\ log_ptr' = TRUE
        /\ cpw_log_level' = Wrapped(arguments.log_level * 8)
    BY <1>6 DEF cpw_log_init
  <2>2. Given("l")' <=> Given("l")
    BY <2>1 DEF Given
  <2> QED BY <2>1, <2>2 DEF ToldInv, Wrapped
<1>7. CASE cpw_config_init
  <2>1. pc = "config_init" /\ UNCHANGED <<logvars, arguments, commandline>>
        /\ (pc' = "validate" \/ (pc' = "failure" /\ CPW_LOG({ERROR})))
    BY <1>7 DEF cpw_config_init
  <2> QED BY <1>1, <2>1
<1>8. CASE cpw_config_validate
  <2>1. pc = "validate" /\ UNCHANGED <<logvars, arguments, commandline>>
        /\ (pc' \in {"success", "running", "crashed"}
             \/ (pc' = "failure" /\ CPW_LOG({INFO, ERROR})))
    BY <1>8 DEF cpw_config_validate
  <2> QED BY <1>1, <2>1
<1>9. CASE UNCHANGED vars
  BY <1>1, <1>9 DEF vars, startvars, logvars
<1>10. CASE UNCHANGED startvars /\ AllocNext
  <2>1. UNCHANGED <<commandline, arguments, logvars>>
    BY <1>10 DEF startvars
  <2>2. pc \in SetUp /\ pc' \in SetUp \cup {"failure"}
    BY <1>10, SetUpPlaces
  <2>3. pc' = "failure" => CPW_LOG({ERROR})
    BY <1>10 DEF AllocNext, CreateStruct, CreateName, FreePipe, CheckDepth, CreateList, Loop,
                 CreateBufStruct, InitBuf, FreeList, Undo, CreateOutStruct, CreateOutName, FreeOut,
                 FreeIn, Allocate
  <2> QED BY <1>1, <2>1, <2>2, <2>3
<1> QED BY <1>2, <1>3, <1>4, <1>5, <1>6, <1>7, <1>8, <1>9, <1>10 DEF Next, StartNext

(* The level of the log is the one asked for or else the default, and an   *)
(* error it shows has been told when the program fails (cpw.c:58-116).     *)
THEOREM ToldInvariant == Spec => []ToldInv
<1>1. Init => ToldInv
  BY DEF Init, StartInit, ToldInv, Zeros, Late, SetUp, Logging
<1>2. StartupInv /\ ToldInv /\ [Next]_vars => ToldInv'
  BY ToldStep
<1> QED BY <1>1, <1>2, StartupInvariant, PTL DEF Spec

(* A failure has been explained when the program ends, whether it is of    *)
(* the file or of the set-up of the pipes (cpw.c:77-116), unless the       *)
(* command line asks for silence or for a level below errors.              *)
THEOREM StartupFailuresAreTold == Spec => []FailuresAreTold
<1>1. ToldInv => FailuresAreTold
  BY DEF ToldInv, FailuresAreTold
<1> QED BY <1>1, ToldInvariant, PTL

-----------------------------------------------------------------------------
Making  == {"loop", "struct", "frame", "free_list"}
Made    == {"out_pipe", "out_name", "ready", "free_out", "free_in"}
Before  == {"context_new", "context_init", "arg_parse", "argp_parse", "log_init", "config_init",
            "validate", "running", "success", "usage", "crashed"}
HasPipe == {"name", "free_pipe"} \cup {"depth", "list", "undo"} \cup Making \cup Made

Clamped == IF asked > MaxDepth THEN MaxDepth ELSE asked

AllocTypeOK ==
  /\ pc \in Before \cup {"failure"} \cup HasPipe
  /\ asked \in Int /\ depth \in Int
  /\ Len(empty) \in 0..MaxDepth /\ empty = [j \in 1..Len(empty) |-> j]
  /\ heap \in [Object -> {"none", "live", "freed"}]
  /\ ~badfree

PipesAre ==
  /\ heap[InPipe] = "live" <=> pc \in HasPipe
  /\ heap[InName] = "live" <=> pc \in HasPipe \ {"name", "free_pipe"}
  /\ heap[OutPipe] = "live" <=> pc \in {"out_name", "ready", "free_out"}
  /\ heap[OutName] = "live" <=> pc = "ready"
  /\ pc \in Making \cup Made => heap[List] = "live"

FramesAre ==
  \A b \in Slot :
    /\ heap[Frame(b)] = "live" => b <= Len(empty)
    /\ heap[Frame(b)] = "freed" => pc \in {"undo", "failure"}

DepthIs ==
  /\ pc \notin Making \cup Made => empty = <<>>
  /\ pc \in Before \cup {"name", "free_pipe", "depth"} => depth = asked
  /\ pc \in {"list"} \cup Making \cup Made => depth > 0 /\ depth = Clamped
  /\ pc \in {"loop", "struct", "frame"} => Len(empty) <= depth
  /\ pc \in {"struct", "frame"} => Len(empty) + 1 <= depth
  /\ pc \in Made => Len(empty) = depth

AllocInv == AllocTypeOK /\ PipesAre /\ FramesAre /\ DepthIs

-----------------------------------------------------------------------------
(* The objects are different from each other. *)
LEMMA Objects ==
  /\ {InPipe, InName, OutPipe, OutName, List} \subseteq Object
  /\ InPipe # InName /\ InPipe # OutPipe /\ InPipe # OutName /\ InPipe # List
  /\ InName # OutPipe /\ InName # OutName /\ InName # List
  /\ OutPipe # OutName /\ OutPipe # List /\ OutName # List
  /\ \A b \in Slot :
       /\ Frame(b) \in Object /\ Struct(b) \in Object
       /\ Frame(b) \notin {InPipe, InName, OutPipe, OutName, List}
       /\ Struct(b) \notin {InPipe, InName, OutPipe, OutName, List}
       /\ \A c \in Slot : Frame(b) # Struct(c) /\ (Frame(b) = Frame(c) => b = c)
BY DEF Object, InPipe, InName, OutPipe, OutName, List, Frame, Struct

(* An object is a part of the pipes or of the pool. *)
LEMMA ObjectCases ==
  ASSUME NEW o \in Object
  PROVE  \/ o \in {InPipe, InName, OutPipe, OutName, List}
         \/ \E b \in Slot : o = Struct(b) \/ o = Frame(b)
BY DEF Object

(* What an allocation does to the heap. *)
LEMMA AllocateIs ==
  ASSUME AllocInv, NEW from, NEW o \in Object, NEW onward, NEW failed, NEW levels,
         Allocate(from, o, onward, failed, levels)
  PROVE  /\ pc = from /\ asked' = asked /\ depth' = depth /\ empty' = empty /\ badfree' = badfree
         /\ heap' \in [Object -> {"none", "live", "freed"}]
         /\ \A x \in Object : x # o => heap'[x] = heap[x]
         /\ \/ heap'[o] = "live" /\ pc' = onward
            \/ heap'[o] = heap[o] /\ pc' = failed
BY DEF Allocate, Goto, AllocInv, AllocTypeOK

(* Freeing what is live, and no frame twice. *)
LEMMA FreeIs ==
  ASSUME AllocInv, NEW objects \in SUBSET Object, Free(objects),
         \A o \in objects : heap[o] = "live"
  PROVE  /\ ~badfree' /\ heap' \in [Object -> {"none", "live", "freed"}]
         /\ \A o \in Object : heap'[o] = IF o \in objects THEN "freed" ELSE heap[o]
BY DEF Free, AllocInv, AllocTypeOK

(* The frames of the list are those that are live. *)
LEMMA FramesLive ==
  ASSUME AllocInv, pc \notin {"undo", "failure"}
  PROVE  /\ Frames \in SUBSET Object
         /\ \A o \in Frames : heap[o] = "live"
         /\ \A b \in Slot : heap[Frame(b)] = "live" => Frame(b) \in Frames
         /\ Frames \cap {InPipe, InName, OutPipe, OutName, List} = {}
<1>1. ToSet(empty) = 1..Len(empty) /\ \A b \in 1..Len(empty) : b \in Slot
  BY AllocAssumption DEF AllocInv, AllocTypeOK, ToSet, Slot
<1>2. \A b \in Slot : heap[Frame(b)] \in {"none", "live", "freed"}
  BY Objects DEF AllocInv, AllocTypeOK
<1>3. \A b \in Slot : heap[Frame(b)] # "freed" /\ (heap[Frame(b)] = "live" => b <= Len(empty))
  BY DEF AllocInv, FramesAre
<1>4. \A b \in Slot : b <= Len(empty) => b \in 1..Len(empty)
  BY DEF Slot, AllocInv, AllocTypeOK
<1>5. \A o \in Frames : \E b \in Slot : o = Frame(b) /\ heap[o] = "live"
  BY <1>1, <1>2, <1>3 DEF Frames
<1>6. \A b \in Slot : heap[Frame(b)] = "live" => Frame(b) \in Frames
  BY <1>1, <1>3, <1>4 DEF Frames
<1> QED BY <1>5, <1>6, Objects

-----------------------------------------------------------------------------
(* An allocation for the pipes, or of the list of the pool. *)
LEMMA PipeStep ==
  ASSUME AllocInv, CreateStruct \/ CreateName \/ CreateList \/ CreateOutStruct \/ CreateOutName
  PROVE  AllocInv'
<1> USE DEF Before, HasPipe, Making, Made, Goto
<1>1. \A b \in Slot : Frame(b) \in Object /\ Frame(b) \notin {InPipe, InName, OutPipe, OutName, List}
  BY Objects
<1>2. ASSUME NEW o \in {InPipe, InName, OutPipe, OutName, List}, NEW from, NEW onward, NEW failed, NEW levels,
             Allocate(from, o, onward, failed, levels), from \notin {"undo", "failure"},
             {onward, failed} \subseteq {"failure"} \cup HasPipe
      PROVE  /\ AllocTypeOK' /\ FramesAre'
             /\ pc = from /\ asked' = asked /\ depth' = depth /\ empty' = empty
             /\ \A x \in {InPipe, InName, OutPipe, OutName, List} : x # o => heap'[x] = heap[x]
             /\ \/ heap'[o] = "live" /\ pc' = onward
                \/ heap'[o] = heap[o] /\ pc' = failed
  <2>1. o \in Object /\ {InPipe, InName, OutPipe, OutName, List} \subseteq Object
    BY <1>2, Objects
  <2>2. /\ pc = from /\ asked' = asked /\ depth' = depth /\ empty' = empty /\ badfree' = badfree
        /\ heap' \in [Object -> {"none", "live", "freed"}]
        /\ \A x \in Object : x # o => heap'[x] = heap[x]
        /\ \/ heap'[o] = "live" /\ pc' = onward
           \/ heap'[o] = heap[o] /\ pc' = failed
    BY <1>2, <2>1, AllocateIs
  <2>3. \A b \in Slot : heap'[Frame(b)] = heap[Frame(b)]
    BY <1>1, <1>2, <2>2
  <2>4. AllocTypeOK'
    BY <1>2, <2>2 DEF AllocInv, AllocTypeOK
  <2>5. FramesAre'
    BY <1>2, <2>2, <2>3 DEF AllocInv, FramesAre
  <2> QED BY <2>1, <2>2, <2>4, <2>5
<1>3. CASE CreateStruct
  <2>1. Allocate("running", InPipe, "name", "failure", {ERROR})
    BY <1>3 DEF CreateStruct
  <2>2. /\ AllocTypeOK' /\ FramesAre'
        /\ pc = "running" /\ asked' = asked /\ depth' = depth /\ empty' = empty
        /\ \A x \in {InPipe, InName, OutPipe, OutName, List} : x # InPipe => heap'[x] = heap[x]
        /\ \/ heap'[InPipe] = "live" /\ pc' = "name"
           \/ heap'[InPipe] = heap[InPipe] /\ pc' = "failure"
    BY <1>2, <2>1
  <2>3. PipesAre'
    BY <2>2, Objects DEF AllocInv, PipesAre
  <2>4. DepthIs'
    BY <2>2, AllocAssumption DEF AllocInv, AllocTypeOK, DepthIs, Clamped
  <2> QED BY <2>2, <2>3, <2>4 DEF AllocInv
<1>4. CASE CreateName
  <2>1. Allocate("name", InName, "depth", "free_pipe", {})
    BY <1>4 DEF CreateName
  <2>2. /\ AllocTypeOK' /\ FramesAre'
        /\ pc = "name" /\ asked' = asked /\ depth' = depth /\ empty' = empty
        /\ \A x \in {InPipe, InName, OutPipe, OutName, List} : x # InName => heap'[x] = heap[x]
        /\ \/ heap'[InName] = "live" /\ pc' = "depth"
           \/ heap'[InName] = heap[InName] /\ pc' = "free_pipe"
    BY <1>2, <2>1
  <2>3. PipesAre'
    BY <2>2, Objects DEF AllocInv, PipesAre
  <2>4. DepthIs'
    BY <2>2, AllocAssumption DEF AllocInv, AllocTypeOK, DepthIs, Clamped
  <2> QED BY <2>2, <2>3, <2>4 DEF AllocInv
<1>5. CASE CreateList
  <2>1. Allocate("list", List, "loop", "undo", {ERROR})
    BY <1>5 DEF CreateList
  <2>2. /\ AllocTypeOK' /\ FramesAre'
        /\ pc = "list" /\ asked' = asked /\ depth' = depth /\ empty' = empty
        /\ \A x \in {InPipe, InName, OutPipe, OutName, List} : x # List => heap'[x] = heap[x]
        /\ \/ heap'[List] = "live" /\ pc' = "loop"
           \/ heap'[List] = heap[List] /\ pc' = "undo"
    BY <1>2, <2>1
  <2>3. PipesAre'
    BY <2>2, Objects DEF AllocInv, PipesAre
  <2>4. DepthIs'
    BY <2>2, AllocAssumption DEF AllocInv, AllocTypeOK, DepthIs, Clamped
  <2> QED BY <2>2, <2>3, <2>4 DEF AllocInv
<1>6. CASE CreateOutStruct
  <2>1. Allocate("out_pipe", OutPipe, "out_name", "free_in", {ERROR})
    BY <1>6 DEF CreateOutStruct
  <2>2. /\ AllocTypeOK' /\ FramesAre'
        /\ pc = "out_pipe" /\ asked' = asked /\ depth' = depth /\ empty' = empty
        /\ \A x \in {InPipe, InName, OutPipe, OutName, List} : x # OutPipe => heap'[x] = heap[x]
        /\ \/ heap'[OutPipe] = "live" /\ pc' = "out_name"
           \/ heap'[OutPipe] = heap[OutPipe] /\ pc' = "free_in"
    BY <1>2, <2>1
  <2>3. PipesAre'
    BY <2>2, Objects DEF AllocInv, PipesAre
  <2>4. DepthIs'
    BY <2>2, AllocAssumption DEF AllocInv, AllocTypeOK, DepthIs, Clamped
  <2> QED BY <2>2, <2>3, <2>4 DEF AllocInv
<1>7. CASE CreateOutName
  <2>1. Allocate("out_name", OutName, "ready", "free_out", {})
    BY <1>7 DEF CreateOutName
  <2>2. /\ AllocTypeOK' /\ FramesAre'
        /\ pc = "out_name" /\ asked' = asked /\ depth' = depth /\ empty' = empty
        /\ \A x \in {InPipe, InName, OutPipe, OutName, List} : x # OutName => heap'[x] = heap[x]
        /\ \/ heap'[OutName] = "live" /\ pc' = "ready"
           \/ heap'[OutName] = heap[OutName] /\ pc' = "free_out"
    BY <1>2, <2>1
  <2>3. PipesAre'
    BY <2>2, Objects DEF AllocInv, PipesAre
  <2>4. DepthIs'
    BY <2>2, AllocAssumption DEF AllocInv, AllocTypeOK, DepthIs, Clamped
  <2> QED BY <2>2, <2>3, <2>4 DEF AllocInv
<1> QED BY <1>3, <1>4, <1>5, <1>6, <1>7

(* A buffer is made and appended, with memory or without. *)
LEMMA BufferStep ==
  ASSUME AllocInv, CreateBufStruct \/ InitBuf
  PROVE  AllocInv'
<1> USE DEF Before, HasPipe, Making, Made, Goto
<1> DEFINE n == Len(empty)
<1>1. /\ n \in Nat /\ n + 1 <= depth /\ n + 1 \in Slot /\ nextbuf = n + 1
      /\ empty = [j \in 1..n |-> j] /\ asked \in Int /\ depth \in Int /\ depth <= MaxDepth
      /\ pc \in {"struct", "frame"}
  <2>1. pc \in {"struct", "frame"}
    BY DEF CreateBufStruct, InitBuf, Allocate
  <2>2. n \in 0..MaxDepth /\ empty = [j \in 1..n |-> j] /\ asked \in Int /\ depth \in Int
    BY DEF AllocInv, AllocTypeOK
  <2>3. n + 1 <= depth /\ depth = Clamped
    BY <2>1 DEF AllocInv, DepthIs
  <2>4. depth <= MaxDepth
    BY <2>2, <2>3, AllocAssumption DEF Clamped
  <2> QED BY <2>1, <2>2, <2>3, <2>4, AllocAssumption DEF Slot, nextbuf
<1>2. CASE CreateBufStruct
  <2>1. Struct(nextbuf) \in Object /\ Allocate("struct", Struct(nextbuf), "frame", "free_list", {ERROR})
    BY <1>1, <1>2, Objects DEF CreateBufStruct
  <2>2. /\ pc = "struct" /\ asked' = asked /\ depth' = depth /\ empty' = empty /\ badfree' = badfree
        /\ heap' \in [Object -> {"none", "live", "freed"}]
        /\ pc' \in {"frame", "free_list"}
        /\ \A x \in Object : x # Struct(nextbuf) => heap'[x] = heap[x]
    BY <2>1, AllocateIs
  <2>3. /\ \A b \in Slot : heap'[Frame(b)] = heap[Frame(b)]
        /\ \A o \in {InPipe, InName, OutPipe, OutName, List} : heap'[o] = heap[o]
    BY <1>1, <2>2, Objects
  <2>4. AllocTypeOK'
    BY <2>2 DEF AllocInv, AllocTypeOK
  <2>5. PipesAre' /\ FramesAre'
    BY <2>2, <2>3 DEF AllocInv, PipesAre, FramesAre
  <2>6. DepthIs'
    BY <2>2 DEF AllocInv, DepthIs, Clamped
  <2> QED BY <2>4, <2>5, <2>6 DEF AllocInv
<1>3. CASE InitBuf
  <2>1. /\ pc = "frame" /\ pc' = "loop" /\ asked' = asked /\ depth' = depth /\ badfree' = badfree
        /\ empty' = Append(empty, nextbuf)
        /\ heap' \in {[heap EXCEPT ![Frame(nextbuf)] = "live"], heap}
    BY <1>3 DEF InitBuf
  <2>2. Frame(nextbuf) \in Object /\ heap \in [Object -> {"none", "live", "freed"}]
    BY <1>1, Objects DEF AllocInv, AllocTypeOK
  <2>3. /\ heap' \in [Object -> {"none", "live", "freed"}]
        /\ \A x \in Object : x # Frame(nextbuf) => heap'[x] = heap[x]
        /\ heap'[Frame(nextbuf)] \in {"live", heap[Frame(nextbuf)]}
    BY <2>1, <2>2
  <2>4. Len(empty') = n + 1 /\ empty' = [j \in 1..n + 1 |-> j]
    <3>1. empty \in Seq(Nat)
      BY <1>1
    <3>2. Len(empty') = n + 1 /\ empty' \in Seq(Nat) /\ empty'[n + 1] = n + 1
          /\ \A j \in 1..n : empty'[j] = empty[j]
      BY <1>1, <2>1, <3>1
    <3>3. \A j \in 1..n + 1 : empty'[j] = j
      <4> TAKE j \in 1..n + 1
      <4>1. CASE j = n + 1
        BY <3>2, <4>1
      <4>2. CASE j \in 1..n
        BY <1>1, <3>2, <4>2
      <4> QED BY <1>1, <4>1, <4>2
    <3> QED BY <1>1, <3>2, <3>3
  <2>5. \A o \in {InPipe, InName, OutPipe, OutName, List} : heap'[o] = heap[o]
    BY <1>1, <2>3, Objects
  <2>6. AllocTypeOK'
    BY <1>1, <2>1, <2>3, <2>4, AllocAssumption DEF AllocInv, AllocTypeOK
  <2>7. PipesAre'
    BY <2>1, <2>5 DEF AllocInv, PipesAre
  <2>8. FramesAre'
    <3> SUFFICES ASSUME NEW b \in Slot
                 PROVE  /\ heap'[Frame(b)] = "live" => b <= n + 1
                        /\ heap'[Frame(b)] # "freed"
      BY <2>4 DEF FramesAre
    <3>1. Frame(b) \in Object /\ (heap[Frame(b)] = "live" => b <= n) /\ heap[Frame(b)] # "freed"
      BY <2>1, Objects DEF AllocInv, FramesAre
    <3>2. CASE b = n + 1
      BY <1>1, <2>3, <3>1, <3>2
    <3>3. CASE b # n + 1
      <4>1. Frame(b) # Frame(nextbuf)
        BY <1>1, <3>3, Objects
      <4> QED BY <1>1, <2>3, <3>1, <4>1 DEF Slot
    <3> QED BY <3>2, <3>3
  <2>9. DepthIs'
    BY <1>1, <2>1, <2>4 DEF AllocInv, DepthIs, Clamped
  <2> QED BY <2>6, <2>7, <2>8, <2>9 DEF AllocInv
<1> QED BY <1>2, <1>3

(* The depth is clamped, or the loop goes round. *)
LEMMA ControlStep ==
  ASSUME AllocInv, CheckDepth \/ Loop
  PROVE  AllocInv'
<1> USE DEF Before, HasPipe, Making, Made, Goto
<1>1. /\ asked' = asked /\ empty' = empty /\ heap' = heap /\ badfree' = badfree
      /\ Len(empty) \in Nat /\ depth \in Int /\ asked \in Int
      /\ pc \in {"depth", "loop"}
  BY DEF CheckDepth, Loop, AllocInv, AllocTypeOK, allocvars
<1>2. CASE CheckDepth
  <2>1. /\ pc = "depth" /\ depth = asked /\ empty = <<>> /\ MaxDepth \in Nat
        /\ \/ pc' = "undo" /\ depth' = depth
           \/ pc' = "list" /\ depth > 0 /\ depth' = Clamped
    BY <1>1, <1>2, AllocAssumption DEF CheckDepth, Clamped, AllocInv, DepthIs
  <2>2. Clamped \in Int /\ (depth > 0 => Clamped > 0)
    BY <1>1, <2>1, AllocAssumption DEF Clamped
  <2>3. AllocTypeOK'
    BY <1>1, <2>1, <2>2 DEF AllocInv, AllocTypeOK
  <2>4. PipesAre' /\ FramesAre'
    BY <1>1, <2>1 DEF AllocInv, PipesAre, FramesAre
  <2>5. DepthIs'
    BY <1>1, <2>1, <2>2 DEF DepthIs, Clamped
  <2> QED BY <2>3, <2>4, <2>5 DEF AllocInv
<1>3. CASE Loop
  <2>1. /\ pc = "loop" /\ depth' = depth
        /\ pc' = IF Len(empty) + 1 <= depth THEN "struct" ELSE "out_pipe"
    BY <1>3 DEF Loop, nextbuf, allocvars
  <2>2. depth > 0 /\ depth = Clamped /\ Len(empty) <= depth
    BY <2>1 DEF AllocInv, DepthIs
  <2>3. AllocTypeOK'
    BY <1>1, <2>1 DEF AllocInv, AllocTypeOK
  <2>4. PipesAre' /\ FramesAre'
    BY <1>1, <2>1 DEF AllocInv, PipesAre, FramesAre
  <2>5. DepthIs'
    BY <1>1, <2>1, <2>2 DEF DepthIs, Clamped
  <2> QED BY <2>3, <2>4, <2>5 DEF AllocInv
<1> QED BY <1>2, <1>3

(* A pipe is freed, or both parts of the first. *)
LEMMA FreePipeStep ==
  ASSUME AllocInv, FreePipe \/ Undo \/ FreeOut
  PROVE  AllocInv'
<1> USE DEF Before, HasPipe, Making, Made, Goto
<1>1. PICK objects \in SUBSET {InPipe, InName, OutPipe} :
        /\ Free(objects) /\ \A o \in objects : heap[o] = "live"
        /\ \/ pc = "free_pipe" /\ objects = {InPipe} /\ pc' = "failure"
           \/ pc = "undo" /\ objects = {InName, InPipe} /\ pc' = "failure"
           \/ pc = "free_out" /\ objects = {OutPipe} /\ pc' = "free_in"
  BY DEF FreePipe, Undo, FreeOut, AllocInv, PipesAre
<1>2. asked' = asked /\ depth' = depth /\ empty' = empty
  BY DEF FreePipe, Undo, FreeOut
<1>3. objects \in SUBSET Object /\ InPipe \in Object /\ InName \in Object /\ OutPipe \in Object
      /\ OutName \in Object /\ List \in Object
  BY <1>1, Objects
<1>4. /\ ~badfree' /\ heap' \in [Object -> {"none", "live", "freed"}]
      /\ \A o \in Object : heap'[o] = IF o \in objects THEN "freed" ELSE heap[o]
  BY <1>1, <1>3, FreeIs
<1>5. \A b \in Slot : heap'[Frame(b)] = heap[Frame(b)]
  BY <1>1, <1>4, Objects
<1>6. AllocTypeOK'
  BY <1>1, <1>2, <1>4 DEF AllocInv, AllocTypeOK
<1>7. FramesAre'
  BY <1>1, <1>2, <1>5 DEF AllocInv, FramesAre
<1>8. PipesAre'
  BY <1>1, <1>3, <1>4, Objects DEF AllocInv, PipesAre
<1>9. DepthIs'
  BY <1>1, <1>2 DEF AllocInv, DepthIs, Clamped
<1> QED BY <1>6, <1>7, <1>8, <1>9 DEF AllocInv

(* cpw_buflist_free. *)
LEMMA FreeListStep ==
  ASSUME AllocInv, FreeList \/ FreeIn
  PROVE  AllocInv'
<1> USE DEF Before, HasPipe, Making, Made, Goto
<1>1. /\ pc \in {"free_list", "free_in"} /\ pc' = "undo" /\ asked' = asked /\ depth' = depth
      /\ Free(Frames) /\ empty' = <<>>
  BY DEF FreeList, FreeIn, cpw_buflist_free
<1>2. /\ ~badfree' /\ heap' \in [Object -> {"none", "live", "freed"}]
      /\ \A o \in Object : heap'[o] = IF o \in Frames THEN "freed" ELSE heap[o]
  BY <1>1, FramesLive, FreeIs
<1>3. \A o \in {InPipe, InName, OutPipe, OutName, List} : heap'[o] = heap[o]
  BY <1>1, <1>2, FramesLive, Objects
<1>4. \A b \in Slot : heap'[Frame(b)] # "live"
  BY <1>1, <1>2, FramesLive, Objects
<1>5. AllocTypeOK'
  BY <1>1, <1>2, AllocAssumption DEF AllocInv, AllocTypeOK
<1>6. PipesAre' /\ FramesAre'
  BY <1>1, <1>3, <1>4 DEF AllocInv, PipesAre, FramesAre
<1>7. DepthIs'
  BY <1>1 DEF AllocInv, DepthIs
<1> QED BY <1>5, <1>6, <1>7 DEF AllocInv

(* What leads to the set-up leaves the heap alone. *)
LEMMA BeforeStep ==
  ASSUME AllocInv, StartNext \/ pc' = pc, UNCHANGED allocvars
  PROVE  AllocInv'
<1>1. pc' = pc \/ (pc \in Before /\ pc' \in Before \cup {"failure"})
  BY DEF StartNext, cpw_context_new, cpw_context_init, cpw_arg_parse, parse_opt, cpw_log_init,
         cpw_config_init, cpw_config_validate, Goto, Before
<1>2. UNCHANGED <<asked, depth, empty, heap, badfree>>
  BY DEF allocvars
<1>3. CASE pc' = pc
  BY <1>2, <1>3 DEF AllocInv, AllocTypeOK, PipesAre, FramesAre, DepthIs, Clamped
<1>4. CASE pc \in Before /\ pc' \in Before \cup {"failure"}
  <2> USE DEF Before, HasPipe, Making, Made
  <2>1. AllocTypeOK'
    BY <1>2, <1>4 DEF AllocInv, AllocTypeOK
  <2>2. PipesAre' /\ FramesAre'
    BY <1>2, <1>4 DEF AllocInv, PipesAre, FramesAre
  <2>3. DepthIs'
    BY <1>2, <1>4 DEF AllocInv, DepthIs, Clamped
  <2> QED BY <2>1, <2>2, <2>3 DEF AllocInv
<1> QED BY <1>1, <1>3, <1>4

LEMMA AllocStep ==
  ASSUME AllocInv, [Next]_vars
  PROVE  AllocInv'
<1>1. CASE StartNext /\ UNCHANGED allocvars
  BY <1>1, BeforeStep
<1>2. CASE AllocNext
  BY <1>2, PipeStep, BufferStep, ControlStep, FreePipeStep, FreeListStep DEF AllocNext
<1>3. CASE UNCHANGED vars
  BY <1>3, BeforeStep DEF vars
<1> QED BY <1>1, <1>2, <1>3 DEF Next

-----------------------------------------------------------------------------
(* At each place of set-up this and no other part of the pipes and the     *)
(* pool is live (pipe.c:134-173, 217-357).                                     *)
THEOREM AllocInvariant == Spec => []AllocInv
<1>1. Init => AllocInv
  BY AllocAssumption, Objects
     DEF Init, StartInit, AllocInv, AllocTypeOK, PipesAre, FramesAre, DepthIs, Before, HasPipe,
         Making, Made
<1>2. AllocInv /\ [Next]_vars => AllocInv'
  BY AllocStep
<1> QED BY <1>1, <1>2, PTL DEF Spec

(* Whichever allocation fails, all that was had for the pipes and the pool *)
(* is given back but the structs of the pool, and nothing is freed twice   *)
(* or that was never had (pipe.c:298-313, 351-357).                        *)
THEOREM AllocLeakOnlyStructs == Spec => []LeakOnlyStructs
<1>1. AllocInv => LeakOnlyStructs
  <2> SUFFICES ASSUME AllocInv, pc = "failure", NEW o \in Object, heap[o] = "live"
               PROVE  o = List \/ o \in {Struct(b) : b \in Slot}
    BY DEF LeakOnlyStructs, AllocInv, AllocTypeOK
  <2>1. o \notin {InPipe, InName, OutPipe, OutName}
    BY DEF AllocInv, PipesAre, HasPipe, Making, Made
  <2>2. \A b \in Slot : o # Frame(b)
    BY DEF AllocInv, FramesAre, DepthIs, Slot, Making, Made
  <2> QED BY <2>1, <2>2, ObjectCases
<1> QED BY <1>1, AllocInvariant, PTL

(* Every buffer of the list has its struct; one without memory was told of *)
(* where errors are shown.                                                 *)
BuffersAre ==
  /\ \A b \in 1..Len(empty) : heap[Struct(b)] = "live"
  /\ pc = "frame" => heap[Struct(nextbuf)] = "live"
  /\ pc \in Making \cup Made /\ ShowsErrors =>
       ERROR \in out \/ \A b \in 1..Len(empty) : heap[Frame(b)] = "live"

(* A step that leaves the buffers as they are. *)
LEMMA BuffersKept ==
  ASSUME AllocInv, BuffersAre, UNCHANGED startvars, out \subseteq out',
         empty' = empty, pc' # "frame",
         pc' \in Making \cup Made => pc \in Making \cup Made \/ empty = <<>>,
         \A b \in Slot : /\ heap'[Struct(b)] = heap[Struct(b)]
                         /\ heap'[Frame(b)] = heap[Frame(b)]
  PROVE  BuffersAre'
<1>1. ShowsErrors' <=> ShowsErrors
  BY DEF startvars, ShowsErrors, Given
<1>2. \A b \in 1..Len(empty) : b \in Slot
  BY AllocAssumption DEF AllocInv, AllocTypeOK, Slot
<1>3. empty = <<>> => 1..Len(empty) = {}
  OBVIOUS
<1> QED
  BY <1>1, <1>2, <1>3 DEF BuffersAre

LEMMA BuffersStep ==
  ASSUME AllocInv, ToldInv, BuffersAre, AllocNext, UNCHANGED startvars
  PROVE  BuffersAre'
<1> USE DEF Goto
<1>1. \A b \in Slot :
        /\ Frame(b) \in Object /\ Struct(b) \in Object
        /\ \A o \in {InPipe, InName, OutPipe, OutName, List} : o \in Object /\ o # Frame(b) /\ o # Struct(b)
  BY Objects
<1>2. ASSUME NEW o \in {InPipe, InName, OutPipe, OutName, List}, NEW from, NEW onward, NEW failed,
             NEW levels, Allocate(from, o, onward, failed, levels), {onward, failed} \cap {"frame"} = {},
             from \in Making \cup Made \/ (from \notin Making \cup Made /\ failed \notin Making \cup Made)
      PROVE  BuffersAre'
  <2>1. /\ pc = from /\ empty' = empty /\ pc' \in {onward, failed} /\ out \subseteq out'
        /\ \A x \in Object : x # o => heap'[x] = heap[x]
    BY <1>1, <1>2, Objects, AllocateIs DEF Allocate, CPW_LOG
  <2>2. pc \notin Making \cup Made => empty = <<>>
    BY DEF AllocInv, DepthIs
  <2> QED
    BY <1>1, <1>2, <2>1, <2>2, BuffersKept
<1>3. CASE CreateStruct \/ CreateName \/ CreateList \/ CreateOutStruct \/ CreateOutName
  BY <1>2, <1>3 DEF CreateStruct, CreateName, CreateList, CreateOutStruct, CreateOutName, Making, Made
<1>4. CASE FreePipe \/ Undo \/ FreeOut
  <2>1. PICK objects \in SUBSET {InPipe, InName, OutPipe} : Free(objects)
    BY <1>4 DEF FreePipe, Undo, FreeOut
  <2>2. \A b \in Slot : heap'[Struct(b)] = heap[Struct(b)] /\ heap'[Frame(b)] = heap[Frame(b)]
    BY <1>1, <2>1 DEF Free
  <2>3. /\ empty' = empty /\ out \subseteq out' /\ pc' # "frame"
        /\ pc' \in Making \cup Made => pc \in Making \cup Made
    BY <1>4 DEF FreePipe, Undo, FreeOut, CPW_LOG, Making, Made
  <2> QED
    BY <2>2, <2>3, BuffersKept
<1>5. CASE CheckDepth \/ Loop
  <2>1. /\ empty' = empty /\ heap' = heap /\ out \subseteq out' /\ pc' # "frame"
        /\ pc' \in Making \cup Made => pc \in Making \cup Made
    BY <1>5 DEF CheckDepth, Loop, CPW_LOG, allocvars, Making, Made
  <2> QED
    BY <2>1, BuffersKept
<1>6. CASE FreeList \/ FreeIn
  <2>1. empty' = <<>> /\ pc' = "undo"
    BY <1>6 DEF FreeList, FreeIn, cpw_buflist_free
  <2>2. 1..Len(empty') = {}
    BY <2>1
  <2> QED
    BY <2>1, <2>2 DEF BuffersAre, Making, Made
<1>7. ShowsErrors' <=> ShowsErrors
  BY DEF startvars, ShowsErrors, Given
<1>8. \A b \in 1..Len(empty) : b \in Slot
  BY AllocAssumption DEF AllocInv, AllocTypeOK, Slot
<1>9. pc \in {"struct", "frame"} => nextbuf \in Slot
  <2>1. Len(empty) \in Nat /\ asked \in Int
    BY AllocAssumption DEF AllocInv, AllocTypeOK
  <2>2. pc \in {"struct", "frame"} => Len(empty) + 1 <= Clamped
    BY DEF AllocInv, DepthIs, Making
  <2> QED
    BY <2>1, <2>2, AllocAssumption DEF Clamped, Slot, nextbuf
<1>10. CASE CreateBufStruct
  <2>1. /\ pc = "struct" /\ empty' = empty /\ out \subseteq out'
        /\ pc' \in {"frame", "free_list"} /\ (pc' = "frame" => heap'[Struct(nextbuf)] = "live")
        /\ \A x \in Object : heap'[x] = heap[x] \/ (x = Struct(nextbuf) /\ heap'[x] = "live")
    <3>1. Struct(nextbuf) \in Object /\ Allocate("struct", Struct(nextbuf), "frame", "free_list", {ERROR})
      BY <1>1, <1>9, <1>10 DEF CreateBufStruct, Allocate
    <3> QED
      BY <3>1, AllocateIs DEF Allocate, CPW_LOG
  <2>2. nextbuf' = nextbuf
    BY <2>1 DEF nextbuf
  <2>3. \A b \in Slot : heap'[Frame(b)] = heap[Frame(b)]
    BY <1>1, <1>9, <2>1, Objects
  <2>4. \A b \in 1..Len(empty) : heap'[Struct(b)] = "live" /\ heap'[Frame(b)] = heap[Frame(b)]
    BY <1>1, <1>8, <2>1, <2>3 DEF BuffersAre
  <2> QED
    BY <1>7, <2>1, <2>2, <2>4 DEF BuffersAre, Making
<1>11. CASE InitBuf
  <2>1. /\ pc = "frame" /\ pc' = "loop" /\ empty' = Append(empty, nextbuf)
        /\ out \subseteq out'
        /\ \/ heap' = [heap EXCEPT ![Frame(nextbuf)] = "live"]
           \/ heap' = heap /\ CPW_LOG({ERROR})
    BY <1>11 DEF InitBuf, CPW_LOG
  <2>2. /\ heap \in [Object -> {"none", "live", "freed"}] /\ Len(empty) \in Nat
        /\ empty = [j \in 1..Len(empty) |-> j]
    BY DEF AllocInv, AllocTypeOK
  <2>3. Len(empty') = nextbuf
    <3>1. empty \in Seq(Nat)
      BY <2>2
    <3> QED
      BY <2>1, <3>1 DEF nextbuf
  <2>4. \A b \in 1..nextbuf : b \in Slot /\ (b \in 1..Len(empty) \/ b = nextbuf)
    BY <1>8, <1>9, <2>1, <2>2 DEF nextbuf
  <2>5. \A b \in 1..nextbuf : heap'[Struct(b)] = "live"
    <3>1. \A b \in 1..nextbuf : heap[Struct(b)] = "live"
      BY <2>1, <2>4 DEF BuffersAre
    <3>2. \A b \in Slot : Struct(b) # Frame(nextbuf)
      BY <1>9, <2>1, Objects
    <3> QED
      BY <1>1, <2>1, <2>2, <2>4, <3>1, <3>2
  <2>6. ASSUME ShowsErrors
        PROVE  ERROR \in out' \/ \A b \in 1..nextbuf : heap'[Frame(b)] = "live"
    <3>1. CASE heap' = [heap EXCEPT ![Frame(nextbuf)] = "live"]
      <4>1. ERROR \in out \/ \A b \in 1..Len(empty) : heap[Frame(b)] = "live"
        BY <2>1, <2>6 DEF BuffersAre, Making
      <4> QED
        BY <1>1, <2>1, <2>2, <2>4, <3>1, <4>1
    <3>2. CASE CPW_LOG({ERROR})
      <4>1. log_ptr = TRUE /\ ERROR <= cpw_log_level
        BY <2>1, <2>6, LoudEnough DEF Logging, SetUp
      <4> QED
        BY <3>2, <4>1 DEF CPW_LOG, startvars, logvars
    <3> QED
      BY <2>1, <3>1, <3>2
  <2> QED
    BY <1>7, <2>1, <2>3, <2>5, <2>6 DEF BuffersAre, Making
<1> QED
  BY <1>3, <1>4, <1>5, <1>6, <1>10, <1>11 DEF AllocNext

LEMMA BuffersNext ==
  ASSUME AllocInv, ToldInv, BuffersAre, [Next]_vars
  PROVE  BuffersAre'
<1>1. CASE StartNext /\ UNCHANGED allocvars
  <2>1. pc' \notin Making \cup Made /\ pc' # "frame"
    BY <1>1 DEF StartNext, cpw_context_new, cpw_context_init, cpw_arg_parse, parse_opt,
                cpw_log_init, cpw_config_init, cpw_config_validate, Goto, Making, Made
  <2> QED
    BY <1>1, <2>1 DEF BuffersAre, allocvars
<1>2. CASE UNCHANGED startvars /\ AllocNext
  BY <1>2, BuffersStep
<1>3. CASE UNCHANGED vars
  BY <1>3 DEF BuffersAre, vars, startvars, allocvars, ShowsErrors, Given, nextbuf
<1> QED
  BY <1>1, <1>2, <1>3 DEF Next

(* main() goes on only with both pipes and all the buffers it asked for,   *)
(* or as many as there may be; where one has no memory (pipe.c:322) an     *)
(* error has been told, if errors are shown (pipe.c:221-245).              *)
THEOREM AllocPoolIsComplete == Spec => []PoolIsComplete
<1>1. Init => BuffersAre
  <2> SUFFICES ASSUME Init PROVE BuffersAre
    OBVIOUS
  <2>1. empty = <<>> /\ 1..Len(<<>>) = {}
    BY DEF Init
  <2>2. pc = "context_new"
    BY DEF Init, StartInit
  <2> QED
    BY <2>1, <2>2 DEF BuffersAre, Making, Made
<1>2. AllocInv /\ ToldInv /\ BuffersAre /\ [Next]_vars => BuffersAre'
  BY BuffersNext
<1>3. AllocInv /\ BuffersAre => PoolIsComplete
  <2> SUFFICES ASSUME AllocInv, BuffersAre, pc = "ready" PROVE PoolIsComplete
    BY DEF PoolIsComplete
  <2>1. \A o \in {InPipe, InName, OutPipe, OutName, List} : heap[o] = "live"
    BY DEF AllocInv, PipesAre, HasPipe, Making, Made
  <2>2. Len(empty) = IF asked > MaxDepth THEN MaxDepth ELSE asked
    BY DEF AllocInv, DepthIs, Clamped, Made
  <2>3. IsInjective(empty) /\ ToSet(empty) = 1..Len(empty)
    BY DEF AllocInv, AllocTypeOK, IsInjective, ToSet
  <2>4. \A b \in 1..Len(empty) :
          heap[Struct(b)] = "live" /\ (heap[Frame(b)] = "live" \/ (ShowsErrors => ERROR \in out))
    BY DEF BuffersAre, Made
  <2> QED
    BY <2>1, <2>2, <2>3, <2>4 DEF PoolIsComplete
<1> QED
  BY <1>1, <1>2, <1>3, AllocInvariant, ToldInvariant, PTL DEF Spec

-----------------------------------------------------------------------------
(* What was ever had of memory was had after the file was found valid.     *)
HeapInv == (\E o \in Object : heap[o] # "none") => valid = "valid" /\ pc # "success"

LEMMA HeapStep ==
  ASSUME StartupInv, HeapInv, [Next]_vars
  PROVE  HeapInv'
<1>1. CASE StartNext /\ UNCHANGED allocvars
  <2>1. valid = "valid" => FALSE
    BY <1>1 DEF StartNext, cpw_context_new, cpw_context_init, cpw_arg_parse, parse_opt,
                cpw_log_init, cpw_config_init, cpw_config_validate, StartupInv, SetUp
  <2> QED BY <1>1, <2>1 DEF HeapInv, allocvars
<1>2. CASE UNCHANGED startvars /\ AllocNext
  <2>1. valid = "valid" /\ pc' # "success"
    BY <1>2, SetUpPlaces DEF StartupInv, SetUp
  <2> QED BY <1>2, <2>1 DEF HeapInv, startvars
<1>3. CASE UNCHANGED vars
  BY <1>3 DEF HeapInv, vars, startvars, allocvars
<1> QED BY <1>1, <1>2, <1>3 DEF Next

(* No memory is asked for, for a pipe or for the pool, but with a valid    *)
(* file read with all it takes and a command line of options alone, and    *)
(* with -c never: then the program succeeds if the file is valid and only  *)
(* then (cpw.c:63-116, arg.c:27).                                          *)
THEOREM StartupRunsOnlyWhenReady == Spec => []RunsOnlyWhenReady
<1>1. Init => HeapInv
  BY DEF Init, HeapInv
<1>2. StartupInv /\ HeapInv /\ [Next]_vars => HeapInv'
  BY HeapStep
<1>3. StartupInv /\ HeapInv => RunsOnlyWhenReady
  <2> SUFFICES ASSUME StartupInv, HeapInv PROVE RunsOnlyWhenReady
    OBVIOUS
  <2>1. pc \in Late => /\ arguments.check_config_only = 1 <=> Given("c")
                       /\ ~Given("ARGP_KEY_ARG") /\ ~Given("unknown")
    BY ParsedAll DEF StartupInv
  <2> QED BY <2>1 DEF HeapInv, StartupInv, RunsOnlyWhenReady, Ready, Late, SetUp
<1> QED BY <1>1, <1>2, <1>3, StartupInvariant, PTL DEF Spec
=============================================================================
