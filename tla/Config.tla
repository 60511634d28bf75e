------------------------------- MODULE Config -------------------------------
(***************************************************************************)
(* The validation of the configuration file (config.c, command.c,          *)
(* process.c): the syntax pass, then the two logic passes that build the   *)
(* lists of commands and of processes.  Each pass reads the file line by   *)
(* line from its start.                                                    *)
(*                                                                         *)
(* A line is what module Tokens shows helper.c to make of it: an opening   *)
(* tag with the name that follows it, a closing tag, or a key with its     *)
(* value.  Names that strcasecmp takes for equal are one value here, and   *)
(* memory does not run out.                                                *)
(***************************************************************************)
EXTENDS Integers, Sequences, FiniteSets, SequencesExt, FiniteSetsExt, ConfigLine

CONSTANTS Tag,    \* tags, known or not
          Key,    \* first tokens of the other lines
          Name,   \* names and values
          Files   \* the files looked at

(* config.c:23-27 *)
configtags == [Command |-> {"name", "path", "arg"},
               Process |-> {"name", "Command", "arg", "immediate"},
               Job     |-> {"name"}]

(* A name that was never set. *)
Empty == ""

ASSUME ConfigAssumption ==
  /\ DOMAIN configtags \subseteq Tag
  /\ Empty \in Name /\ NoToken \notin Name

Blank == [kind |-> "blank"]      \* nothing but space and comment
Eof   == [kind |-> "eof"]        \* fgets() returns NULL

Line == [kind : {"open"}, tag : Tag, name : Name \cup {NoToken}]
          \cup [kind : {"close"}, tag : Tag]
          \cup [kind : {"arg"}, key : Key, value : Name]
          \cup {Blank}

ASSUME FilesAssumption == Files \subseteq Seq(Line)

VARIABLES
  file,         \* the lines of the configuration file
  pc,           \* the loop that reads: "syntax", "command" (seeking one),
                \* "in_command", "process", "in_process"; or the result
  pos,          \* lines of the stream read since it was last rewound
  line_num, in_tag, current_tag,    \* of the parse context
  command, commandlist, process, processlist,
  configerror   \* the errors added so far

contextvars == <<pos, line_num, in_tag, current_tag, configerror>>
listvars    == <<command, commandlist, process, processlist>>
vars        == <<file, pc, contextvars, listvars>>

cpw_command_new == [name |-> Empty, path |-> Empty, args |-> <<>>]
cpw_process_new == [name |-> Empty, command |-> 0, args |-> <<>>]

Init ==
  /\ file \in Files
  /\ pc = "syntax"
  /\ pos = 0 /\ line_num = 0
  /\ in_tag = FALSE /\ current_tag = Empty
  /\ command = cpw_command_new /\ commandlist = <<>>
  /\ process = cpw_process_new /\ processlist = <<>>
  /\ configerror = <<>>

(* cpw_parsecontext_next_token: the next line, which is counted.  rewind() *)
(* sets pos back and leaves the count alone.                               *)
line == IF pos < Len(file) THEN file[pos + 1] ELSE Eof

Advance == IF line = Eof THEN UNCHANGED <<pos, line_num>>
           ELSE pos' = pos + 1 /\ line_num' = line_num + 1

cpw_parsecontext_add_config_error(what) ==
  configerror' = Append(configerror, [line |-> line_num', what |-> what])

ErrorIf(condition, what) ==
  IF condition THEN cpw_parsecontext_add_config_error(what)
  ELSE UNCHANGED configerror

SkipBlank ==
  /\ pc \in {"syntax", "command", "in_command", "process", "in_process"}
  /\ line = Blank
  /\ Advance
  /\ UNCHANGED <<file, pc, in_tag, current_tag, configerror, listvars>>

-----------------------------------------------------------------------------
(* cpw_config_validate_configfile_syntax *)

cpw_tag_is_arg_allowed(tag, arg) ==
  tag \in DOMAIN configtags /\ arg \in configtags[tag]

SyntaxOpen ==
  /\ pc = "syntax" /\ line.kind = "open"
  /\ Advance
  /\ ErrorIf(in_tag, "nested tag")
  /\ in_tag' = TRUE
  /\ current_tag' = line.tag
  /\ UNCHANGED <<file, pc, listvars>>

Fault_SyntaxCloseAny ==  \* any closing tag closes
  /\ pc = "syntax" /\ line.kind = "close"
  /\ Advance
  /\ ErrorIf(~in_tag, "dangling closing tag")
  /\ in_tag' = FALSE
  /\ current_tag' = IF in_tag THEN Empty ELSE current_tag
  /\ UNCHANGED <<file, pc, listvars>>

SyntaxClose ==
  /\ pc = "syntax" /\ line.kind = "close"
  /\ Advance
  /\ \/ /\ ~in_tag
        /\ cpw_parsecontext_add_config_error("dangling closing tag")
        /\ UNCHANGED <<in_tag, current_tag>>
     \/ /\ in_tag /\ line.tag = current_tag
        /\ in_tag' = FALSE
        /\ current_tag' = Empty
        /\ UNCHANGED configerror
     \/ /\ in_tag /\ line.tag # current_tag
        /\ cpw_parsecontext_add_config_error("closing tag mismatch")
        /\ UNCHANGED <<in_tag, current_tag>>
  /\ UNCHANGED <<file, pc, listvars>>

Fault_SyntaxArgIgnored ==  \* keys are not checked
  /\ pc = "syntax" /\ line.kind = "arg"
  /\ Advance
  /\ UNCHANGED <<file, pc, in_tag, current_tag, configerror, listvars>>

SyntaxArg ==
  /\ pc = "syntax" /\ line.kind = "arg"
  /\ Advance
  /\ ErrorIf(in_tag /\ ~cpw_tag_is_arg_allowed(current_tag, line.key),
             "arg not allowed")
  /\ UNCHANGED <<file, pc, in_tag, current_tag, listvars>>

Fault_SyntaxEndEarly ==  \* the missing closing tag at the end goes unnoticed
  /\ pc = "syntax" /\ line = Eof
  /\ UNCHANGED line_num
  /\ \/ configerror = <<>> /\ pc' = "command" /\ pos' = 0
     \/ configerror # <<>> /\ pc' = "invalid" /\ UNCHANGED pos
  /\ UNCHANGED <<file, in_tag, current_tag, configerror, listvars>>

SyntaxEnd ==
  /\ pc = "syntax" /\ line = Eof
  /\ UNCHANGED line_num
  /\ ErrorIf(in_tag, "missing closing tag")
  /\ \/ configerror' = <<>> /\ pc' = "command" /\ pos' = 0
     \/ configerror' # <<>> /\ pc' = "invalid" /\ UNCHANGED pos
  /\ UNCHANGED <<file, in_tag, current_tag, listvars>>

-----------------------------------------------------------------------------
(* cpw_config_validate_configfile_logic: the commands *)

(* cpw_parsecontext_seek_to_tag goes past every line but the opening tag   *)
(* it seeks; current_tag follows the opening tags it passes.               *)
SeekPast ==
  /\ \/ pc = "command" /\ ~(line.kind = "open" /\ line.tag = "Command")
     \/ pc = "process" /\ ~(line.kind = "open" /\ line.tag = "Process")
  /\ line \notin {Blank, Eof}
  /\ Advance
  /\ current_tag' = IF line.kind = "open" THEN line.tag ELSE current_tag
  /\ UNCHANGED <<file, pc, in_tag, configerror, listvars>>

cpw_command_find_by_name(name) ==
  \E c \in DOMAIN commandlist : commandlist[c].name = name

cpw_command_set_value(c, key, value) ==
  CASE key = "path" -> [c EXCEPT !.path = value]
    [] key = "name" -> [c EXCEPT !.name = value]
    [] key = "arg"  -> [c EXCEPT !.args = Append(@, value)]
    [] OTHER        -> c

OpenCommand ==
  /\ pc = "command" /\ line.kind = "open" /\ line.tag = "Command"
  /\ Advance
  /\ current_tag' = line.tag
  /\ \/ /\ line.name = NoToken
        /\ command' = cpw_command_new
        /\ UNCHANGED configerror
     \/ /\ line.name # NoToken
        /\ ErrorIf(cpw_command_find_by_name(line.name), "command already defined")
        /\ command' = cpw_command_set_value(cpw_command_new, "name", line.name)
  /\ pc' = "in_command"
  /\ UNCHANGED <<file, in_tag, commandlist, process, processlist>>

SetCommandValue ==
  /\ pc = "in_command" /\ line.kind = "arg"
  /\ Advance
  /\ command' = cpw_command_set_value(command, line.key, line.value)
  /\ UNCHANGED <<file, pc, in_tag, current_tag, configerror,
                 commandlist, process, processlist>>

CloseCommand ==
  /\ pc = "in_command" /\ line.kind \in {"open", "close", "eof"}
  /\ Advance
  /\ ErrorIf(line.kind = "close" /\ line.tag # current_tag, "logic closing tag mismatch")
  /\ commandlist' = Append(commandlist, command)
  /\ pc' = "command"
  /\ UNCHANGED <<file, in_tag, current_tag, command, process, processlist>>

Fault_CommandsEnd ==  \* the count begins again as the reading does
  /\ pc = "command" /\ line = Eof
  /\ pos' = 0 /\ line_num' = 0
  /\ pc' = "process"
  /\ UNCHANGED <<file, in_tag, current_tag, configerror, listvars>>

CommandsEnd ==
  /\ pc = "command" /\ line = Eof
  /\ pos' = 0 /\ UNCHANGED line_num
  /\ pc' = "process"
  /\ UNCHANGED <<file, in_tag, current_tag, configerror, listvars>>

-----------------------------------------------------------------------------
(* The processes *)

Fault_SetCommandFirst(p, value) ==  \* the first command, or none
  LET found == {c \in DOMAIN commandlist : commandlist[c].name = value} IN
  [process |-> [p EXCEPT !.command = IF found = {} THEN 0 ELSE Min(found)],
   ok      |-> found # {}]

(* cpw_process_set_command: the last command with the name; the result     *)
(* says whether the process has a command now, from this line or an        *)
(* earlier one.                                                            *)
cpw_process_set_command(p, value) ==
  LET found == {c \in DOMAIN commandlist : commandlist[c].name = value}
      set   == IF found = {} THEN p ELSE [p EXCEPT !.command = Max(found)]
  IN  [process |-> set, ok |-> set.command # 0]

(* cpw_process_set_value: the process and the result.  That of             *)
(* cpw_process_set_immediate, which has no return statement, may be any.   *)
cpw_process_set_value(p, key, value) ==
  CASE key = "arg"       -> {[process |-> [p EXCEPT !.args = Append(@, value)], ok |-> TRUE]}
    [] key = "Command"   -> {cpw_process_set_command(p, value)}
    [] key = "immediate" -> {[process |-> p, ok |-> r] : r \in BOOLEAN}
    [] key = "name"      -> {[process |-> [p EXCEPT !.name = value], ok |-> TRUE]}
    [] OTHER             -> {[process |-> p, ok |-> FALSE]}

OpenProcess ==
  /\ pc = "process" /\ line.kind = "open" /\ line.tag = "Process"
  /\ Advance
  /\ current_tag' = line.tag
  /\ process' = IF line.name = NoToken THEN cpw_process_new
                ELSE [cpw_process_new EXCEPT !.name = line.name]
  /\ pc' = "in_process"
  /\ UNCHANGED <<file, in_tag, configerror, command, commandlist, processlist>>

SetProcessValue ==
  /\ pc = "in_process" /\ line.kind = "arg"
  /\ Advance
  /\ \E r \in cpw_process_set_value(process, line.key, line.value) :
       /\ process' = r.process
       /\ ErrorIf(~r.ok, "not a valid command name")
  /\ UNCHANGED <<file, pc, in_tag, current_tag, command, commandlist, processlist>>

CloseProcess ==
  /\ pc = "in_process" /\ line.kind \in {"open", "close", "eof"}
  /\ Advance
  /\ processlist' = Append(processlist, process)
  /\ pc' = "process"
  /\ UNCHANGED <<file, in_tag, current_tag, configerror, command, commandlist, process>>

ProcessesEnd ==
  /\ pc = "process" /\ line = Eof
  /\ pc' = IF configerror = <<>> THEN "valid" ELSE "invalid"
  /\ UNCHANGED <<file, contextvars, listvars>>

Next ==
  \/ SkipBlank
  \/ SyntaxOpen \/ SyntaxClose \/ SyntaxArg \/ SyntaxEnd
  \/ SeekPast
  \/ OpenCommand \/ SetCommandValue \/ CloseCommand \/ CommandsEnd
  \/ OpenProcess \/ SetProcessValue \/ CloseProcess \/ ProcessesEnd

Spec == Init /\ [][Next]_vars

-----------------------------------------------------------------------------
(* What a file means, said of the whole file at once.                      *)

IsTag(f, i) == f[i].kind \in {"open", "close"}

(* Line j comes after line i with no tag between them. *)
Follows(f, i, j) == i < j /\ \A k \in i+1..j-1 : ~IsTag(f, k)

Bracketed(f) ==
  /\ \A i \in DOMAIN f : f[i].kind = "open" =>
       \E j \in DOMAIN f : Follows(f, i, j) /\ f[j] = Close(f[i].tag)
  /\ \A j \in DOMAIN f : f[j].kind = "close" =>
       \E i \in DOMAIN f : Follows(f, i, j) /\ f[i].kind = "open"

ArgsAllowed(f) ==
  \A i, j \in DOMAIN f :
    f[i].kind = "open" /\ f[j].kind = "arg" /\ Follows(f, i, j) =>
      cpw_tag_is_arg_allowed(f[i].tag, f[j].key)

WellFormed(f) == Bracketed(f) /\ ArgsAllowed(f)

(* Lines in their order: the n-th has n lines up to it. *)
Ordered(lines) ==
  [n \in 1..Cardinality(lines) |->
     Min({j \in lines : Cardinality({k \in lines : k <= j}) = n})]

(* The lines that open a block of a tag, those that give a key a value in  *)
(* a block, and these values.                                              *)
BlockLines(f, t)  == {i \in DOMAIN f : f[i].kind = "open" /\ f[i].tag = t}
KeyLines(f, i, k) == {j \in DOMAIN f : f[j].kind = "arg" /\ f[j].key = k /\ Follows(f, i, j)}

Values(f, lines)            == [n \in 1..Cardinality(lines) |-> f[Ordered(lines)[n]].value]
LastOf(f, lines, otherwise) == IF lines = {} THEN otherwise ELSE f[Max(lines)].value

BlockName(f, i) ==
  LastOf(f, KeyLines(f, i, "name"), IF f[i].name = NoToken THEN Empty ELSE f[i].name)

MeantCommand(f, i) ==
  [name |-> BlockName(f, i),
   path |-> LastOf(f, KeyLines(f, i, "path"), Empty),
   args |-> Values(f, KeyLines(f, i, "arg"))]

MeantCommands(f) ==
  LET blocks == BlockLines(f, "Command")
  IN  [n \in 1..Cardinality(blocks) |-> MeantCommand(f, Ordered(blocks)[n])]

(* The last command of the last name in the block that some command has.   *)
Named(commands, v) == {c \in DOMAIN commands : commands[c].name = v}
CommandOf(f, commands, lines) ==
  LET known == {j \in lines : Named(commands, f[j].value) # {}}
  IN  IF known = {} THEN 0 ELSE Max(Named(commands, f[Max(known)].value))

MeantProcess(f, i) ==
  [name    |-> BlockName(f, i),
   command |-> CommandOf(f, MeantCommands(f), KeyLines(f, i, "Command")),
   args    |-> Values(f, KeyLines(f, i, "arg"))]

MeantProcesses(f) ==
  LET blocks == BlockLines(f, "Process")
  IN  [n \in 1..Cardinality(blocks) |-> MeantProcess(f, Ordered(blocks)[n])]

-----------------------------------------------------------------------------
SyntaxErrors == {"nested tag", "dangling closing tag", "closing tag mismatch",
                 "arg not allowed", "missing closing tag"}
LogicErrors  == {"command already defined", "logic closing tag mismatch",
                 "not a valid command name"}
Logic        == {"command", "in_command", "process", "in_process"}

ConfigTypeOK ==
  /\ pc \in {"syntax", "valid", "invalid"} \cup Logic
  /\ pos \in 0..Len(file) /\ line_num \in Nat
  /\ in_tag \in BOOLEAN /\ current_tag \in Tag \cup {Empty}
  /\ \A n \in DOMAIN configerror :
       configerror[n].what \in SyntaxErrors \cup LogicErrors
  /\ \A n \in DOMAIN processlist : processlist[n].command \in 0..Len(commandlist)

(* The syntax pass, which sees one line at a time and remembers one tag,   *)
(* lets the well-formed files through and no others (config.c:345-399).    *)
SyntaxDecides ==
  /\ pc \in Logic \cup {"valid"} => WellFormed(file)
  /\ pc = "invalid" /\ configerror[1].what \in SyntaxErrors => ~WellFormed(file)

(* "should never happen after a syntax check has run on the file, but who  *)
(* knows" (config.c:304), and no block is left at an opening tag or at the *)
(* end of the file either.                                                 *)
BlocksEndAtTheirTag ==
  /\ \A n \in DOMAIN configerror : configerror[n].what # "logic closing tag mismatch"
  /\ pc \in {"in_command", "in_process"} =>
       \E j \in pos+1..Len(file) :
         /\ file[j] = Close(current_tag)
         /\ \A k \in pos+1..j-1 : ~IsTag(file, k)

(* The lists that a valid file leaves to the program are those it means:   *)
(* every block in its order, the last of repeated values, and the          *)
(* commands found wherever in the file they stand (config.c:282-327).      *)
ListsAreTheFiles ==
  pc = "valid" => /\ commandlist = MeantCommands(file)
                  /\ processlist = MeantProcesses(file)

(* The first error is reported at the first line that no later line could  *)
(* mend, and a file only cut short is said to miss a closing tag           *)
(* (config.c:193-239, 345-399).                                            *)
Mendable(f) == \E rest \in {<<>>} \cup {<<Close(t)>> : t \in Tag} : WellFormed(f \o rest)
FirstErrorIsTheFirst ==
  configerror # <<>> /\ configerror[1].what \in SyntaxErrors =>
    LET first == configerror[1] IN
    IF first.what = "missing closing tag"
    THEN ~WellFormed(file) /\ Mendable(file)
    ELSE /\ first.line \in DOMAIN file
         /\ Mendable(SubSeq(file, 1, first.line - 1))
         /\ ~Mendable(SubSeq(file, 1, first.line))

(* The logic passes report exactly these errors: a Command tag with a name *)
(* that an earlier command has by then, and a Command line up to which the *)
(* process has no command (config.c:286-290, 320-323).  The line they give *)
(* is counted on from the passes before.  A name set by a line is not      *)
(* looked up, an unknown command is not told after a known one             *)
(* (process.c:114), and an immediate line may be told as one.              *)
Redefined(f) ==
  {i \in BlockLines(f, "Command") :
     \E h \in BlockLines(f, "Command") : h < i /\ BlockName(f, h) = f[i].name}

(* The lines that give a key a value in the block of a process. *)
InProcess(f, k) == UNION {KeyLines(f, i, k) : i \in BlockLines(f, "Process")}
Unresolved(f) ==
  {j \in InProcess(f, "Command") :
     \E i \in BlockLines(f, "Process") :
       /\ Follows(f, i, j)
       /\ \A l \in KeyLines(f, i, "Command"), h \in BlockLines(f, "Command") :
            l <= j => BlockName(f, h) # f[l].value}

(* An error of the first logic pass, or of the second. *)
LogicErrorsOf(f, lines, passes, what) ==
  {[line |-> passes * Len(f) + i, what |-> what] : i \in lines}

LogicErrorsAreTheFiles ==
  LET told == LogicErrorsOf(file, Redefined(file), 1, "command already defined")
                \cup LogicErrorsOf(file, Unresolved(file), 2, "not a valid command name")
      may  == LogicErrorsOf(file, InProcess(file, "immediate"), 2, "not a valid command name")
  IN  pc = "valid" \/ (pc = "invalid" /\ WellFormed(file)) =>
        told \subseteq ToSet(configerror) /\ ToSet(configerror) \subseteq told \cup may
=============================================================================
