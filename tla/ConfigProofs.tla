---------------------------- MODULE ConfigProofs ----------------------------
(***************************************************************************)
(* The syntax pass decides well-formedness, and so the logic passes find   *)
(* every block closed by its own tag; the first error is the first; and    *)
(* the lists and the errors of the logic passes are those of the file: for *)
(* every file, of any length.                                              *)
(*                                                                         *)
(* A pass sees one line at a time.  What it knows of the lines read so far *)
(* is ReadSoFar; that it remembers the one tag it needs is OpenBlock; what *)
(* it has made of them is ListsInv.                                        *)
(***************************************************************************)
EXTENDS Config, TLAPS, FiniteSetTheorems, SequenceTheorems

(* Line o opened the block the reading is in. *)
OpenBlock(o) ==
  /\ o \in 1..pos
  /\ file[o].kind = "open" /\ file[o].tag = current_tag
  /\ \A k \in o+1..pos : ~IsTag(file, k)

(* The lines read are those of a well-formed file, but for the closing tag *)
(* of the block the reading is in.                                         *)
OpensClosed ==
  \A i \in 1..pos : file[i].kind = "open" =>
    \/ \E j \in 1..pos : Follows(file, i, j) /\ file[j] = Close(file[i].tag)
    \/ in_tag /\ \A k \in i+1..pos : ~IsTag(file, k)
ClosesOpened ==
  \A j \in 1..pos : file[j].kind = "close" =>
    \E i \in 1..pos : Follows(file, i, j) /\ file[i].kind = "open"
ArgsRead ==
  \A i, j \in 1..pos :
    file[i].kind = "open" /\ file[j].kind = "arg" /\ Follows(file, i, j) =>
      cpw_tag_is_arg_allowed(file[i].tag, file[j].key)

ReadSoFar ==
  /\ OpensClosed /\ ClosesOpened /\ ArgsRead
  /\ in_tag => \E o \in 1..pos : OpenBlock(o)

Error == [line : Nat, what : SyntaxErrors \cup LogicErrors]

Types ==
  /\ file \in Seq(Line) /\ pos \in 0..Len(file) /\ line_num \in Nat
  /\ in_tag \in BOOLEAN /\ configerror \in Seq(Error)
  /\ pc \in {"syntax", "valid", "invalid"} \cup Logic
SyntaxKnows       == pc = "syntax" /\ configerror = <<>> => ReadSoFar
LogicIsWellFormed == pc \in Logic \cup {"valid"} => WellFormed(file)
ErrorsAreTrue ==
  /\ pc = "invalid" => configerror # <<>>
  /\ configerror # <<>> /\ configerror[1].what \in SyntaxErrors => ~WellFormed(file)
NoMismatch ==
  \A n \in DOMAIN configerror : configerror[n].what # "logic closing tag mismatch"
InsideBlock == pc \in {"in_command", "in_process"} => \E o \in 1..pos : OpenBlock(o)

ConfigInv == Types /\ SyntaxKnows /\ LogicIsWellFormed /\ ErrorsAreTrue
               /\ NoMismatch /\ InsideBlock

-----------------------------------------------------------------------------
(* What is at the reading position. *)
LEMMA LineRead ==
  ASSUME file \in Seq(Line), pos \in 0..Len(file)
  PROVE  /\ line # Eof => /\ pos + 1 \in 1..Len(file)
                          /\ line = file[pos + 1] /\ line \in Line
         /\ line = Eof => pos = Len(file)
         /\ line.kind \in {"open", "close", "arg", "blank", "eof"}
         /\ line.kind = "eof" <=> line = Eof
<1>1. CASE pos < Len(file)
  <2>1. line = file[pos + 1] /\ file[pos + 1] \in Line /\ pos + 1 \in 1..Len(file)
    BY <1>1 DEF line
  <2>2. line # Eof /\ line.kind \in {"open", "close", "arg", "blank"}
    BY <2>1 DEF Line, Eof, Blank
  <2> QED BY <2>1, <2>2 DEF Eof
<1>2. CASE ~(pos < Len(file))
  BY <1>2 DEF line, Eof
<1> QED BY <1>1, <1>2

(* In a well-formed file the next tag after an opening one closes it. *)
LEMMA NextTagCloses ==
  ASSUME file \in Seq(Line), pos \in 0..Len(file) - 1, WellFormed(file),
         NEW o \in 1..pos, OpenBlock(o), IsTag(file, pos + 1)
  PROVE  file[pos + 1] = Close(current_tag)
<1>1. PICK j \in DOMAIN file : Follows(file, o, j) /\ file[j] = Close(file[o].tag)
  BY DEF WellFormed, Bracketed, OpenBlock
<1>2. j \in 1..Len(file) /\ IsTag(file, j)
  BY <1>1 DEF IsTag, Close
<1>3. j > pos
  BY <1>1, <1>2 DEF OpenBlock, Follows
<1>4. ~(j > pos + 1)
  BY <1>1, <1>2 DEF Follows
<1> QED BY <1>1, <1>2, <1>3, <1>4 DEF OpenBlock

(* Each error of the syntax pass is one of the file. *)
LEMMA MissingIsWrong ==
  ASSUME file \in Seq(Line), pos = Len(file), NEW o \in 1..pos, OpenBlock(o)
  PROVE  ~WellFormed(file)
<1> SUFFICES ASSUME WellFormed(file) PROVE FALSE
  OBVIOUS
<1>1. PICK j \in DOMAIN file : Follows(file, o, j) /\ file[j] = Close(file[o].tag)
  BY DEF WellFormed, Bracketed, OpenBlock
<1> QED BY <1>1 DEF OpenBlock, Follows, IsTag, Close

LEMMA DanglingIsWrong ==
  ASSUME file \in Seq(Line), pos \in 0..Len(file) - 1, ReadSoFar, ~in_tag,
         file[pos + 1].kind = "close"
  PROVE  ~WellFormed(file)
<1> SUFFICES ASSUME WellFormed(file) PROVE FALSE
  OBVIOUS
<1>1. PICK i \in DOMAIN file : Follows(file, i, pos + 1) /\ file[i].kind = "open"
  BY DEF WellFormed, Bracketed
<1>2. i \in 1..pos
  BY <1>1 DEF Follows
<1>3. PICK j \in 1..pos : Follows(file, i, j) /\ file[j] = Close(file[i].tag)
  BY <1>1, <1>2 DEF ReadSoFar, OpensClosed
<1>4. i < j /\ j < pos + 1 /\ IsTag(file, j)
  BY <1>2, <1>3 DEF Follows, IsTag, Close
<1>5. j \in i+1..(pos + 1)-1
  BY <1>2, <1>4
<1> QED BY <1>1, <1>4, <1>5 DEF Follows

LEMMA NotAllowedIsWrong ==
  ASSUME file \in Seq(Line), pos \in 0..Len(file) - 1, NEW o \in 1..pos, OpenBlock(o),
         file[pos + 1].kind = "arg",
         ~cpw_tag_is_arg_allowed(current_tag, file[pos + 1].key)
  PROVE  ~WellFormed(file)
BY DEF WellFormed, ArgsAllowed, OpenBlock, Follows

(* A file read to its end without an error, and not in a tag, is           *)
(* well-formed.                                                            *)
LEMMA WholeIsWellFormed ==
  ASSUME file \in Seq(Line), pos = Len(file), ReadSoFar, ~in_tag
  PROVE  WellFormed(file)
<1>1. DOMAIN file = 1..pos
  OBVIOUS
<1>2. Bracketed(file)
  BY <1>1 DEF ReadSoFar, OpensClosed, ClosesOpened, Bracketed
<1>3. ArgsAllowed(file)
  BY <1>1 DEF ReadSoFar, ArgsRead, ArgsAllowed
<1> QED BY <1>2, <1>3 DEF WellFormed
-----------------------------------------------------------------------------
(* ReadSoFar as one more line is read without an error. *)
ReadOn == /\ file' = file
          /\ pos \in 0..Len(file) - 1
          /\ pos' = pos + 1

(* Follows looks only at the lines up to the second. *)
LEMMA FollowsKept ==
  ASSUME file' = file
  PROVE  \A i, j : Follows(file', i, j) <=> Follows(file, i, j)
BY DEF Follows, IsTag

LEMMA ReadNoTag ==
  ASSUME file \in Seq(Line), ReadSoFar, ReadOn, UNCHANGED <<in_tag, current_tag>>,
         \/ file[pos + 1].kind = "blank"
         \/ /\ file[pos + 1].kind = "arg"
            /\ in_tag => cpw_tag_is_arg_allowed(current_tag, file[pos + 1].key)
  PROVE  ReadSoFar'
<1>1. /\ ~IsTag(file, pos + 1)
      /\ file[pos + 1].kind \notin {"open", "close"}
  BY DEF IsTag
<1>2. OpensClosed'
  <2> SUFFICES ASSUME NEW i \in 1..pos', file[i].kind = "open"
               PROVE  \/ \E j \in 1..pos' : Follows(file, i, j) /\ file[j] = Close(file[i].tag)
                      \/ in_tag /\ \A k \in i+1..pos' : ~IsTag(file, k)
    BY FollowsKept DEF OpensClosed, ReadOn, IsTag, Close
  <2>1. i \in 1..pos
    BY <1>1 DEF ReadOn
  <2>2. CASE \E j \in 1..pos : Follows(file, i, j) /\ file[j] = Close(file[i].tag)
    BY <2>2 DEF ReadOn
  <2>3. CASE in_tag /\ \A k \in i+1..pos : ~IsTag(file, k)
    BY <2>3, <1>1 DEF ReadOn
  <2> QED BY <2>1, <2>2, <2>3 DEF ReadSoFar, OpensClosed
<1>3. ClosesOpened'
  BY <1>1, FollowsKept DEF ReadSoFar, ClosesOpened, ReadOn
<1>4. ArgsRead'
  <2> SUFFICES ASSUME NEW i \in 1..pos', NEW j \in 1..pos', file[i].kind = "open",
                      file[j].kind = "arg", Follows(file, i, j)
               PROVE  cpw_tag_is_arg_allowed(file[i].tag, file[j].key)
    BY FollowsKept DEF ArgsRead, ReadOn
  <2>1. i \in 1..pos
    BY <1>1 DEF ReadOn
  <2>2. CASE j \in 1..pos
    BY <2>1, <2>2 DEF ReadSoFar, ArgsRead
  <2>3. CASE j = pos + 1
    <3>1. ~ \E l \in 1..pos : Follows(file, i, l) /\ file[l] = Close(file[i].tag)
      BY <2>1, <2>3 DEF Follows, IsTag, Close, ReadOn
    <3>2. in_tag /\ \A k \in i+1..pos : ~IsTag(file, k)
      BY <2>1, <3>1 DEF ReadSoFar, OpensClosed
    <3>3. PICK o \in 1..pos : OpenBlock(o)
      BY <3>2 DEF ReadSoFar
    <3>4. i = o
      BY <2>1, <3>2, <3>3 DEF OpenBlock, IsTag, ReadOn
    <3> QED BY <2>3, <3>2, <3>3, <3>4 DEF OpenBlock
  <2> QED BY <2>2, <2>3 DEF ReadOn
<1>5. in_tag' => \E o \in 1..pos' : OpenBlock(o)'
  BY <1>1 DEF ReadSoFar, OpenBlock, ReadOn, IsTag
<1> QED BY <1>2, <1>3, <1>4, <1>5 DEF ReadSoFar

LEMMA ReadOpen ==
  ASSUME file \in Seq(Line), ReadSoFar, ReadOn, ~in_tag,
         file[pos + 1].kind = "open", in_tag' = TRUE, current_tag' = file[pos + 1].tag
  PROVE  ReadSoFar'
<1>1. IsTag(file, pos + 1)
  BY DEF IsTag
<1>2. OpensClosed'
  <2> SUFFICES ASSUME NEW i \in 1..pos', file[i].kind = "open"
               PROVE  \/ \E j \in 1..pos' : Follows(file, i, j) /\ file[j] = Close(file[i].tag)
                      \/ \A k \in i+1..pos' : ~IsTag(file, k)
    BY FollowsKept DEF OpensClosed, ReadOn, IsTag, Close
  <2>1. CASE i \in 1..pos
    <3>1. PICK j \in 1..pos : Follows(file, i, j) /\ file[j] = Close(file[i].tag)
      BY <2>1 DEF ReadSoFar, OpensClosed
    <3> QED BY <3>1 DEF ReadOn
  <2>2. CASE i = pos + 1
    BY <2>2 DEF ReadOn
  <2> QED BY <2>1, <2>2 DEF ReadOn
<1>3. ClosesOpened'
  BY FollowsKept DEF ReadSoFar, ClosesOpened, ReadOn
<1>4. ArgsRead'
  <2> SUFFICES ASSUME NEW i \in 1..pos', NEW j \in 1..pos', file[i].kind = "open",
                      file[j].kind = "arg", Follows(file, i, j)
               PROVE  cpw_tag_is_arg_allowed(file[i].tag, file[j].key)
    BY FollowsKept DEF ArgsRead, ReadOn
  <2>1. j \in 1..pos /\ i \in 1..pos
    BY DEF ReadOn, Follows
  <2> QED BY <2>1 DEF ReadSoFar, ArgsRead
<1>5. PICK o \in 1..pos' : o = pos + 1
  BY DEF ReadOn
<1>6. OpenBlock(o)'
  BY <1>5 DEF OpenBlock, ReadOn
<1> QED BY <1>2, <1>3, <1>4, <1>6 DEF ReadSoFar

LEMMA ReadClose ==
  ASSUME file \in Seq(Line), ReadSoFar, ReadOn, in_tag,
         file[pos + 1] = Close(current_tag), in_tag' = FALSE
  PROVE  ReadSoFar'
<1>1. IsTag(file, pos + 1) /\ file[pos + 1].kind = "close"
  BY DEF IsTag, Close
<1>2. PICK o \in 1..pos : OpenBlock(o)
  BY DEF ReadSoFar
<1>3. Follows(file, o, pos + 1)
  BY <1>2 DEF OpenBlock, Follows, ReadOn
<1>4. OpensClosed'
  <2> SUFFICES ASSUME NEW i \in 1..pos', file[i].kind = "open"
               PROVE  \E j \in 1..pos' : Follows(file, i, j) /\ file[j] = Close(file[i].tag)
    BY FollowsKept DEF OpensClosed, ReadOn, Close
  <2>1. i \in 1..pos
    BY <1>1 DEF ReadOn
  <2>2. CASE \E j \in 1..pos : Follows(file, i, j) /\ file[j] = Close(file[i].tag)
    BY <2>2 DEF ReadOn
  <2>3. CASE \A k \in i+1..pos : ~IsTag(file, k)
    <3>1. i = o
      BY <2>1, <2>3, <1>2 DEF OpenBlock, IsTag, ReadOn
    <3> QED BY <3>1, <1>2, <1>3 DEF OpenBlock, ReadOn
  <2> QED BY <2>1, <2>2, <2>3 DEF ReadSoFar, OpensClosed
<1>5. ClosesOpened'
  <2> SUFFICES ASSUME NEW j \in 1..pos', file[j].kind = "close"
               PROVE  \E i \in 1..pos' : Follows(file, i, j) /\ file[i].kind = "open"
    BY FollowsKept DEF ClosesOpened, ReadOn
  <2>1. CASE j \in 1..pos
    BY <2>1 DEF ReadSoFar, ClosesOpened, ReadOn
  <2>2. CASE j = pos + 1
    BY <2>2, <1>2, <1>3 DEF OpenBlock, ReadOn
  <2> QED BY <2>1, <2>2 DEF ReadOn
<1>6. ArgsRead'
  <2> SUFFICES ASSUME NEW i \in 1..pos', NEW j \in 1..pos', file[i].kind = "open",
                      file[j].kind = "arg", Follows(file, i, j)
               PROVE  cpw_tag_is_arg_allowed(file[i].tag, file[j].key)
    BY FollowsKept DEF ArgsRead, ReadOn
  <2>1. j \in 1..pos /\ i \in 1..pos
    BY <1>1 DEF ReadOn
  <2> QED BY <2>1 DEF ReadSoFar, ArgsRead
<1> QED BY <1>4, <1>5, <1>6 DEF ReadSoFar
-----------------------------------------------------------------------------
(* The errors: the first stays the first. *)
LEMMA ErrorAdded ==
  ASSUME NEW what \in SyntaxErrors \cup LogicErrors, configerror \in Seq(Error),
         line_num' \in Nat, cpw_parsecontext_add_config_error(what)
  PROVE  /\ configerror' \in Seq(Error) /\ configerror' # <<>>
         /\ configerror = <<>> => configerror'[1].what = what
         /\ configerror # <<>> => configerror'[1] = configerror[1]
         /\ what # "logic closing tag mismatch"
              /\ (\A n \in DOMAIN configerror : configerror[n].what # "logic closing tag mismatch")
            => \A n \in DOMAIN configerror' : configerror'[n].what # "logic closing tag mismatch"
<1> DEFINE e == [line |-> line_num', what |-> what]
<1>1. e \in Error /\ e.what = what
  BY DEF Error
<1>2. configerror' = Append(configerror, e)
  BY DEF cpw_parsecontext_add_config_error
<1> HIDE DEF e
<1>3. /\ configerror' \in Seq(Error) /\ Len(configerror') = Len(configerror) + 1
      /\ \A n \in 1..Len(configerror) : configerror'[n] = configerror[n]
      /\ configerror'[Len(configerror) + 1] = e
  BY <1>1, <1>2
<1>4. configerror = <<>> <=> Len(configerror) = 0
  OBVIOUS
<1>5. Len(configerror) \in Nat
      /\ DOMAIN configerror = 1..Len(configerror) /\ DOMAIN configerror' = 1..(Len(configerror) + 1)
  BY <1>3
<1>6. configerror' # <<>>
  BY <1>3
<1>7. configerror = <<>> => configerror'[1].what = what
  BY <1>1, <1>3, <1>4
<1>8. configerror # <<>> => configerror'[1] = configerror[1]
  BY <1>3, <1>4
<1>9. ASSUME what # "logic closing tag mismatch",
             \A n \in DOMAIN configerror : configerror[n].what # "logic closing tag mismatch",
             NEW n \in DOMAIN configerror'
      PROVE  configerror'[n].what # "logic closing tag mismatch"
  <2>1. CASE n \in 1..Len(configerror)
    BY <2>1, <1>3, <1>5, <1>9
  <2>2. CASE n = Len(configerror) + 1
    BY <2>2, <1>1, <1>3, <1>9
  <2>3. n \in 1..(Len(configerror) + 1)
    BY <1>5, <1>9
  <2>4. n \in 1..Len(configerror) \/ n = Len(configerror) + 1
    BY <1>5, <2>3
  <2> QED BY <2>1, <2>2, <2>4
<1> QED BY <1>3, <1>6, <1>7, <1>8, <1>9
-----------------------------------------------------------------------------
LEMMA ConfigInit == Init => ConfigInv
<1> SUFFICES ASSUME Init PROVE ConfigInv
  OBVIOUS
<1>1. file \in Seq(Line)
  BY FilesAssumption DEF Init
<1>2. configerror = <<>> /\ pos = 0 /\ ~in_tag /\ pc = "syntax"
  BY DEF Init
<1>3. Types
  <2>1. pos \in 0..Len(file) /\ configerror \in Seq(Error)
    BY <1>1, <1>2
  <2> QED BY <1>1, <2>1 DEF Init, Types
<1>4. ReadSoFar
  BY <1>2 DEF ReadSoFar, OpensClosed, ClosesOpened, ArgsRead
<1> QED
  BY <1>2, <1>3, <1>4 DEF ConfigInv, SyntaxKnows, LogicIsWellFormed, ErrorsAreTrue,
     NoMismatch, InsideBlock, Logic

(* A line is read. *)
LEMMA LineTaken ==
  ASSUME Types, Advance, file' = file, line # Eof
  PROVE  /\ ReadOn /\ pos' \in 0..Len(file) /\ line_num' \in Nat
         /\ line = file[pos + 1] /\ pos + 1 \in 1..Len(file)
BY LineRead DEF Types, Advance, ReadOn

(* The syntax pass finds an error: it is one of the file if it is the      *)
(* first.                                                                  *)
LEMMA SyntaxErrorStep ==
  ASSUME ConfigInv, NEW what \in SyntaxErrors,
         file' = file, pc = "syntax", pc' \in {"syntax", "invalid"},
         pos' \in 0..Len(file), line_num' \in Nat, in_tag' \in BOOLEAN,
         cpw_parsecontext_add_config_error(what),
         configerror = <<>> => ~WellFormed(file)
  PROVE  ConfigInv'
<1>1. /\ configerror' \in Seq(Error) /\ configerror' # <<>>
      /\ configerror # <<>> => configerror'[1] = configerror[1]
      /\ what # "logic closing tag mismatch" /\ NoMismatch => NoMismatch'
  BY ErrorAdded DEF ConfigInv, Types, NoMismatch
<1>2. what # "logic closing tag mismatch"
  BY DEF SyntaxErrors
<1>3. ErrorsAreTrue'
  BY <1>1 DEF ConfigInv, ErrorsAreTrue
<1>4. Types'
  BY <1>1 DEF ConfigInv, Types
<1> QED BY <1>1, <1>2, <1>3, <1>4 DEF ConfigInv, SyntaxKnows, LogicIsWellFormed,
           InsideBlock, Logic

(* The logic pass finds one: it is not of the syntax, nor a mismatch. *)
LEMMA LogicErrorStep ==
  ASSUME ConfigInv, NEW condition \in BOOLEAN,
         NEW what \in LogicErrors \ {"logic closing tag mismatch"},
         file' = file, pc \in Logic, line_num' \in Nat,
         ErrorIf(condition, what)
  PROVE  /\ configerror' \in Seq(Error) /\ NoMismatch'
         /\ configerror' # <<>> => configerror'[1].what \notin SyntaxErrors
<1>1. WellFormed(file) /\ what \notin SyntaxErrors /\ pc # "invalid"
  BY DEF ConfigInv, LogicIsWellFormed, Logic, SyntaxErrors, LogicErrors
<1>2. configerror \in Seq(Error) /\ NoMismatch
      /\ (configerror # <<>> => configerror[1].what \notin SyntaxErrors)
  BY <1>1 DEF ConfigInv, Types, ErrorsAreTrue
<1>3. CASE condition
  <2>1. cpw_parsecontext_add_config_error(what)
    BY <1>3 DEF ErrorIf
  <2>2. what \in SyntaxErrors \cup LogicErrors /\ what # "logic closing tag mismatch"
    OBVIOUS
  <2>3. configerror' \in Seq(Error) /\ configerror' # <<>> /\ NoMismatch'
        /\ configerror'[1].what \notin SyntaxErrors
    BY <1>1, <1>2, <2>1, <2>2, ErrorAdded DEF NoMismatch
  <2> QED BY <2>3
<1>4. CASE ~condition
  BY <1>2, <1>4 DEF ErrorIf, NoMismatch
<1> QED BY <1>3, <1>4
-----------------------------------------------------------------------------
(* The syntax pass keeps the invariant. *)
LEMMA SyntaxStep ==
  ASSUME ConfigInv, SyntaxOpen \/ SyntaxClose \/ SyntaxArg \/ SyntaxEnd
  PROVE  ConfigInv'
<1>1. Types /\ pc = "syntax" /\ file' = file
  BY DEF ConfigInv, SyntaxOpen, SyntaxClose, SyntaxArg, SyntaxEnd
<1>2. /\ file \in Seq(Line) /\ Len(file) \in Nat /\ pos \in 0..Len(file)
      /\ line_num \in Nat /\ in_tag \in BOOLEAN
  BY <1>1 DEF Types
<1>3. configerror = <<>> => ReadSoFar
  BY <1>1 DEF ConfigInv, SyntaxKnows
(* A line that is right, or that comes after an error. *)
<1>4. ASSUME pc' = "syntax", UNCHANGED configerror, pos' \in 0..Len(file),
             line_num' \in Nat, in_tag' \in BOOLEAN,
             configerror = <<>> => ReadSoFar'
      PROVE  ConfigInv'
  BY <1>1, <1>4 DEF ConfigInv, Types, SyntaxKnows, LogicIsWellFormed, ErrorsAreTrue,
     NoMismatch, InsideBlock, Logic
(* A line that is wrong. *)
<1>5. ASSUME NEW what \in SyntaxErrors, pc' \in {"syntax", "invalid"},
             pos' \in 0..Len(file), line_num' \in Nat, in_tag' \in BOOLEAN,
             cpw_parsecontext_add_config_error(what),
             configerror = <<>> => ~WellFormed(file)
      PROVE  ConfigInv'
  BY <1>1, <1>5, SyntaxErrorStep
<1>6. CASE SyntaxOpen
  <2>1. Advance /\ line.kind = "open" /\ in_tag' = TRUE
        /\ current_tag' = line.tag /\ pc' = "syntax"
    BY <1>6, <1>1 DEF SyntaxOpen
  <2>a. line # Eof
    BY <2>1 DEF Eof
  <2>2. ReadOn /\ pos' \in 0..Len(file) /\ line_num' \in Nat /\ line = file[pos + 1]
    BY <1>1, <2>1, <2>a, LineTaken
  <2>3. CASE ~in_tag
    <3>1. UNCHANGED configerror
      BY <1>6, <2>3 DEF SyntaxOpen, ErrorIf
    <3>2. configerror = <<>> => ReadSoFar'
      BY <1>2, <1>3, <2>1, <2>2, <2>3, ReadOpen
    <3> QED BY <1>4, <2>1, <2>2, <3>1, <3>2
  <2>4. CASE in_tag
    <3>1. cpw_parsecontext_add_config_error("nested tag")
      BY <1>6, <2>4 DEF SyntaxOpen, ErrorIf
    <3>2. ASSUME configerror = <<>>, WellFormed(file) PROVE FALSE
      <4>1. PICK o \in 1..pos : OpenBlock(o)
        BY <1>3, <2>4, <3>2 DEF ReadSoFar
      <4>2. IsTag(file, pos + 1) /\ pos \in 0..Len(file) - 1
        BY <2>1, <2>2 DEF IsTag, ReadOn
      <4>3. file[pos + 1] = Close(current_tag)
        BY <1>2, <3>2, <4>1, <4>2, NextTagCloses
      <4> QED BY <2>1, <2>2, <4>3 DEF Close
    <3>3. "nested tag" \in SyntaxErrors
      BY DEF SyntaxErrors
    <3> QED BY <1>5, <2>1, <2>2, <3>1, <3>2, <3>3
  <2> QED BY <1>2, <2>3, <2>4
<1>7. CASE SyntaxClose
  <2>1. Advance /\ line.kind = "close" /\ pc' = "syntax"
    BY <1>7, <1>1 DEF SyntaxClose
  <2>a. line # Eof
    BY <2>1 DEF Eof
  <2>2. /\ ReadOn /\ pos' \in 0..Len(file) /\ line_num' \in Nat
        /\ line = file[pos + 1] /\ pos + 1 \in 1..Len(file) /\ line \in Line
    BY <1>1, <1>2, <2>1, <2>a, LineTaken, LineRead
  <2>3. line = Close(line.tag) /\ IsTag(file, pos + 1) /\ pos \in 0..Len(file) - 1
    BY <2>1, <2>2 DEF Line, Blank, Close, IsTag, ReadOn
  <2>4. CASE ~in_tag /\ cpw_parsecontext_add_config_error("dangling closing tag")
             /\ UNCHANGED in_tag
    <3>1. configerror = <<>> => ~WellFormed(file)
      BY <1>2, <1>3, <2>1, <2>2, <2>3, <2>4, DanglingIsWrong
    <3>2. "dangling closing tag" \in SyntaxErrors
      BY DEF SyntaxErrors
    <3> QED BY <1>2, <1>5, <2>1, <2>2, <2>4, <3>1, <3>2
  <2>5. CASE in_tag /\ line.tag = current_tag /\ in_tag' = FALSE /\ UNCHANGED configerror
    <3>1. configerror = <<>> => ReadSoFar'
      BY <1>2, <1>3, <2>2, <2>3, <2>5, ReadClose
    <3> QED BY <1>4, <2>1, <2>2, <2>5, <3>1
  <2>6. CASE in_tag /\ line.tag # current_tag /\ UNCHANGED in_tag
             /\ cpw_parsecontext_add_config_error("closing tag mismatch")
    <3>1. ASSUME configerror = <<>>, WellFormed(file) PROVE FALSE
      <4>1. PICK o \in 1..pos : OpenBlock(o)
        BY <1>3, <2>6, <3>1 DEF ReadSoFar
      <4>2. file[pos + 1] = Close(current_tag)
        BY <1>2, <2>3, <3>1, <4>1, NextTagCloses
      <4>3. line = file[pos + 1] /\ line.tag # current_tag
        BY <2>2, <2>6
      <4> QED BY <4>2, <4>3 DEF Close
    <3>2. "closing tag mismatch" \in SyntaxErrors
      BY DEF SyntaxErrors
    <3> QED BY <1>2, <1>5, <2>1, <2>2, <2>6, <3>1, <3>2
  <2> QED BY <1>7, <2>4, <2>5, <2>6 DEF SyntaxClose
<1>8. CASE SyntaxArg
  <2>1. Advance /\ line.kind = "arg" /\ pc' = "syntax"
        /\ UNCHANGED <<in_tag, current_tag>>
    BY <1>8, <1>1 DEF SyntaxArg
  <2>a. line # Eof
    BY <2>1 DEF Eof
  <2>2. /\ ReadOn /\ pos' \in 0..Len(file) /\ line_num' \in Nat
        /\ line = file[pos + 1] /\ pos \in 0..Len(file) - 1
    BY <1>1, <2>1, <2>a, LineTaken DEF ReadOn
  <2>3. CASE in_tag /\ ~cpw_tag_is_arg_allowed(current_tag, line.key)
    <3>1. cpw_parsecontext_add_config_error("arg not allowed")
      BY <1>8, <2>3 DEF SyntaxArg, ErrorIf
    <3>2. ASSUME configerror = <<>> PROVE ~WellFormed(file)
      <4>1. PICK o \in 1..pos : OpenBlock(o)
        BY <1>3, <2>3, <3>2 DEF ReadSoFar
      <4> QED BY <1>2, <2>1, <2>2, <2>3, <4>1, NotAllowedIsWrong
    <3>3. "arg not allowed" \in SyntaxErrors
      BY DEF SyntaxErrors
    <3> QED BY <1>2, <1>5, <2>1, <2>2, <3>1, <3>2, <3>3
  <2>4. CASE ~(in_tag /\ ~cpw_tag_is_arg_allowed(current_tag, line.key))
    <3>1. UNCHANGED configerror
      BY <1>8, <2>4 DEF SyntaxArg, ErrorIf
    <3>2. in_tag => cpw_tag_is_arg_allowed(current_tag, file[pos + 1].key)
      BY <2>2, <2>4
    <3>3. configerror = <<>> => ReadSoFar'
      BY <1>2, <1>3, <2>1, <2>2, <3>2, ReadNoTag
    <3> QED BY <1>2, <1>4, <2>1, <2>2, <3>1, <3>3
  <2> QED BY <2>3, <2>4
<1>9. CASE SyntaxEnd
  <2>a. line = Eof /\ pos' \in {0, pos} /\ UNCHANGED <<line_num, in_tag, current_tag>>
    BY <1>9 DEF SyntaxEnd
  <2>b. pos = Len(file)
    BY <1>2, <2>a, LineRead
  <2>1. /\ pos = Len(file) /\ UNCHANGED <<in_tag, current_tag>>
        /\ line_num' \in Nat /\ pos' \in 0..Len(file)
    BY <1>2, <2>a, <2>b
  <2>2. CASE in_tag
    <3>1. cpw_parsecontext_add_config_error("missing closing tag")
      BY <1>9, <2>2 DEF SyntaxEnd, ErrorIf
    <3>2. ASSUME configerror = <<>> PROVE ~WellFormed(file)
      <4>1. PICK o \in 1..pos : OpenBlock(o)
        BY <1>3, <2>2, <3>2 DEF ReadSoFar
      <4> QED BY <1>2, <2>1, <4>1, MissingIsWrong
    <3>3. "missing closing tag" \in SyntaxErrors
      BY DEF SyntaxErrors
    <3>4. configerror' # <<>>
      BY <1>1, <2>1, <3>1, <3>3, ErrorAdded DEF Types
    <3>5. pc' = "invalid"
      BY <1>9, <3>4 DEF SyntaxEnd
    <3> QED BY <1>2, <1>5, <2>1, <3>1, <3>2, <3>3, <3>5
  <2>3. CASE ~in_tag
    <3>1. UNCHANGED configerror
      BY <1>9, <2>3 DEF SyntaxEnd, ErrorIf
    <3>2. CASE configerror = <<>>
      <4>1. WellFormed(file)
        BY <1>2, <1>3, <2>1, <2>3, <3>2, WholeIsWellFormed
      <4>2. pc' = "command"
        BY <1>9, <3>1, <3>2 DEF SyntaxEnd
      <4>3. WellFormed(file')
        BY <1>1, <4>1
      <4> QED BY <1>1, <1>2, <2>1, <2>3, <3>1, <3>2, <4>2, <4>3
              DEF ConfigInv, Types, SyntaxKnows, LogicIsWellFormed, ErrorsAreTrue,
                  NoMismatch, InsideBlock, Logic
    <3>3. CASE configerror # <<>>
      <4>1. pc' = "invalid"
        BY <1>9, <3>1, <3>3 DEF SyntaxEnd
      <4> QED BY <1>1, <1>2, <2>1, <2>3, <3>1, <3>3, <4>1
              DEF ConfigInv, Types, SyntaxKnows, LogicIsWellFormed, ErrorsAreTrue,
                  NoMismatch, InsideBlock, Logic
    <3> QED BY <3>2, <3>3
  <2> QED BY <1>2, <2>2, <2>3
<1> QED BY <1>6, <1>7, <1>8, <1>9
-----------------------------------------------------------------------------
(* A line that is no tag leaves the reading in its block. *)
LEMMA StaysInBlock ==
  ASSUME file \in Seq(Line), ReadOn, UNCHANGED current_tag, NEW o \in 1..pos,
         OpenBlock(o), ~IsTag(file, pos + 1)
  PROVE  o \in 1..pos' /\ OpenBlock(o)'
BY DEF OpenBlock, ReadOn, IsTag

LEMMA BlankStep ==
  ASSUME ConfigInv, SkipBlank
  PROVE  ConfigInv'
<1>1. /\ line = Blank /\ Advance
      /\ UNCHANGED <<file, pc, in_tag, current_tag, configerror>>
  BY DEF SkipBlank
<1>2. line # Eof /\ line.kind = "blank"
  BY <1>1 DEF Blank, Eof
<1>3. Types
  BY DEF ConfigInv
<1>4. /\ ReadOn /\ pos' \in 0..Len(file) /\ line_num' \in Nat
      /\ line = file[pos + 1]
  BY <1>1, <1>2, <1>3, LineTaken
<1>5. file \in Seq(Line) /\ file[pos + 1].kind = "blank" /\ ~IsTag(file, pos + 1)
  BY <1>2, <1>3, <1>4 DEF Types, IsTag
<1>6. Types'
  BY <1>1, <1>3, <1>4 DEF Types
<1>7. SyntaxKnows'
  <2> SUFFICES ASSUME pc = "syntax", configerror = <<>> PROVE ReadSoFar'
    BY <1>1 DEF SyntaxKnows
  <2> QED BY <1>1, <1>4, <1>5, ReadNoTag DEF ConfigInv, SyntaxKnows
<1>8. InsideBlock'
  <2> SUFFICES ASSUME pc \in {"in_command", "in_process"}
               PROVE  \E o \in 1..pos' : OpenBlock(o)'
    BY <1>1 DEF InsideBlock
  <2>1. PICK o \in 1..pos : OpenBlock(o)
    BY DEF ConfigInv, InsideBlock
  <2> QED BY <1>1, <1>4, <1>5, <2>1, StaysInBlock
<1> QED BY <1>1, <1>6, <1>7, <1>8
        DEF ConfigInv, LogicIsWellFormed, ErrorsAreTrue, NoMismatch

(* What a step of the logic passes has to keep. *)
LEMMA LogicKeeps ==
  ASSUME ConfigInv, pc \in Logic, file' = file,
         pos' \in 0..Len(file), line_num' \in Nat, in_tag' = in_tag,
         pc' \in Logic \cup {"valid", "invalid"},
         pc' = "invalid" => configerror' # <<>>,
         configerror' \in Seq(Error), NoMismatch',
         configerror' # <<>> => configerror'[1].what \notin SyntaxErrors,
         InsideBlock'
  PROVE  ConfigInv'
<1>1. WellFormed(file') /\ pc' # "syntax"
  BY DEF ConfigInv, LogicIsWellFormed, Logic
<1>2. Types'
  BY DEF ConfigInv, Types
<1> QED BY <1>1, <1>2 DEF ConfigInv, SyntaxKnows, LogicIsWellFormed, ErrorsAreTrue

(* Without an error in the step. *)
LEMMA LogicKeepsErrors ==
  ASSUME ConfigInv, pc \in Logic, UNCHANGED configerror
  PROVE  /\ configerror' \in Seq(Error) /\ NoMismatch'
         /\ configerror' # <<>> => configerror'[1].what \notin SyntaxErrors
BY DEF ConfigInv, Types, NoMismatch, ErrorsAreTrue, LogicIsWellFormed

LEMMA SeekStep ==
  ASSUME ConfigInv, SeekPast \/ CommandsEnd \/ ProcessesEnd
  PROVE  ConfigInv'
<1>1. Types /\ pc \in {"command", "process"} /\ file' = file /\ in_tag' = in_tag
      /\ UNCHANGED configerror
  BY DEF ConfigInv, SeekPast, CommandsEnd, ProcessesEnd, contextvars
<1>2. pc \in Logic
  BY <1>1 DEF Logic
<1>3. /\ pos' \in 0..Len(file) /\ line_num' \in Nat
      /\ pc' \in {"command", "process", "valid", "invalid"}
      /\ pc' = "invalid" => configerror' # <<>>
  <2>1. CASE SeekPast
    <3>1. line # Eof /\ Advance /\ pc' = pc
      BY <2>1 DEF SeekPast
    <3> QED BY <1>1, <3>1, LineTaken
  <2>2. CASE CommandsEnd
    BY <1>1, <2>2 DEF CommandsEnd, Types
  <2>3. CASE ProcessesEnd
    BY <1>1, <2>3 DEF ProcessesEnd, Types, contextvars
  <2> QED BY <2>1, <2>2, <2>3
<1>4. InsideBlock'
  BY <1>3 DEF InsideBlock
<1>5. pc' \in Logic \cup {"valid", "invalid"}
  BY <1>3 DEF Logic
<1> QED BY <1>1, <1>2, <1>3, <1>4, <1>5, LogicKeeps, LogicKeepsErrors

LEMMA OpenStep ==
  ASSUME ConfigInv, OpenCommand \/ OpenProcess
  PROVE  ConfigInv'
<1>1. /\ pc \in {"command", "process"} /\ pc' \in {"in_command", "in_process"}
      /\ line.kind = "open" /\ Advance /\ current_tag' = line.tag
      /\ file' = file /\ in_tag' = in_tag
  BY DEF OpenCommand, OpenProcess
<1>2. Types /\ pc \in Logic /\ pc' \in Logic /\ pc' # "invalid" /\ line # Eof
  BY <1>1 DEF ConfigInv, Logic, Eof
<1>3. /\ ReadOn /\ pos' \in 0..Len(file) /\ line_num' \in Nat /\ line = file[pos + 1]
  BY <1>1, <1>2, LineTaken
<1>4. \E b \in BOOLEAN : ErrorIf(b, "command already defined")
  <2>1. CASE OpenCommand /\ line.name # NoToken
    BY <2>1 DEF OpenCommand, ErrorIf
  <2>2. CASE UNCHANGED configerror
    BY <2>2 DEF ErrorIf
  <2> QED BY <2>1, <2>2 DEF OpenCommand, OpenProcess
<1>5. /\ configerror' \in Seq(Error) /\ NoMismatch'
      /\ configerror' # <<>> => configerror'[1].what \notin SyntaxErrors
  <2>1. "command already defined" \in LogicErrors \ {"logic closing tag mismatch"}
    BY DEF LogicErrors
  <2> QED BY <1>1, <1>2, <1>3, <1>4, <2>1, LogicErrorStep
<1>6. InsideBlock'
  <2>1. PICK o \in 1..pos' : o = pos + 1
    BY <1>2, <1>3 DEF ReadOn
  <2>2. OpenBlock(o)'
    BY <1>1, <1>2, <1>3, <2>1 DEF OpenBlock, ReadOn, Types
  <2> QED BY <2>2 DEF InsideBlock
<1> QED BY <1>1, <1>2, <1>3, <1>5, <1>6, LogicKeeps

LEMMA ValueStep ==
  ASSUME ConfigInv, SetCommandValue \/ SetProcessValue
  PROVE  ConfigInv'
<1>1. /\ pc \in {"in_command", "in_process"} /\ pc' = pc
      /\ line.kind = "arg" /\ Advance /\ UNCHANGED <<file, in_tag, current_tag>>
  BY DEF SetCommandValue, SetProcessValue
<1>2. Types /\ pc \in Logic /\ pc' \in Logic /\ pc' # "invalid" /\ line # Eof
  BY <1>1 DEF ConfigInv, Logic, Eof
<1>3. /\ ReadOn /\ pos' \in 0..Len(file) /\ line_num' \in Nat /\ line = file[pos + 1]
  BY <1>1, <1>2, LineTaken
<1>4. \E b \in BOOLEAN : ErrorIf(b, "not a valid command name")
  <2>1. CASE SetProcessValue
    BY <2>1 DEF SetProcessValue, ErrorIf
  <2>2. CASE UNCHANGED configerror
    BY <2>2 DEF ErrorIf
  <2> QED BY <2>1, <2>2 DEF SetCommandValue
<1>5. /\ configerror' \in Seq(Error) /\ NoMismatch'
      /\ configerror' # <<>> => configerror'[1].what \notin SyntaxErrors
  <2>1. "not a valid command name" \in LogicErrors \ {"logic closing tag mismatch"}
    BY DEF LogicErrors
  <2> QED BY <1>1, <1>2, <1>3, <1>4, <2>1, LogicErrorStep
<1>6. InsideBlock'
  <2>1. PICK o \in 1..pos : OpenBlock(o)
    BY <1>1 DEF ConfigInv, InsideBlock
  <2>2. ~IsTag(file, pos + 1) /\ file \in Seq(Line)
    BY <1>1, <1>2, <1>3 DEF IsTag, Types
  <2> QED BY <1>1, <1>3, <2>1, <2>2, StaysInBlock DEF InsideBlock
<1> QED BY <1>1, <1>2, <1>3, <1>5, <1>6, LogicKeeps

LEMMA CloseStep ==
  ASSUME ConfigInv, CloseCommand \/ CloseProcess
  PROVE  ConfigInv'
<1>1. /\ pc \in {"in_command", "in_process"} /\ pc' \in {"command", "process"}
      /\ Advance /\ file' = file /\ in_tag' = in_tag
  BY DEF CloseCommand, CloseProcess
<1>2. Types /\ pc \in Logic /\ pc' \in Logic /\ pc' # "invalid"
  BY <1>1 DEF ConfigInv, Logic
<1>3. pos' \in 0..Len(file) /\ line_num' \in Nat
  <2>1. CASE line # Eof
    BY <1>1, <1>2, <2>1, LineTaken
  <2>2. CASE line = Eof
    BY <1>1, <1>2, <2>2 DEF Advance, Types
  <2> QED BY <2>1, <2>2
<1>4. UNCHANGED configerror
  <2>1. CASE CloseCommand
    <3>1. ASSUME line.kind = "close" PROVE line.tag = current_tag
      <4>1. line # Eof
        BY <3>1 DEF Eof
      <4>2. /\ ReadOn /\ line = file[pos + 1]
        BY <1>1, <1>2, <4>1, LineTaken
      <4>3. PICK o \in 1..pos : OpenBlock(o)
        BY <1>1 DEF ConfigInv, InsideBlock
      <4>4. /\ WellFormed(file) /\ file \in Seq(Line) /\ pos \in 0..Len(file) - 1
            /\ IsTag(file, pos + 1)
        BY <1>2, <3>1, <4>2 DEF ConfigInv, LogicIsWellFormed, Types, ReadOn, IsTag
      <4>5. file[pos + 1] = Close(current_tag)
        BY <4>3, <4>4, NextTagCloses
      <4> QED BY <4>2, <4>5 DEF Close
    <3>2. ~(line.kind = "close" /\ line.tag # current_tag)
      BY <3>1
    <3> QED BY <2>1, <3>2 DEF CloseCommand, ErrorIf
  <2>2. CASE CloseProcess
    BY <2>2 DEF CloseProcess
  <2> QED BY <2>1, <2>2
<1>5. InsideBlock'
  BY <1>1 DEF InsideBlock
<1> QED BY <1>1, <1>2, <1>3, <1>4, <1>5, LogicKeeps, LogicKeepsErrors

-----------------------------------------------------------------------------
(* The invariant of the validator: what each pass knows of the lines it    *)
(* has read (config.c:273-399).                                            *)
THEOREM ConfigInvariance == Spec => []ConfigInv
<1>1. ConfigInv /\ [Next]_vars => ConfigInv'
  <2> SUFFICES ASSUME ConfigInv, [Next]_vars PROVE ConfigInv'
    OBVIOUS
  <2>1. CASE SkipBlank
    BY <2>1, BlankStep
  <2>2. CASE SyntaxOpen \/ SyntaxClose \/ SyntaxArg \/ SyntaxEnd
    BY <2>2, SyntaxStep
  <2>3. CASE SeekPast \/ CommandsEnd \/ ProcessesEnd
    BY <2>3, SeekStep
  <2>4. CASE OpenCommand \/ OpenProcess
    BY <2>4, OpenStep
  <2>5. CASE SetCommandValue \/ SetProcessValue
    BY <2>5, ValueStep
  <2>6. CASE CloseCommand \/ CloseProcess
    BY <2>6, CloseStep
  <2>7. CASE UNCHANGED vars
    <3>1. UNCHANGED <<file, pc, pos, line_num, in_tag, current_tag, configerror>>
      BY <2>7 DEF vars, contextvars
    <3>2. ReadSoFar' <=> ReadSoFar
      BY <3>1 DEF ReadSoFar, OpensClosed, ClosesOpened, ArgsRead, OpenBlock, IsTag,
         Follows, Close
    <3>3. InsideBlock' <=> InsideBlock
      BY <3>1 DEF InsideBlock, OpenBlock, IsTag
    <3> QED BY <3>1, <3>2, <3>3 DEF ConfigInv, Types, SyntaxKnows, LogicIsWellFormed,
            ErrorsAreTrue, NoMismatch
  <2> QED BY <2>1, <2>2, <2>3, <2>4, <2>5, <2>6, <2>7 DEF Next
<1> QED BY <1>1, ConfigInit, PTL DEF Spec

(* The syntax pass lets the well-formed files through and no others. *)
THEOREM SyntaxDecidesAll == Spec => []SyntaxDecides
<1>1. ConfigInv => SyntaxDecides
  BY DEF ConfigInv, SyntaxDecides, LogicIsWellFormed, ErrorsAreTrue
<1> QED BY <1>1, ConfigInvariance, PTL

(* "should never happen after a syntax check" (config.c:304): it does not. *)
THEOREM BlocksAlwaysEnd == Spec => []BlocksEndAtTheirTag
<1>1. ConfigInv => BlocksEndAtTheirTag
  <2> SUFFICES ASSUME ConfigInv, pc \in {"in_command", "in_process"}
               PROVE  \E j \in pos+1..Len(file) :
                        /\ file[j] = Close(current_tag)
                        /\ \A k \in pos+1..j-1 : ~IsTag(file, k)
    BY DEF BlocksEndAtTheirTag, ConfigInv, NoMismatch
  <2>1. PICK o \in 1..pos : OpenBlock(o)
    BY DEF ConfigInv, InsideBlock
  <2>2. WellFormed(file) /\ file \in Seq(Line) /\ pos \in 0..Len(file)
    BY DEF ConfigInv, LogicIsWellFormed, Logic, Types
  <2>3. PICK j \in DOMAIN file : Follows(file, o, j) /\ file[j] = Close(current_tag)
    BY <2>1, <2>2 DEF WellFormed, Bracketed, OpenBlock
  <2>4. j \in 1..Len(file) /\ IsTag(file, j)
    BY <2>2, <2>3 DEF IsTag, Close
  <2>5. j > pos
    BY <2>1, <2>2, <2>3, <2>4 DEF OpenBlock, Follows
  <2>6. \A k \in pos+1..j-1 : ~IsTag(file, k)
    BY <2>1, <2>2, <2>3, <2>4 DEF Follows
  <2> QED BY <2>2, <2>3, <2>4, <2>5, <2>6
<1> QED BY <1>1, ConfigInvariance, PTL

-----------------------------------------------------------------------------
(* The first error is the first.  Follows looks only at the lines before   *)
(* the second, so that a file that begins as this one does is read alike.  *)
LEMMA FollowsAgree ==
  ASSUME NEW f, NEW g, NEW n \in Nat, \A k \in 1..n : g[k] = f[k],
         NEW i \in 1..n, NEW j \in 1..n + 1
  PROVE  Follows(g, i, j) <=> Follows(f, i, j)
<1>1. \A k \in i+1..j-1 : k \in 1..n
  OBVIOUS
<1> QED BY <1>1 DEF Follows, IsTag

LEMMA PrefixFacts ==
  ASSUME NEW S, NEW s \in Seq(S), NEW n \in 0..Len(s)
  PROVE  /\ SubSeq(s, 1, n) \in Seq(S) /\ Len(SubSeq(s, 1, n)) = n
         /\ \A k \in 1..n : SubSeq(s, 1, n)[k] = s[k]
<1>1. n \in Nat /\ Len(s) \in Nat /\ \A k \in 1..n : k \in 1..Len(s)
  OBVIOUS
<1>2. Len(SubSeq(s, 1, n)) = n
  BY <1>1
<1>3. \A k \in 1..n : SubSeq(s, 1, n)[k] = s[k]
  BY <1>1
<1>4. \A k \in 1..n : s[k] \in S
  BY <1>1
<1>5. SubSeq(s, 1, n) \in Seq(S)
  BY <1>1, <1>4
<1> QED BY <1>2, <1>3, <1>5

LEMMA ConcatFacts ==
  ASSUME NEW S, NEW s \in Seq(S), NEW t \in Seq(S)
  PROVE  /\ s \o t \in Seq(S) /\ Len(s \o t) = Len(s) + Len(t)
         /\ DOMAIN (s \o t) = 1..Len(s) + Len(t)
         /\ \A k \in 1..Len(s) : (s \o t)[k] = s[k]
OBVIOUS

(* The syntax pass takes line pos + 1 for an error. *)
BadLine ==
  LET l == file[pos + 1] IN
  \/ in_tag /\ l.kind = "open"
  \/ ~in_tag /\ l.kind = "close"
  \/ in_tag /\ l.kind = "close" /\ l.tag # current_tag
  \/ in_tag /\ l.kind = "arg" /\ ~cpw_tag_is_arg_allowed(current_tag, l.key)

(* No file that begins with the lines read and this one is well-formed. *)
LEMMA BadIsWrong ==
  ASSUME file \in Seq(Line), pos \in 0..Len(file) - 1, in_tag \in BOOLEAN,
         ReadSoFar, BadLine,
         NEW f \in Seq(Line), pos + 1 \in DOMAIN f, \A k \in 1..pos + 1 : f[k] = file[k]
  PROVE  ~WellFormed(f)
<1> SUFFICES ASSUME WellFormed(f) PROVE FALSE
  OBVIOUS
<1> DEFINE l == file[pos + 1]
<1>1. pos \in Nat /\ f[pos + 1] = l /\ (\A k \in 1..pos : f[k] = file[k])
      /\ DOMAIN f = 1..Len(f) /\ Len(f) \in Nat
  OBVIOUS
<1>2. CASE in_tag
  <2>1. PICK o \in 1..pos : OpenBlock(o)
    BY <1>2 DEF ReadSoFar
  <2>2. f[o].kind = "open" /\ f[o].tag = current_tag /\ o \in DOMAIN f
    BY <1>1, <2>1 DEF OpenBlock
  <2>3. \A k \in o+1..pos : ~IsTag(f, k)
    BY <1>1, <2>1 DEF OpenBlock, IsTag
  <2>4. CASE l.kind \in {"open", "close"}
    <3>1. PICK j \in DOMAIN f : Follows(f, o, j) /\ f[j] = Close(f[o].tag)
      BY <2>2 DEF WellFormed, Bracketed
    <3>2. IsTag(f, j) /\ IsTag(f, pos + 1) /\ j \in Nat
      BY <1>1, <2>4, <3>1 DEF IsTag, Close
    <3>3. ~(j <= pos)
      BY <1>1, <2>1, <2>3, <3>1, <3>2 DEF Follows
    <3>4. ~(j > pos + 1)
      BY <1>1, <2>1, <3>1, <3>2 DEF Follows
    <3>5. l = Close(current_tag)
      BY <1>1, <2>2, <3>1, <3>2, <3>3, <3>4
    <3> QED BY <1>2, <3>5 DEF BadLine, Close
  <2>5. CASE l.kind \notin {"open", "close"}
    <3>1. l.kind = "arg" /\ ~cpw_tag_is_arg_allowed(current_tag, l.key)
      BY <1>2, <2>5 DEF BadLine
    <3>2. Follows(f, o, pos + 1)
      BY <1>1, <2>1, <2>3 DEF Follows
    <3> QED BY <1>1, <2>2, <3>1, <3>2 DEF WellFormed, ArgsAllowed
  <2> QED BY <2>4, <2>5
<1>3. CASE ~in_tag
  <2>1. f[pos + 1].kind = "close"
    BY <1>1, <1>3 DEF BadLine
  <2>2. PICK i \in DOMAIN f : Follows(f, i, pos + 1) /\ f[i].kind = "open"
    BY <2>1 DEF WellFormed, Bracketed
  <2>3. i \in 1..pos
    BY <1>1, <2>2 DEF Follows
  <2>4. file[i].kind = "open"
    BY <1>1, <2>2, <2>3
  <2>5. PICK j \in 1..pos : Follows(file, i, j) /\ file[j] = Close(file[i].tag)
    BY <1>3, <2>3, <2>4 DEF ReadSoFar, OpensClosed
  <2>6. IsTag(f, j) /\ i < j /\ j < pos + 1
    BY <1>1, <2>3, <2>5 DEF Follows, IsTag, Close
  <2>7. j \in i+1..(pos + 1)-1
    BY <1>1, <2>3, <2>6
  <2> QED BY <2>2, <2>6, <2>7 DEF Follows
<1> QED BY <1>2, <1>3

(* A position up to the next one is the next one or one before it. *)
LEMMA LastOrBefore ==
  ASSUME NEW n \in Nat, NEW j \in 1..n + 1
  PROVE  j \in 1..n \/ j = n + 1
OBVIOUS

(* The lines read can be mended, by the closing tag that is expected. *)
LEMMA ReadIsMendable ==
  ASSUME file \in Seq(Line), pos \in 0..Len(file), in_tag \in BOOLEAN, ReadSoFar,
         NEW g \in Seq(Line), Len(g) = pos, \A k \in 1..pos : g[k] = file[k]
  PROVE  Mendable(g)
<1>1. pos \in Nat /\ DOMAIN g = 1..pos
  OBVIOUS
<1>2. CASE ~in_tag
  <2>1. ASSUME NEW i \in 1..pos, NEW j \in 1..pos
        PROVE  Follows(g, i, j) <=> Follows(file, i, j)
    <3>1. j \in 1..pos + 1
      BY <1>1
    <3> QED BY <1>1, <3>1, FollowsAgree
  <2>2. Bracketed(g)
    <3>1. \A i \in 1..pos, j \in 1..pos : Follows(g, i, j) <=> Follows(file, i, j)
      BY <2>1
    <3>2. \A i \in 1..pos : g[i] = file[i]
      OBVIOUS
    <3>3. /\ \A i \in 1..pos : file[i].kind = "open" =>
               \E j \in 1..pos : Follows(file, i, j) /\ file[j] = Close(file[i].tag)
          /\ \A j \in 1..pos : file[j].kind = "close" =>
               \E i \in 1..pos : Follows(file, i, j) /\ file[i].kind = "open"
      BY <1>2 DEF ReadSoFar, OpensClosed, ClosesOpened
    <3>4. ASSUME NEW i \in 1..pos, g[i].kind = "open"
          PROVE  \E j \in 1..pos : Follows(g, i, j) /\ g[j] = Close(g[i].tag)
      BY <3>1, <3>2, <3>3, <3>4
    <3>5. ASSUME NEW j \in 1..pos, g[j].kind = "close"
          PROVE  \E i \in 1..pos : Follows(g, i, j) /\ g[i].kind = "open"
      BY <3>1, <3>2, <3>3, <3>5
    <3> QED BY <1>1, <3>4, <3>5 DEF Bracketed
  <2>3. ArgsAllowed(g)
    BY <1>1, <2>1 DEF ReadSoFar, ArgsRead, ArgsAllowed
  <2>4. g \o <<>> = g
    OBVIOUS
  <2> QED BY <2>2, <2>3, <2>4 DEF Mendable, WellFormed
<1>3. CASE in_tag
  <2> DEFINE c == Close(current_tag)
             h == g \o <<c>>
  <2>1. PICK o \in 1..pos : OpenBlock(o)
    BY <1>3 DEF ReadSoFar
  <2>2. current_tag \in Tag
    <3>1. file[o] \in Line /\ file[o].kind = "open" /\ file[o].tag = current_tag
      BY <2>1 DEF OpenBlock
    <3> QED BY <3>1 DEF Line, Blank
  <2>3. /\ DOMAIN h = 1..pos + 1 /\ h[pos + 1] = c
        /\ \A k \in 1..pos : h[k] = file[k]
    <3> HIDE DEF c
    <3>1. Len(h) = pos + 1 /\ h[pos + 1] = c /\ (\A k \in 1..pos : h[k] = g[k])
          /\ DOMAIN h = 1..pos + 1
      BY <1>1
    <3> QED BY <3>1
  <2>4. c.kind = "close" /\ c.tag = current_tag
    BY DEF Close
  <2> HIDE DEF h, c
  <2>5. \A i \in 1..pos, j \in 1..pos + 1 : Follows(h, i, j) <=> Follows(file, i, j)
    BY <1>1, <2>3, FollowsAgree
  <2>6. Follows(file, o, pos + 1)
    BY <1>1, <2>1 DEF OpenBlock, Follows
  <2>7. Bracketed(h)
    <3>1. ASSUME NEW i \in 1..pos + 1, h[i].kind = "open"
          PROVE  \E j \in 1..pos + 1 : Follows(h, i, j) /\ h[j] = Close(h[i].tag)
      <4>1. i \in 1..pos /\ file[i].kind = "open" /\ h[i] = file[i]
        BY <1>1, <2>3, <2>4, <3>1
      <4>2. CASE \E j \in 1..pos : Follows(file, i, j) /\ file[j] = Close(file[i].tag)
        <5>1. PICK j \in 1..pos : Follows(file, i, j) /\ file[j] = Close(file[i].tag)
          BY <4>2
        <5>2. j \in 1..pos + 1 /\ h[j] = file[j]
          BY <1>1, <2>3
        <5> QED BY <2>5, <4>1, <5>1, <5>2
      <4>3. CASE \A k \in i+1..pos : ~IsTag(file, k)
        <5>1. i = o
          BY <1>1, <2>1, <4>1, <4>3 DEF OpenBlock, IsTag
        <5>2. pos + 1 \in 1..pos + 1 /\ h[pos + 1] = Close(h[i].tag)
          BY <1>1, <2>1, <2>3, <4>1, <5>1 DEF OpenBlock, c
        <5> QED BY <2>5, <2>6, <4>1, <5>1, <5>2
      <4> QED BY <4>1, <4>2, <4>3 DEF ReadSoFar, OpensClosed
    <3>2. ASSUME NEW j \in 1..pos + 1, h[j].kind = "close"
          PROVE  \E i \in 1..pos + 1 : Follows(h, i, j) /\ h[i].kind = "open"
      <4>1. \A i \in 1..pos : i \in 1..pos + 1 /\ h[i] = file[i]
        BY <1>1, <2>3
      <4>2. CASE j \in 1..pos
        <5>1. PICK i \in 1..pos : Follows(file, i, j) /\ file[i].kind = "open"
          BY <2>3, <3>2, <4>2 DEF ReadSoFar, ClosesOpened
        <5> QED BY <2>5, <4>1, <5>1
      <4>3. CASE j = pos + 1
        <5>1. o \in 1..pos + 1 /\ h[o].kind = "open"
          BY <2>1, <4>1 DEF OpenBlock
        <5>2. j \in 1..pos + 1 /\ Follows(h, o, j)
          BY <2>5, <2>6, <4>3
        <5> QED BY <5>1, <5>2
      <4>4. j \in 1..pos \/ j = pos + 1
        BY <1>1, LastOrBefore
      <4> QED BY <4>2, <4>3, <4>4
    <3> QED BY <2>3, <3>1, <3>2 DEF Bracketed
  <2>8. ArgsAllowed(h)
    <3> SUFFICES ASSUME NEW i \in 1..pos + 1, NEW j \in 1..pos + 1, h[i].kind = "open",
                        h[j].kind = "arg", Follows(h, i, j)
                 PROVE  cpw_tag_is_arg_allowed(h[i].tag, h[j].key)
      BY <2>3 DEF ArgsAllowed
    <3>1. i \in 1..pos /\ j \in 1..pos
      BY <1>1, <2>3, <2>4
    <3>2. h[i] = file[i] /\ h[j] = file[j] /\ Follows(file, i, j)
      BY <1>1, <2>3, <2>5, <3>1
    <3> QED BY <3>1, <3>2 DEF ReadSoFar, ArgsRead
  <2>9. <<c>> \in {<<>>} \cup {<<Close(t)>> : t \in Tag}
    BY <2>2 DEF c
  <2> QED BY <2>7, <2>8, <2>9 DEF Mendable, WellFormed, h
<1> QED BY <1>2, <1>3

(* A bad line is the first no later line could mend. *)
LEMMA BadIsTheFirst ==
  ASSUME file \in Seq(Line), pos \in 0..Len(file) - 1, in_tag \in BOOLEAN,
         ReadSoFar, BadLine
  PROVE  /\ pos + 1 \in DOMAIN file
         /\ Mendable(SubSeq(file, 1, (pos + 1) - 1)) /\ ~Mendable(SubSeq(file, 1, pos + 1))
<1>1. pos \in Nat /\ Len(file) \in Nat /\ DOMAIN file = 1..Len(file)
      /\ pos + 1 \in 0..Len(file) /\ pos + 1 \in DOMAIN file
  OBVIOUS
<1>a. (pos + 1) - 1 = pos
  BY <1>1
<1>2. Mendable(SubSeq(file, 1, pos))
  <2> DEFINE g == SubSeq(file, 1, pos)
  <2>1. g \in Seq(Line) /\ Len(g) = pos /\ \A k \in 1..pos : g[k] = file[k]
    BY <1>1, PrefixFacts
  <2> HIDE DEF g
  <2>2. Mendable(g)
    BY <1>1, <2>1, ReadIsMendable
  <2> QED BY <2>2 DEF g
<1>3. ~Mendable(SubSeq(file, 1, pos + 1))
  <2> DEFINE g == SubSeq(file, 1, pos + 1)
  <2>1. g \in Seq(Line) /\ Len(g) = pos + 1 /\ \A k \in 1..pos + 1 : g[k] = file[k]
    BY <1>1, PrefixFacts
  <2> HIDE DEF g
  <2>2. ASSUME NEW rest \in {<<>>} \cup {<<Close(t)>> : t \in Tag}
        PROVE  ~WellFormed(g \o rest)
    <3>1. rest \in Seq(Line)
      <4>1. ASSUME NEW t \in Tag PROVE <<Close(t)>> \in Seq(Line)
        <5>1. Close(t) \in Line
          BY DEF Close, Line
        <5> QED BY <5>1
      <4>2. <<>> \in Seq(Line)
        OBVIOUS
      <4> QED BY <4>1, <4>2
    <3>2. g \o rest \in Seq(Line) /\ pos + 1 \in DOMAIN (g \o rest)
          /\ \A k \in 1..pos + 1 : (g \o rest)[k] = g[k]
      <4>1. Len(rest) \in Nat
        BY <3>1
      <4> QED BY <1>1, <2>1, <3>1, <4>1, ConcatFacts
    <3> QED BY <2>1, <3>2, BadIsWrong
  <2>3. ~Mendable(g)
    BY <2>2 DEF Mendable
  <2> QED BY <2>3 DEF g
<1> QED BY <1>1, <1>a, <1>2, <1>3

(* The syntax pass counts the lines it reads, and what is said of the      *)
(* first error stays so.                                                   *)
FirstErrorInv == (pc = "syntax" => line_num = pos) /\ FirstErrorIsTheFirst

(* The errors the syntax pass finds in lines, and at the end of the file. *)
LEMMA SyntaxFindsTheFirst ==
  ASSUME ConfigInv, pc = "syntax", line_num = pos, configerror = <<>>, configerror' # <<>>,
         SkipBlank \/ SyntaxOpen \/ SyntaxClose \/ SyntaxArg \/ SyntaxEnd
  PROVE  FirstErrorIsTheFirst'
<1>1. Types /\ file' = file /\ ReadSoFar
  BY DEF ConfigInv, SyntaxKnows, SkipBlank, SyntaxOpen, SyntaxClose, SyntaxArg, SyntaxEnd
<1>2. /\ file \in Seq(Line) /\ Len(file) \in Nat /\ pos \in 0..Len(file)
      /\ line_num \in Nat /\ in_tag \in BOOLEAN /\ configerror \in Seq(Error)
  BY <1>1 DEF Types
<1>3. ASSUME NEW what \in SyntaxErrors, cpw_parsecontext_add_config_error(what)
      PROVE  configerror'[1].line = line_num' /\ configerror'[1].what = what
  <2> DEFINE e == [line |-> line_num', what |-> what]
  <2>1. e.line = line_num' /\ e.what = what
    OBVIOUS
  <2>2. configerror' = Append(configerror, e) /\ Len(configerror) = 0
    BY <1>3 DEF cpw_parsecontext_add_config_error
  <2> HIDE DEF e
  <2>3. configerror'[1] = e
    BY <1>2, <2>2
  <2> QED BY <2>1, <2>3
<1>4. ASSUME NEW what \in SyntaxErrors \ {"missing closing tag"},
             cpw_parsecontext_add_config_error(what), Advance, line # Eof, BadLine
      PROVE  FirstErrorIsTheFirst'
  <2>1. pos \in 0..Len(file) - 1 /\ line_num' = pos + 1
    BY <1>1, <1>2, <1>4, LineTaken DEF ReadOn, Advance
  <2>2. /\ pos + 1 \in DOMAIN file
        /\ Mendable(SubSeq(file, 1, (pos + 1) - 1)) /\ ~Mendable(SubSeq(file, 1, pos + 1))
    BY <1>1, <1>2, <1>4, <2>1, BadIsTheFirst
  <2>3. configerror'[1].line = pos + 1 /\ configerror'[1].what = what
    BY <1>3, <1>4, <2>1
  <2>4. what # "missing closing tag"
    BY <1>4
  <2>5. Mendable(SubSeq(file', 1, (pos + 1) - 1)) /\ ~Mendable(SubSeq(file', 1, pos + 1))
    BY <1>1, <2>2
  <2> HIDE DEF Error
  <2> QED BY <1>1, <2>2, <2>3, <2>4, <2>5 DEF FirstErrorIsTheFirst
<1>5. CASE SkipBlank
  BY <1>5 DEF SkipBlank
<1>6. CASE SyntaxOpen
  <2>1. Advance /\ line.kind = "open" /\ in_tag /\ cpw_parsecontext_add_config_error("nested tag")
    BY <1>6 DEF SyntaxOpen, ErrorIf
  <2>a. line.kind = "open"
    BY <2>1
  <2>2. line # Eof
    BY <2>a DEF Eof
  <2>3. BadLine
    BY <1>1, <2>1, <2>2, LineTaken DEF BadLine
  <2>4. "nested tag" \in SyntaxErrors \ {"missing closing tag"}
    BY DEF SyntaxErrors
  <2> QED BY <1>4, <2>1, <2>2, <2>3, <2>4
<1>7. CASE SyntaxClose
  <2>1. Advance /\ line.kind = "close"
    BY <1>7 DEF SyntaxClose
  <2>2. line # Eof
    BY <2>1 DEF Eof
  <2>3. line = file[pos + 1]
    BY <1>1, <2>1, <2>2, LineTaken
  <2>4. CASE ~in_tag /\ cpw_parsecontext_add_config_error("dangling closing tag")
    <3>1. BadLine
      BY <2>1, <2>3, <2>4 DEF BadLine
    <3>2. "dangling closing tag" \in SyntaxErrors \ {"missing closing tag"}
      BY DEF SyntaxErrors
    <3> QED BY <1>4, <2>1, <2>2, <2>4, <3>1, <3>2
  <2>5. CASE in_tag /\ line.tag # current_tag
             /\ cpw_parsecontext_add_config_error("closing tag mismatch")
    <3>1. BadLine
      BY <2>1, <2>3, <2>5 DEF BadLine
    <3>2. "closing tag mismatch" \in SyntaxErrors \ {"missing closing tag"}
      BY DEF SyntaxErrors
    <3> QED BY <1>4, <2>1, <2>2, <2>5, <3>1, <3>2
  <2> QED BY <1>7, <2>4, <2>5 DEF SyntaxClose
<1>8. CASE SyntaxArg
  <2>1. Advance /\ line.kind = "arg" /\ in_tag /\ ~cpw_tag_is_arg_allowed(current_tag, line.key)
        /\ cpw_parsecontext_add_config_error("arg not allowed")
    BY <1>8 DEF SyntaxArg, ErrorIf
  <2>a. line.kind = "arg"
    BY <2>1
  <2>2. line # Eof
    BY <2>a DEF Eof
  <2>3. BadLine
    BY <1>1, <2>1, <2>2, LineTaken DEF BadLine
  <2>4. "arg not allowed" \in SyntaxErrors \ {"missing closing tag"}
    BY DEF SyntaxErrors
  <2> QED BY <1>4, <2>1, <2>2, <2>3, <2>4
<1>9. CASE SyntaxEnd
  <2>1. line = Eof /\ in_tag /\ cpw_parsecontext_add_config_error("missing closing tag")
    BY <1>9 DEF SyntaxEnd, ErrorIf
  <2>2. pos = Len(file)
    BY <1>2, <2>1, LineRead
  <2>3. ~WellFormed(file)
    <3>1. PICK o \in 1..pos : OpenBlock(o)
      BY <1>1, <2>1 DEF ReadSoFar
    <3> QED BY <1>2, <2>2, <3>1, MissingIsWrong
  <2>4. Mendable(file)
    BY <1>1, <1>2, <2>2, ReadIsMendable
  <2>5. "missing closing tag" \in SyntaxErrors
    BY DEF SyntaxErrors
  <2>6. configerror'[1].what = "missing closing tag"
    BY <1>3, <2>1, <2>5
  <2> QED BY <1>1, <2>3, <2>4, <2>6 DEF FirstErrorIsTheFirst
<1> QED BY <1>5, <1>6, <1>7, <1>8, <1>9

(* What the logic passes find is not of the syntax. *)
LEMMA LogicFindsNoSyntaxError ==
  ASSUME ConfigInv, ConfigInv', pc \in Logic, file' = file
  PROVE  FirstErrorIsTheFirst'
<1>1. WellFormed(file')
  BY DEF ConfigInv, LogicIsWellFormed
<1>2. ~(configerror' # <<>> /\ configerror'[1].what \in SyntaxErrors)
  BY <1>1 DEF ConfigInv, ErrorsAreTrue
<1> QED BY <1>2 DEF FirstErrorIsTheFirst

LEMMA FirstErrorStays ==
  ASSUME file' = file, FirstErrorIsTheFirst, configerror # <<>>,
         configerror'[1] = configerror[1]
  PROVE  FirstErrorIsTheFirst'
BY DEF FirstErrorIsTheFirst

LEMMA FirstErrorStep ==
  ASSUME ConfigInv, ConfigInv', FirstErrorInv, [Next]_vars
  PROVE  FirstErrorInv'
<1>1. Types
  BY DEF ConfigInv
<1>2. CASE pc = "syntax" /\ (SkipBlank \/ SyntaxOpen \/ SyntaxClose \/ SyntaxArg \/ SyntaxEnd)
  <2>1. pc' = "syntax" => line_num' = pos'
    <3>1. CASE SyntaxEnd
      BY <3>1 DEF SyntaxEnd
    <3>2. CASE SkipBlank \/ SyntaxOpen \/ SyntaxClose \/ SyntaxArg
      <4>1. Advance
        BY <3>2 DEF SkipBlank, SyntaxOpen, SyntaxClose, SyntaxArg
      <4> QED BY <1>2, <4>1 DEF FirstErrorInv, Advance
    <3> QED BY <1>2, <3>1, <3>2
  <2>2. file' = file /\ configerror \in Seq(Error) /\ line_num = pos
    BY <1>1, <1>2 DEF Types, FirstErrorInv, SkipBlank, SyntaxOpen, SyntaxClose, SyntaxArg, SyntaxEnd
  <2>3. CASE configerror = <<>> /\ configerror' # <<>>
    BY <1>2, <2>1, <2>2, <2>3, SyntaxFindsTheFirst DEF FirstErrorInv
  <2>4. CASE configerror' = <<>>
    BY <2>1, <2>4 DEF FirstErrorInv, FirstErrorIsTheFirst
  <2>5. CASE configerror # <<>>
    <3>1. configerror' = configerror \/ \E e : configerror' = Append(configerror, e)
      BY <1>2 DEF SkipBlank, SyntaxOpen, SyntaxClose, SyntaxArg, SyntaxEnd, ErrorIf,
         cpw_parsecontext_add_config_error
    <3>2. ASSUME NEW e, configerror' = Append(configerror, e)
          PROVE  configerror'[1] = configerror[1]
      <4>1. Len(configerror) \in Nat \ {0}
        BY <2>2, <2>5
      <4> QED BY <2>2, <3>2, <4>1
    <3>3. configerror'[1] = configerror[1]
      BY <3>1, <3>2
    <3> QED BY <2>1, <2>2, <2>5, <3>3, FirstErrorStays DEF FirstErrorInv
  <2> QED BY <2>3, <2>4, <2>5
<1>3. CASE pc \in Logic /\ Next
  <2>1. file' = file /\ pc' # "syntax"
    BY <1>3 DEF Next, SkipBlank, SyntaxOpen, SyntaxClose, SyntaxArg, SyntaxEnd, SeekPast,
       OpenCommand, SetCommandValue, CloseCommand, CommandsEnd, OpenProcess,
       SetProcessValue, CloseProcess, ProcessesEnd, Logic
  <2> QED BY <1>3, <2>1, LogicFindsNoSyntaxError DEF FirstErrorInv
<1>4. CASE UNCHANGED vars
  BY <1>4 DEF vars, contextvars, FirstErrorInv, FirstErrorIsTheFirst
<1>5. Next => \/ pc = "syntax" /\ (SkipBlank \/ SyntaxOpen \/ SyntaxClose \/ SyntaxArg \/ SyntaxEnd)
              \/ pc \in Logic
  BY DEF Next, SkipBlank, SyntaxOpen, SyntaxClose, SyntaxArg, SyntaxEnd, SeekPast,
     OpenCommand, SetCommandValue, CloseCommand, CommandsEnd, OpenProcess,
     SetProcessValue, CloseProcess, ProcessesEnd, Logic
<1> QED BY <1>2, <1>3, <1>4, <1>5

(* FirstErrorIsTheFirst: the first error is reported at the first line     *)
(* that no later line could mend, or at the end of a file that only misses *)
(* a closing tag (config.c:193-239, 345-399).                              *)
THEOREM FirstErrorIsTrulyFirst == Spec => []FirstErrorIsTheFirst
<1>1. Init => FirstErrorInv
  BY DEF Init, FirstErrorInv, FirstErrorIsTheFirst
<1>2. ConfigInv /\ ConfigInv' /\ FirstErrorInv /\ [Next]_vars => FirstErrorInv'
  BY FirstErrorStep
<1>3. FirstErrorInv => FirstErrorIsTheFirst
  BY DEF FirstErrorInv
<1> QED BY <1>1, <1>2, <1>3, ConfigInvariance, PTL DEF Spec

-----------------------------------------------------------------------------
(* The lists are those the file means.  What the passes have made of the   *)
(* lines up to p: the blocks read, and what a block still open was given.  *)
CommandT == [name : Name, path : Name, args : Seq(Name)]
ProcessT == [name : Name, command : Nat, args : Seq(Name)]

BlocksTo(f, t, p) == {i \in BlockLines(f, t) : i <= p}
Given(f, o, k, p) == {j \in KeyLines(f, o, k) : j <= p}

(* At line p the reading is in the block that line o opened. *)
InBlock(f, o, t, p) ==
  /\ o \in 1..p /\ f[o].kind = "open" /\ f[o].tag = t
  /\ \A k \in o+1..p : ~IsTag(f, k)

NameTo(f, o, p) ==
  LastOf(f, Given(f, o, "name", p), IF f[o].name = NoToken THEN Empty ELSE f[o].name)
CommandTo(f, o, p) ==
  [name |-> NameTo(f, o, p),
   path |-> LastOf(f, Given(f, o, "path", p), Empty),
   args |-> Values(f, Given(f, o, "arg", p))]
ProcessTo(f, commands, o, p) ==
  [name    |-> NameTo(f, o, p),
   command |-> CommandOf(f, commands, Given(f, o, "Command", p)),
   args    |-> Values(f, Given(f, o, "arg", p))]

AreCommands(f, list, blocks) ==
  list = [n \in 1..Cardinality(blocks) |-> MeantCommand(f, Ordered(blocks)[n])]
AreProcesses(f, list, blocks) ==
  list = [n \in 1..Cardinality(blocks) |-> MeantProcess(f, Ordered(blocks)[n])]
HaveNames(f, list, blocks) ==
  {list[c].name : c \in DOMAIN list} = {BlockName(f, h) : h \in blocks}

UpTo(lines, p) == {i \in lines : i <= p}
CommandErrors(f, p) ==
  LogicErrorsOf(f, UpTo(Redefined(f), p), 1, "command already defined")
ProcessErrors(f, p) ==
  LogicErrorsOf(f, UpTo(Unresolved(f), p), 2, "not a valid command name")
Doubtful(f, p) ==
  LogicErrorsOf(f, UpTo(InProcess(f, "immediate"), p), 2, "not a valid command name")
ErrorsTo(f, errors, p) ==
  /\ CommandErrors(f, Len(f)) \cup ProcessErrors(f, p) \subseteq ToSet(errors)
  /\ ToSet(errors) \subseteq
       (CommandErrors(f, Len(f)) \cup ProcessErrors(f, p)) \cup Doubtful(f, p)

ListTypes ==
  /\ command \in CommandT /\ commandlist \in Seq(CommandT)
  /\ process \in ProcessT /\ processlist \in Seq(ProcessT)

SyntaxPass ==
  pc = "syntax" =>
    /\ commandlist = <<>> /\ processlist = <<>> /\ line_num = pos
    /\ configerror # <<>> => configerror[1].what \in SyntaxErrors

CommandPass ==
  /\ pc \in {"command", "in_command"} =>
       /\ processlist = <<>> /\ line_num = Len(file) + pos
       /\ ToSet(configerror) = CommandErrors(file, pos)
  /\ pc = "command" =>
       LET blocks == BlocksTo(file, "Command", pos)
       IN  AreCommands(file, commandlist, blocks) /\ HaveNames(file, commandlist, blocks)
  /\ pc = "in_command" =>
       /\ current_tag = "Command"
       /\ \E o \in 1..pos :
            /\ InBlock(file, o, "Command", pos) /\ command = CommandTo(file, o, pos)
            /\ AreCommands(file, commandlist, BlocksTo(file, "Command", o - 1))
            /\ HaveNames(file, commandlist, BlocksTo(file, "Command", o - 1))

ProcessPass ==
  /\ pc \in {"process", "in_process"} =>
       /\ AreCommands(file, commandlist, BlockLines(file, "Command"))
       /\ HaveNames(file, commandlist, BlockLines(file, "Command"))
       /\ line_num = 2 * Len(file) + pos
       /\ ErrorsTo(file, configerror, pos)
  /\ pc = "process" =>
       /\ AreProcesses(file, processlist, BlocksTo(file, "Process", pos))
       /\ ~\E o \in 1..pos : InBlock(file, o, "Process", pos)
  /\ pc = "in_process" =>
       /\ current_tag = "Process"
       /\ \E o \in 1..pos :
            /\ InBlock(file, o, "Process", pos)
            /\ process = ProcessTo(file, commandlist, o, pos)
            /\ AreProcesses(file, processlist, BlocksTo(file, "Process", o - 1))

Passed ==
  /\ pc = "valid" =>
       /\ AreCommands(file, commandlist, BlockLines(file, "Command"))
       /\ AreProcesses(file, processlist, BlockLines(file, "Process"))
  /\ pc = "valid" \/ (pc = "invalid" /\ WellFormed(file)) =>
       ErrorsTo(file, configerror, Len(file))

ListsInv == ListTypes /\ SyntaxPass /\ CommandPass /\ ProcessPass /\ Passed

-----------------------------------------------------------------------------
(* Lines in their order, as one more is read. *)
LEMMA MaxOfMore ==
  ASSUME NEW S \in SUBSET Nat, NEW m \in Nat, \A x \in S : x < m
  PROVE  Max(S \cup {m}) = m
<1> DEFINE T == S \cup {m}
<1>1. m \in T /\ T \subseteq Nat /\ \A y \in T : m >= y
  OBVIOUS
<1>2. Max(T) = CHOOSE x \in T : \A y \in T : x >= y
  BY DEF Max
<1> HIDE DEF T
<1>3. Max(T) \in T /\ \A y \in T : Max(T) >= y
  BY <1>1, <1>2
<1>4. Max(T) \in Nat /\ Max(T) >= m /\ m >= Max(T)
  BY <1>1, <1>3
<1>5. Max(T) = m
  BY <1>4
<1> QED BY <1>5 DEF T

LEMMA MinOfOne ==
  ASSUME NEW m \in Nat
  PROVE  Min({m}) = m
BY DEF Min

LEMMA OrderedGrows ==
  ASSUME NEW S \in SUBSET Nat, IsFiniteSet(S), NEW m \in Nat, \A x \in S : x < m
  PROVE  LET T == S \cup {m}
             c == Cardinality(S)
         IN  /\ c \in Nat /\ IsFiniteSet(T) /\ Cardinality(T) = c + 1
             /\ \A n \in 1..c : Ordered(T)[n] = Ordered(S)[n]
             /\ Ordered(T)[c + 1] = m
<1> DEFINE T == S \cup {m}
           c == Cardinality(S)
           rank(A, j) == {k \in A : k <= j}
<1>1. c \in Nat
  BY FS_CardinalityType
<1>2. m \notin S
  OBVIOUS
<1>3. IsFiniteSet(T) /\ Cardinality(T) = c + 1
  BY <1>2, FS_AddElement
<1>4. ASSUME NEW j \in S
      PROVE  rank(T, j) = rank(S, j) /\ Cardinality(rank(S, j)) \in 0..c
  <2>1. rank(T, j) = rank(S, j)
    OBVIOUS
  <2>2. rank(S, j) \subseteq S
    OBVIOUS
  <2> HIDE DEF rank
  <2>3. Cardinality(rank(S, j)) \in Nat /\ Cardinality(rank(S, j)) <= c
    BY <2>2, FS_Subset, FS_CardinalityType
  <2> QED BY <1>1, <2>1, <2>3
<1>5. rank(T, m) = T
  <2>1. \A k \in T : k <= m
    OBVIOUS
  <2> HIDE DEF T
  <2> QED BY <2>1
<1>6. ASSUME NEW n \in 1..c + 1
      PROVE  Ordered(T)[n] = Min({j \in T : Cardinality(rank(T, j)) = n})
  BY <1>3, <1>6 DEF Ordered
<1>7. ASSUME NEW n \in 1..c
      PROVE  Ordered(T)[n] = Ordered(S)[n]
  <2>1. n # c + 1 /\ n \in 1..c + 1
    BY <1>1
  <2>2. Ordered(S)[n] = Min({j \in S : Cardinality(rank(S, j)) = n})
    BY DEF Ordered
  <2>3. Cardinality(rank(T, m)) # n
    BY <1>3, <1>5, <2>1
  <2> HIDE DEF rank
  <2>4. {j \in T : Cardinality(rank(T, j)) = n} = {j \in S : Cardinality(rank(S, j)) = n}
    BY <1>4, <2>3
  <2> HIDE DEF T
  <2> QED BY <1>6, <2>1, <2>2, <2>4
<1>8. Ordered(T)[c + 1] = m
  <2>1. c + 1 \in 1..c + 1
    BY <1>1
  <2>2. Cardinality(rank(T, m)) = c + 1
    BY <1>3, <1>5
  <2>3. \A j \in S : Cardinality(rank(T, j)) # c + 1
    BY <1>1, <1>4
  <2> HIDE DEF rank, c
  <2>4. {j \in T : Cardinality(rank(T, j)) = c + 1} = {m}
    BY <2>2, <2>3
  <2> HIDE DEF T
  <2> QED BY <1>6, <2>1, <2>4, MinOfOne
<1> QED BY <1>1, <1>3, <1>7, <1>8

LEMMA AppendIs ==
  ASSUME NEW V, NEW s \in Seq(V), NEW v \in V
  PROVE  Append(s, v) = [n \in 1..Len(s) + 1 |-> IF n = Len(s) + 1 THEN v ELSE s[n]]
<1> DEFINE a == Append(s, v)
           N == Len(s) + 1
           b == [n \in 1..N |-> IF n = N THEN v ELSE s[n]]
<1>1. a \in Seq(V) /\ Len(a) = N /\ N \in Nat
  OBVIOUS
<1>2. \A n \in 1..N : a[n] = IF n = N THEN v ELSE s[n]
  OBVIOUS
<1>3. \A n \in 1..N : (IF n = N THEN v ELSE s[n]) \in V
  OBVIOUS
<1> HIDE DEF a, N
<1>4. b \in Seq(V) /\ Len(b) = N /\ \A n \in 1..N : b[n] = IF n = N THEN v ELSE s[n]
  BY <1>1, <1>3
<1> HIDE DEF b
<1>5. a = b
  BY <1>1, <1>2, <1>4, SeqEqual
<1> QED BY <1>5 DEF a, b, N

LEMMA ValuesGrow ==
  ASSUME NEW f, NEW V, NEW S \in SUBSET Nat, IsFiniteSet(S), NEW m \in Nat, \A x \in S : x < m,
         Values(f, S) \in Seq(V), f[m].value \in V
  PROVE  Values(f, S \cup {m}) = Append(Values(f, S), f[m].value)
<1> DEFINE T == S \cup {m}
           c == Cardinality(S)
           s == Values(f, S)
           v == f[m].value
<1>1. /\ c \in Nat /\ Cardinality(T) = c + 1
      /\ \A n \in 1..c : Ordered(T)[n] = Ordered(S)[n]
      /\ Ordered(T)[c + 1] = m
  BY OrderedGrows
<1> HIDE DEF T, c
<1>2. Values(f, T) = [n \in 1..c + 1 |-> f[Ordered(T)[n]].value]
  BY <1>1 DEF Values
<1>3. s = [n \in 1..c |-> f[Ordered(S)[n]].value]
  BY DEF Values, c
<1>4. DOMAIN s = 1..c
  BY <1>3
<1>a. \A n \in 1..c : s[n] = f[Ordered(S)[n]].value
  BY <1>3
<1> HIDE DEF s, v
<1>b. Len(s) = c
  BY <1>1, <1>4 DEF s
<1>5. Append(s, v) = [n \in 1..c + 1 |-> IF n = c + 1 THEN v ELSE s[n]]
  <2>1. s \in Seq(V) /\ v \in V
    BY DEF s, v
  <2>2. Append(s, v) = [n \in 1..Len(s) + 1 |-> IF n = Len(s) + 1 THEN v ELSE s[n]]
    BY <2>1, AppendIs
  <2> QED BY <1>b, <2>2
<1>6. ASSUME NEW n \in 1..c + 1
      PROVE  f[Ordered(T)[n]].value = IF n = c + 1 THEN v ELSE s[n]
  <2>1. CASE n = c + 1
    BY <1>1, <2>1 DEF v
  <2>2. CASE n # c + 1
    <3>1. n \in 1..c
      BY <1>1, <2>2
    <3> QED BY <1>1, <1>a, <2>2, <3>1
  <2> QED BY <2>1, <2>2
<1> QED BY <1>2, <1>5, <1>6 DEF s, v, T

LEMMA LastOfGrows ==
  ASSUME NEW f, NEW S \in SUBSET Nat, NEW m \in Nat, \A x \in S : x < m, NEW d
  PROVE  LastOf(f, S \cup {m}, d) = f[m].value
BY MaxOfMore DEF LastOf

LEMMA NothingRead ==
  /\ \A f, d : LastOf(f, {}, d) = d
  /\ \A f : Values(f, {}) = <<>>
  /\ IsFiniteSet({}) /\ Cardinality({}) = 0
<1>1. IsFiniteSet({}) /\ Cardinality({}) = 0
  BY FS_EmptySet
<1>2. ASSUME NEW f PROVE Values(f, {}) = <<>>
  <2>1. Values(f, {}) = [n \in 1..0 |-> f[Ordered({})[n]].value]
    BY <1>1 DEF Values
  <2>2. 1..0 = {}
    OBVIOUS
  <2> QED BY <2>1, <2>2
<1>3. \A f, d : LastOf(f, {}, d) = d
  BY DEF LastOf
<1> QED BY <1>1, <1>2, <1>3

LEMMA SequenceGrows ==
  ASSUME NEW V, NEW s \in Seq(V), NEW v \in V, NEW t \in Seq(V), Len(t) = Len(s) + 1,
         \A n \in 1..Len(s) : t[n] = s[n], t[Len(s) + 1] = v
  PROVE  Append(s, v) = t
<1>1. Append(s, v) \in Seq(V) /\ Len(Append(s, v)) = Len(s) + 1 /\ Len(s) \in Nat
  OBVIOUS
<1>2. ASSUME NEW n \in 1..Len(s) + 1 PROVE Append(s, v)[n] = t[n]
  <2>1. n = Len(s) + 1 \/ n \in 1..Len(s)
    BY <1>1
  <2> QED BY <1>1, <2>1
<1>3. DOMAIN Append(s, v) = 1..Len(s) + 1 /\ DOMAIN t = 1..Len(s) + 1
  BY <1>1
<1> QED BY <1>1, <1>2, <1>3, SeqEqual

-----------------------------------------------------------------------------
(* The lines a block is given its values in, as one more line is read. *)
LEMMA LinesAre ==
  ASSUME NEW f \in Seq(Line), NEW p \in 0..Len(f)
  PROVE  /\ \A t : /\ BlocksTo(f, t, p) \in SUBSET Nat /\ IsFiniteSet(BlocksTo(f, t, p))
                   /\ \A x \in BlocksTo(f, t, p) : x < p + 1
         /\ \A o, k : /\ Given(f, o, k, p) \in SUBSET Nat /\ IsFiniteSet(Given(f, o, k, p))
                      /\ \A x \in Given(f, o, k, p) : x < p + 1
<1>1. p \in Nat /\ DOMAIN f = 1..Len(f) /\ IsFiniteSet(1..p)
  BY FS_Interval
<1>2. ASSUME NEW S, S \subseteq 1..p
      PROVE  S \in SUBSET Nat /\ IsFiniteSet(S) /\ \A x \in S : x < p + 1
  <2>1. IsFiniteSet(S)
    BY <1>1, <1>2, FS_Subset
  <2>2. \A x \in S : x \in Nat /\ x < p + 1
    BY <1>1, <1>2
  <2> QED BY <2>1, <2>2
<1>3. ASSUME NEW t PROVE BlocksTo(f, t, p) \subseteq 1..p
  BY <1>1 DEF BlocksTo, BlockLines
<1>4. ASSUME NEW o, NEW k PROVE Given(f, o, k, p) \subseteq 1..p
  BY <1>1 DEF Given, KeyLines
<1> QED BY <1>2, <1>3, <1>4

(* Only the tag that opened the block has the next line right after it. *)
LEMMA OneBlock ==
  ASSUME NEW f \in Seq(Line), NEW p \in 0..Len(f) - 1, NEW o, NEW t, InBlock(f, o, t, p)
  PROVE  /\ Follows(f, o, p + 1)
         /\ \A i \in DOMAIN f : f[i].kind = "open" /\ Follows(f, i, p + 1) => i = o
<1>1. p \in Nat /\ DOMAIN f = 1..Len(f) /\ o \in 1..p /\ IsTag(f, o)
  BY DEF InBlock, IsTag
<1>2. Follows(f, o, p + 1)
  BY <1>1 DEF InBlock, Follows
<1>3. ASSUME NEW i \in DOMAIN f, f[i].kind = "open", Follows(f, i, p + 1) PROVE i = o
  <2>1. i \in 1..p /\ IsTag(f, i)
    BY <1>1, <1>3 DEF Follows, IsTag
  <2>2. ~(i < o)
    BY <1>1, <1>3, <2>1 DEF Follows
  <2>3. ~(o < i)
    BY <1>1, <2>1 DEF InBlock
  <2> QED BY <1>1, <2>1, <2>2, <2>3
<1> QED BY <1>2, <1>3

LEMMA GivenMore ==
  ASSUME NEW f \in Seq(Line), NEW p \in 0..Len(f) - 1, NEW o, NEW t, InBlock(f, o, t, p)
  PROVE  /\ ~IsTag(f, p + 1) => InBlock(f, o, t, p + 1)
         /\ \A k :
              /\ f[p + 1].kind = "arg" /\ f[p + 1].key = k =>
                   Given(f, o, k, p + 1) = Given(f, o, k, p) \cup {p + 1}
              /\ ~(f[p + 1].kind = "arg" /\ f[p + 1].key = k) =>
                   Given(f, o, k, p + 1) = Given(f, o, k, p)
              /\ IsTag(f, p + 1) => Given(f, o, k, p) = KeyLines(f, o, k)
<1>a. ~IsTag(f, p + 1) => InBlock(f, o, t, p + 1)
  <2>1. p \in Nat /\ o \in 1..p
    BY DEF InBlock
  <2> QED BY <2>1 DEF InBlock
<1> SUFFICES
      ASSUME NEW k
      PROVE  /\ f[p + 1].kind = "arg" /\ f[p + 1].key = k =>
                  Given(f, o, k, p + 1) = Given(f, o, k, p) \cup {p + 1}
             /\ ~(f[p + 1].kind = "arg" /\ f[p + 1].key = k) =>
                  Given(f, o, k, p + 1) = Given(f, o, k, p)
             /\ IsTag(f, p + 1) => Given(f, o, k, p) = KeyLines(f, o, k)
  BY <1>a
<1>1. p \in Nat /\ DOMAIN f = 1..Len(f) /\ o \in 1..p /\ p + 1 \in DOMAIN f
  BY DEF InBlock
<1>2. Follows(f, o, p + 1)
  BY OneBlock
<1>3. \A j \in DOMAIN f : j <= p + 1 <=> j <= p \/ j = p + 1
  BY <1>1
<1>4. p + 1 \in KeyLines(f, o, k) <=> f[p + 1].kind = "arg" /\ f[p + 1].key = k
  BY <1>1, <1>2 DEF KeyLines
<1>5. KeyLines(f, o, k) \subseteq DOMAIN f
  BY DEF KeyLines
<1>6. ASSUME IsTag(f, p + 1), NEW j \in KeyLines(f, o, k) PROVE j <= p
  <2>1. j \in DOMAIN f /\ Follows(f, o, j) /\ f[j].kind = "arg"
    BY DEF KeyLines
  <2>2. ~(j > p + 1)
    BY <1>1, <1>6, <2>1 DEF Follows
  <2>3. j # p + 1
    BY <1>6, <2>1 DEF IsTag
  <2> QED BY <1>1, <2>1, <2>2, <2>3
<1>8. IsTag(f, p + 1) => Given(f, o, k, p) = KeyLines(f, o, k)
  BY <1>6 DEF Given
<1>9. /\ p + 1 \in KeyLines(f, o, k) =>
           Given(f, o, k, p + 1) = Given(f, o, k, p) \cup {p + 1}
      /\ p + 1 \notin KeyLines(f, o, k) => Given(f, o, k, p + 1) = Given(f, o, k, p)
  BY <1>1, <1>3, <1>5 DEF Given
<1> QED BY <1>4, <1>8, <1>9

LEMMA GivenNone ==
  ASSUME NEW f \in Seq(Line), NEW o \in DOMAIN f, NEW k
  PROVE  Given(f, o, k, o) = {}
<1>1. DOMAIN f \subseteq Nat
  OBVIOUS
<1> QED BY <1>1 DEF Given, KeyLines, Follows

LEMMA BlocksMore ==
  ASSUME NEW f \in Seq(Line), NEW p \in 0..Len(f) - 1, NEW t
  PROVE  /\ f[p + 1].kind = "open" /\ f[p + 1].tag = t =>
              BlocksTo(f, t, p + 1) = BlocksTo(f, t, p) \cup {p + 1}
         /\ ~(f[p + 1].kind = "open" /\ f[p + 1].tag = t) =>
              BlocksTo(f, t, p + 1) = BlocksTo(f, t, p)
<1>1. p \in Nat /\ DOMAIN f = 1..Len(f) /\ p + 1 \in DOMAIN f
  OBVIOUS
<1>2. \A j \in DOMAIN f : j <= p + 1 <=> j <= p \/ j = p + 1
  BY <1>1
<1>3. p + 1 \in BlockLines(f, t) <=> f[p + 1].kind = "open" /\ f[p + 1].tag = t
  BY <1>1 DEF BlockLines
<1>4. BlockLines(f, t) \subseteq DOMAIN f
  BY DEF BlockLines
<1> QED BY <1>1, <1>2, <1>3, <1>4 DEF BlocksTo

LEMMA BlockRead ==
  ASSUME NEW f \in Seq(Line), NEW p \in 0..Len(f) - 1, NEW o \in 1..p, NEW t,
         InBlock(f, o, t, p),
         f[p + 1].kind = "close"
  PROVE  /\ o \in BlockLines(f, t) /\ o - 1 \in 0..Len(f)
         /\ BlocksTo(f, t, p + 1) = BlocksTo(f, t, o - 1) \cup {o}
<1>1. p \in Nat /\ DOMAIN f = 1..Len(f) /\ o \in 1..p
  BY DEF InBlock
<1>2. o \in BlockLines(f, t) /\ o - 1 \in 0..Len(f)
  BY <1>1 DEF InBlock, BlockLines
<1>3. ASSUME NEW j \in BlockLines(f, t) PROVE j <= p + 1 <=> j <= o - 1 \/ j = o
  <2>1. j \in DOMAIN f /\ f[j].kind = "open" /\ IsTag(f, j)
    BY DEF BlockLines, IsTag
  <2>2. j \notin o+1..p /\ j # p + 1
    BY <2>1 DEF InBlock
  <2> QED BY <1>1, <2>1, <2>2
<1> QED BY <1>2, <1>3 DEF BlocksTo

LEMMA BlocksNoneAll ==
  ASSUME NEW f \in Seq(Line), NEW t
  PROVE  BlocksTo(f, t, 0) = {} /\ BlocksTo(f, t, Len(f)) = BlockLines(f, t)
<1>1. Len(f) \in Nat /\ DOMAIN f = 1..Len(f)
  OBVIOUS
<1> QED BY <1>1 DEF BlocksTo, BlockLines

-----------------------------------------------------------------------------
(* The lists, as one more block is read. *)
LEMMA CommandsMore ==
  ASSUME NEW f, NEW list \in Seq(CommandT), NEW blocks \in SUBSET Nat, IsFiniteSet(blocks),
         NEW o \in Nat, \A x \in blocks : x < o, MeantCommand(f, o) \in CommandT,
         AreCommands(f, list, blocks), HaveNames(f, list, blocks)
  PROVE  /\ AreCommands(f, Append(list, MeantCommand(f, o)), blocks \cup {o})
         /\ HaveNames(f, Append(list, MeantCommand(f, o)), blocks \cup {o})
<1> DEFINE T == blocks \cup {o}
           c == Cardinality(blocks)
           v == MeantCommand(f, o)
           h == [n \in 1..c + 1 |-> MeantCommand(f, Ordered(T)[n])]
           more == Append(list, v)
<1>1. /\ c \in Nat /\ Cardinality(T) = c + 1
      /\ \A n \in 1..c : Ordered(T)[n] = Ordered(blocks)[n]
      /\ Ordered(T)[c + 1] = o
  BY OrderedGrows
<1> HIDE DEF T, c
<1>2. DOMAIN list = 1..c /\ \A n \in 1..c : list[n] = MeantCommand(f, Ordered(blocks)[n])
  BY DEF AreCommands, c
<1>3. h = [n \in 1..c + 1 |-> h[n]]
  OBVIOUS
<1>a. \A n \in 1..c + 1 : h[n] = MeantCommand(f, Ordered(T)[n])
  OBVIOUS
<1>4. c + 1 \in 1..c + 1 /\ \A n \in 1..c : n \in 1..c + 1
  BY <1>1
<1> HIDE DEF h, v
<1>5. h[c + 1] = v
  BY <1>1, <1>a, <1>4 DEF v
<1>6. \A n \in 1..c : list[n] = h[n]
  BY <1>1, <1>2, <1>a, <1>4
<1>7. v \in CommandT
  BY DEF v
<1>b. Len(list) = c /\ \A n \in 1..c : list[n] \in CommandT
  BY <1>1, <1>2
<1>c. h \in Seq(CommandT) /\ Len(h) = c + 1
  <2>1. ASSUME NEW n \in 1..c + 1 PROVE h[n] \in CommandT
    <3>1. n = c + 1 \/ n \in 1..c
      BY <1>1
    <3> QED BY <1>b, <1>5, <1>6, <1>7, <3>1
  <2> QED BY <1>1, <1>3, <2>1, SMTT(60)
<1>8. more = h
  BY <1>b, <1>c, <1>5, <1>6, <1>7, SequenceGrows
<1>9. AreCommands(f, more, T)
  BY <1>1, <1>8 DEF AreCommands, h
<1>10. HaveNames(f, more, T)
  <2>1. DOMAIN more = DOMAIN list \cup {c + 1}
    <3>1. DOMAIN more = 1..c + 1
      BY <1>3, <1>8
    <3>2. 1..c + 1 = 1..c \cup {c + 1}
      BY <1>1
    <3> QED BY <1>2, <3>1, <3>2
  <2>2. \A n \in DOMAIN list : more[n] = list[n]
    BY <1>2, <1>6, <1>8
  <2>3. more[c + 1] = v
    BY <1>5, <1>8
  <2> HIDE DEF more
  <2>4. {more[n].name : n \in DOMAIN more} = {list[n].name : n \in DOMAIN list} \cup {v.name}
    BY <2>1, <2>2, <2>3
  <2>5. v.name = BlockName(f, o)
    BY DEF v, MeantCommand
  <2>6. {BlockName(f, i) : i \in T} = {BlockName(f, i) : i \in blocks} \cup {BlockName(f, o)}
    BY DEF T
  <2> QED BY <2>4, <2>5, <2>6 DEF HaveNames
<1> QED BY <1>9, <1>10 DEF v, T

LEMMA ProcessesMore ==
  ASSUME NEW f, NEW list \in Seq(ProcessT), NEW blocks \in SUBSET Nat, IsFiniteSet(blocks),
         NEW o \in Nat, \A x \in blocks : x < o, MeantProcess(f, o) \in ProcessT,
         AreProcesses(f, list, blocks)
  PROVE  AreProcesses(f, Append(list, MeantProcess(f, o)), blocks \cup {o})
<1> DEFINE T == blocks \cup {o}
           c == Cardinality(blocks)
           v == MeantProcess(f, o)
           h == [n \in 1..c + 1 |-> MeantProcess(f, Ordered(T)[n])]
<1>1. /\ c \in Nat /\ Cardinality(T) = c + 1
      /\ \A n \in 1..c : Ordered(T)[n] = Ordered(blocks)[n]
      /\ Ordered(T)[c + 1] = o
  BY OrderedGrows
<1> HIDE DEF T, c
<1>2. DOMAIN list = 1..c /\ \A n \in 1..c : list[n] = MeantProcess(f, Ordered(blocks)[n])
  BY DEF AreProcesses, c
<1>3. h = [n \in 1..c + 1 |-> h[n]]
  OBVIOUS
<1>a. \A n \in 1..c + 1 : h[n] = MeantProcess(f, Ordered(T)[n])
  OBVIOUS
<1>4. c + 1 \in 1..c + 1 /\ \A n \in 1..c : n \in 1..c + 1
  BY <1>1
<1> HIDE DEF h, v
<1>5. h[c + 1] = v
  BY <1>1, <1>a, <1>4 DEF v
<1>6. \A n \in 1..c : list[n] = h[n]
  BY <1>1, <1>2, <1>a, <1>4
<1>7. v \in ProcessT
  BY DEF v
<1>b. Len(list) = c /\ \A n \in 1..c : list[n] \in ProcessT
  BY <1>1, <1>2
<1>c. h \in Seq(ProcessT) /\ Len(h) = c + 1
  <2>1. ASSUME NEW n \in 1..c + 1 PROVE h[n] \in ProcessT
    <3>1. n = c + 1 \/ n \in 1..c
      BY <1>1
    <3> QED BY <1>b, <1>5, <1>6, <1>7, <3>1
  <2> QED BY <1>1, <1>3, <2>1, SMTT(60)
<1>8. Append(list, v) = h
  BY <1>b, <1>c, <1>5, <1>6, <1>7, SequenceGrows
<1>9. AreProcesses(f, Append(list, v), T)
  BY <1>1, <1>8 DEF AreProcesses, h
<1> QED BY <1>9 DEF v, T

LEMMA NoneYet ==
  /\ \A f : AreCommands(f, <<>>, {}) /\ HaveNames(f, <<>>, {}) /\ AreProcesses(f, <<>>, {})
  /\ \A f, commands : CommandOf(f, commands, {}) = 0
<1>1. IsFiniteSet({}) /\ Cardinality({}) = 0 /\ 1..0 = {}
  BY NothingRead
<1>2. ASSUME NEW f PROVE AreCommands(f, <<>>, {})
  <2>1. [n \in 1..0 |-> MeantCommand(f, Ordered({})[n])] = <<>>
    BY <1>1
  <2> QED BY <1>1, <2>1 DEF AreCommands
<1>3. ASSUME NEW f PROVE AreProcesses(f, <<>>, {})
  <2>1. [n \in 1..0 |-> MeantProcess(f, Ordered({})[n])] = <<>>
    BY <1>1
  <2> QED BY <1>1, <2>1 DEF AreProcesses
<1>4. ASSUME NEW f PROVE HaveNames(f, <<>>, {})
  <2>1. DOMAIN <<>> = {}
    OBVIOUS
  <2> QED BY <2>1 DEF HaveNames
<1>5. \A f, commands : CommandOf(f, commands, {}) = 0
  BY DEF CommandOf
<1> QED BY <1>2, <1>3, <1>4, <1>5

(* The last command line that names a command decides. *)
LEMMA CommandOfMore ==
  ASSUME NEW f, NEW commands, NEW S \in SUBSET Nat, NEW m \in Nat, \A x \in S : x < m
  PROVE  CommandOf(f, commands, S \cup {m}) =
           IF Named(commands, f[m].value) = {} THEN CommandOf(f, commands, S)
           ELSE Max(Named(commands, f[m].value))
<1> DEFINE known(lines) == {j \in lines : Named(commands, f[j].value) # {}}
<1>1. CASE Named(commands, f[m].value) = {}
  <2>1. known(S \cup {m}) = known(S)
    BY <1>1
  <2> QED BY <1>1, <2>1 DEF CommandOf
<1>2. CASE Named(commands, f[m].value) # {}
  <2>1. known(S \cup {m}) = known(S) \cup {m}
    BY <1>2
  <2>2. known(S) \in SUBSET Nat /\ \A x \in known(S) : x < m
    OBVIOUS
  <2> HIDE DEF known
  <2>3. Max(known(S \cup {m})) = m
    BY <2>1, <2>2, MaxOfMore
  <2>4. known(S \cup {m}) # {}
    BY <2>1
  <2>5. CommandOf(f, commands, S \cup {m}) = Max(Named(commands, f[Max(known(S \cup {m}))].value))
    BY <2>4 DEF CommandOf, known
  <2> QED BY <1>2, <2>3, <2>5
<1> QED BY <1>1, <1>2

(* A bounded set of numbers has a largest, since one of the differences to *)
(* the bound is the least.                                                 *)
LEMMA MaxIsOne ==
  ASSUME NEW S \in SUBSET Nat, NEW b \in Nat, \A x \in S : x <= b, S # {}
  PROVE  Max(S) \in S
<1> DEFINE R == OpToRel(<, Nat)
           T == {n \in Nat : b - n \in S}
<1>1. IsWellFoundedOn(R, Nat)
  BY NatLessThanWellFounded
<1>2. \A x, y \in Nat : <<x, y>> \in R <=> x < y
  BY DEF OpToRel
<1>3. T \subseteq Nat /\ T # {}
  <2>1. PICK x \in S : x <= b
    OBVIOUS
  <2>2. b - x \in Nat /\ b - (b - x) = x
    BY <2>1
  <2> QED BY <2>1, <2>2
<1>4. \A x \in S : x \in Nat /\ b - x \in T
  <2> SUFFICES ASSUME NEW x \in S PROVE x \in Nat /\ b - x \in Nat /\ b - (b - x) = x
    OBVIOUS
  <2>1. x \in Nat /\ x <= b
    OBVIOUS
  <2> QED BY <2>1
<1>5. \A n \in T : n \in Nat /\ b - n \in S
  OBVIOUS
<1> HIDE DEF R, T
<1>6. PICK n \in T : \A y \in T : ~(<<y, n>> \in R)
  BY <1>1, <1>3, WFMin
<1>7. \A x \in S : b - n >= x
  <2> SUFFICES ASSUME NEW x \in S PROVE b - n >= x
    OBVIOUS
  <2>1. x \in Nat /\ b - x \in T /\ b - x \in Nat /\ n \in Nat
    BY <1>4, <1>5
  <2>2. ~(b - x < n)
    BY <1>2, <1>6, <2>1
  <2> QED BY <2>1, <2>2
<1>8. \E x \in S : \A y \in S : x >= y
  BY <1>5, <1>7
<1> QED BY <1>8 DEF Max

LEMMA CommandOfIs ==
  ASSUME NEW f, NEW list \in Seq(CommandT), NEW S \in SUBSET Nat, NEW b \in Nat,
         \A x \in S : x <= b
  PROVE  /\ \A v : Named(list, v) # {} => Max(Named(list, v)) \in Nat \ {0}
         /\ CommandOf(f, list, S) \in Nat
         /\ CommandOf(f, list, S) = 0 <=> \A j \in S : Named(list, f[j].value) = {}
<1> DEFINE known == {j \in S : Named(list, f[j].value) # {}}
<1>1. DOMAIN list = 1..Len(list) /\ Len(list) \in Nat
  OBVIOUS
<1>2. ASSUME NEW v, Named(list, v) # {} PROVE Max(Named(list, v)) \in Nat \ {0}
  <2> DEFINE N == Named(list, v)
  <2>1. N \subseteq 1..Len(list)
    BY <1>1 DEF Named
  <2>2. N # {}
    BY <1>2
  <2> HIDE DEF N
  <2>3. N \in SUBSET Nat /\ \A x \in N : x <= Len(list)
    BY <1>1, <2>1
  <2>4. Max(N) \in N
    BY <1>1, <2>2, <2>3, MaxIsOne
  <2> QED BY <1>1, <2>1, <2>4 DEF N
<1>3. CASE known = {}
  <2>1. CommandOf(f, list, S) = 0
    BY <1>3 DEF CommandOf
  <2>2. \A j \in S : Named(list, f[j].value) = {}
    BY <1>3
  <2>3. CommandOf(f, list, S) \in Nat
    BY <2>1
  <2>4. CommandOf(f, list, S) = 0 <=> \A j \in S : Named(list, f[j].value) = {}
    BY <2>1, <2>2
  <2> HIDE DEF known
  <2> QED BY <1>2, <2>3, <2>4
<1>4. CASE known # {}
  <2>1. known \in SUBSET Nat /\ \A x \in known : x <= b
    OBVIOUS
  <2>2. CommandOf(f, list, S) = Max(Named(list, f[Max(known)].value))
    BY <1>4 DEF CommandOf
  <2>3. \A j \in known : j \in S /\ Named(list, f[j].value) # {}
    OBVIOUS
  <2> HIDE DEF known
  <2>4. Max(known) \in known
    BY <1>4, <2>1, MaxIsOne
  <2>5. Max(known) \in S /\ Named(list, f[Max(known)].value) # {}
    BY <2>3, <2>4
  <2>6. CommandOf(f, list, S) \in Nat \ {0}
    BY <1>2, <2>2, <2>5
  <2>7. CommandOf(f, list, S) = 0 <=> \A j \in S : Named(list, f[j].value) = {}
    BY <2>5, <2>6
  <2> QED BY <1>2, <2>6, <2>7
<1> QED BY <1>3, <1>4

-----------------------------------------------------------------------------
(* The errors, as one more line is read. *)
LEMMA ErrorLines ==
  ASSUME NEW f
  PROVE  /\ Redefined(f) \subseteq DOMAIN f /\ Unresolved(f) \subseteq DOMAIN f
         /\ \A k : InProcess(f, k) \subseteq DOMAIN f
BY DEF Redefined, Unresolved, InProcess, BlockLines, KeyLines

LEMMA UpToMore ==
  ASSUME NEW f \in Seq(Line), NEW p \in 0..Len(f) - 1, NEW R, R \subseteq DOMAIN f
  PROVE  /\ p + 1 \in R => UpTo(R, p + 1) = UpTo(R, p) \cup {p + 1}
         /\ p + 1 \notin R => UpTo(R, p + 1) = UpTo(R, p)
<1>1. \A i \in DOMAIN f : i <= p + 1 <=> i <= p \/ i = p + 1
  OBVIOUS
<1> QED BY <1>1 DEF UpTo

LEMMA UpToNoneAll ==
  ASSUME NEW f \in Seq(Line), NEW R, R \subseteq DOMAIN f
  PROVE  UpTo(R, 0) = {} /\ UpTo(R, Len(f)) = R
<1>1. Len(f) \in Nat /\ DOMAIN f = 1..Len(f)
  OBVIOUS
<1> QED BY <1>1 DEF UpTo

(* A tag is told when its name is one that a command has by then. *)
LEMMA RedefinedIs ==
  ASSUME NEW f \in Seq(Line), NEW p \in 0..Len(f) - 1, NEW list \in Seq(CommandT),
         HaveNames(f, list, BlocksTo(f, "Command", p))
  PROVE  p + 1 \in Redefined(f) <=>
           /\ f[p + 1].kind = "open" /\ f[p + 1].tag = "Command" /\ f[p + 1].name # NoToken
           /\ \E c \in DOMAIN list : list[c].name = f[p + 1].name
<1> DEFINE B == BlockLines(f, "Command")
           N == {list[c].name : c \in DOMAIN list}
<1>1. p \in Nat /\ DOMAIN f = 1..Len(f) /\ p + 1 \in DOMAIN f
  OBVIOUS
<1>2. p + 1 \in B <=> f[p + 1].kind = "open" /\ f[p + 1].tag = "Command"
  BY <1>1 DEF BlockLines
<1>3. B \subseteq DOMAIN f
  BY DEF BlockLines
<1>4. p + 1 \in Redefined(f) <=>
        p + 1 \in B /\ \E h \in B : h < p + 1 /\ BlockName(f, h) = f[p + 1].name
  BY DEF Redefined
<1> HIDE DEF B
<1>5. BlocksTo(f, "Command", p) = {h \in B : h < p + 1}
  BY <1>1, <1>3 DEF BlocksTo, B
<1>6. N = {BlockName(f, h) : h \in {i \in B : i < p + 1}}
  BY <1>5 DEF HaveNames
<1>7. (\E h \in B : h < p + 1 /\ BlockName(f, h) = f[p + 1].name) <=> f[p + 1].name \in N
  BY <1>6
<1>8. NoToken \notin N
  <2>1. \A c \in DOMAIN list : list[c].name \in Name
    <3>1. \A c \in DOMAIN list : list[c] \in CommandT
      OBVIOUS
    <3> QED BY <3>1 DEF CommandT
  <2> QED BY <2>1, ConfigAssumption
<1> QED BY <1>2, <1>4, <1>7, <1>8

LEMMA NotInProcess ==
  ASSUME NEW f \in Seq(Line), NEW p \in 0..Len(f) - 1,
         f[p + 1].kind = "arg" => ~\E o \in 1..p : InBlock(f, o, "Process", p)
  PROVE  p + 1 \notin Unresolved(f) /\ \A k : p + 1 \notin InProcess(f, k)
<1>1. p \in Nat /\ DOMAIN f = 1..Len(f)
  OBVIOUS
<1>2. ASSUME NEW k, NEW i \in BlockLines(f, "Process"), p + 1 \in KeyLines(f, i, k)
      PROVE  FALSE
  <2>1. i \in DOMAIN f /\ f[i].kind = "open" /\ f[i].tag = "Process"
    BY DEF BlockLines
  <2>2. f[p + 1].kind = "arg" /\ Follows(f, i, p + 1)
    BY <1>2 DEF KeyLines
  <2>3. i \in 1..p /\ InBlock(f, i, "Process", p)
    BY <1>1, <2>1, <2>2 DEF Follows, InBlock
  <2> QED BY <2>2, <2>3
<1>3. \A k : p + 1 \notin InProcess(f, k)
  BY <1>2 DEF InProcess
<1> QED BY <1>3 DEF Unresolved

LEMMA InProcessIs ==
  ASSUME NEW f \in Seq(Line), NEW p \in 0..Len(f) - 1, NEW o, InBlock(f, o, "Process", p),
         f[p + 1].kind = "arg", NEW k
  PROVE  p + 1 \in InProcess(f, k) <=> f[p + 1].key = k
<1>1. p + 1 \in DOMAIN f /\ Follows(f, o, p + 1)
  BY OneBlock
<1>2. o \in BlockLines(f, "Process")
  BY DEF InBlock, BlockLines
<1>3. \A i : p + 1 \in KeyLines(f, i, k) => f[p + 1].key = k
  BY DEF KeyLines
<1>4. f[p + 1].key = k => p + 1 \in KeyLines(f, o, k)
  BY <1>1 DEF KeyLines
<1> QED BY <1>2, <1>3, <1>4 DEF InProcess

(* A Command line is told when the process has no command after it. *)
LEMMA UnresolvedIs ==
  ASSUME NEW f \in Seq(Line), NEW p \in 0..Len(f) - 1, NEW o, InBlock(f, o, "Process", p),
         f[p + 1].kind = "arg", f[p + 1].key = "Command",
         NEW list \in Seq(CommandT), HaveNames(f, list, BlockLines(f, "Command"))
  PROVE  p + 1 \in Unresolved(f) <=> CommandOf(f, list, Given(f, o, "Command", p + 1)) = 0
<1> DEFINE G == Given(f, o, "Command", p + 1)
           B == BlockLines(f, "Command")
<1>1. /\ p \in Nat /\ DOMAIN f = 1..Len(f) /\ p + 1 \in 0..Len(f)
      /\ o \in BlockLines(f, "Process")
  BY DEF InBlock, BlockLines
<1>2. G \in SUBSET Nat /\ \A x \in G : x <= p + 1
  <2>1. G \in SUBSET Nat
    BY <1>1, LinesAre
  <2> QED BY <2>1 DEF Given
<1>a. p + 1 \in Nat
  BY <1>1
<1>3. CommandOf(f, list, G) = 0 <=> \A j \in G : Named(list, f[j].value) = {}
  <2> HIDE DEF G
  <2> QED BY <1>a, <1>2, CommandOfIs
<1>4. \A v : Named(list, v) = {} <=> v \notin {list[c].name : c \in DOMAIN list}
  BY DEF Named
<1>5. \A v : v \notin {list[c].name : c \in DOMAIN list} <=> \A h \in B : BlockName(f, h) # v
  BY DEF HaveNames
<1>6. \A i \in BlockLines(f, "Process") : Follows(f, i, p + 1) <=> i = o
  BY OneBlock DEF BlockLines
<1>7. p + 1 \in InProcess(f, "Command")
  BY InProcessIs
<1>8. p + 1 \in Unresolved(f) <=>
        \A l \in KeyLines(f, o, "Command"), h \in B : l <= p + 1 => BlockName(f, h) # f[l].value
  BY <1>1, <1>6, <1>7 DEF Unresolved
<1> QED BY <1>3, <1>4, <1>5, <1>8 DEF Given

(* Lines that add nothing. *)
LEMMA QuietForCommands ==
  ASSUME NEW f \in Seq(Line), NEW p \in 0..Len(f) - 1,
         ~(f[p + 1].kind = "open" /\ f[p + 1].tag = "Command")
  PROVE  /\ CommandErrors(f, p + 1) = CommandErrors(f, p)
         /\ BlocksTo(f, "Command", p + 1) = BlocksTo(f, "Command", p)
<1>1. p + 1 \notin Redefined(f)
  BY DEF Redefined, BlockLines
<1>2. UpTo(Redefined(f), p + 1) = UpTo(Redefined(f), p)
  BY <1>1, ErrorLines, UpToMore
<1>3. BlocksTo(f, "Command", p + 1) = BlocksTo(f, "Command", p)
  BY BlocksMore
<1> QED BY <1>2, <1>3 DEF CommandErrors

LEMMA QuietForProcesses ==
  ASSUME NEW f \in Seq(Line), NEW p \in 0..Len(f) - 1, NEW errors,
         f[p + 1].kind = "arg" => ~\E o \in 1..p : InBlock(f, o, "Process", p),
         ErrorsTo(f, errors, p)
  PROVE  ErrorsTo(f, errors, p + 1)
<1>1. p + 1 \notin Unresolved(f) /\ p + 1 \notin InProcess(f, "immediate")
  BY NotInProcess
<1>2. ProcessErrors(f, p + 1) = ProcessErrors(f, p)
  BY <1>1, ErrorLines, UpToMore DEF ProcessErrors
<1>3. Doubtful(f, p + 1) = Doubtful(f, p)
  BY <1>1, ErrorLines, UpToMore DEF Doubtful
<1> QED BY <1>2, <1>3 DEF ErrorsTo

LEMMA QuietInBlock ==
  ASSUME NEW f \in Seq(Line), NEW p \in 0..Len(f) - 1, NEW o, NEW t, InBlock(f, o, t, p),
         f[p + 1].kind = "blank"
  PROVE  /\ InBlock(f, o, t, p + 1) /\ CommandTo(f, o, p + 1) = CommandTo(f, o, p)
         /\ \A commands : ProcessTo(f, commands, o, p + 1) = ProcessTo(f, commands, o, p)
<1>1. ASSUME NEW k PROVE Given(f, o, k, p + 1) = Given(f, o, k, p)
  BY GivenMore
<1>2. InBlock(f, o, t, p + 1)
  BY GivenMore DEF IsTag
<1> QED BY <1>1, <1>2 DEF CommandTo, ProcessTo, NameTo

(* After a line that is no opening tag nothing is open that was not. *)
LEMMA NothingOpens ==
  ASSUME NEW f \in Seq(Line), NEW p \in 0..Len(f) - 1, NEW t,
         ~(f[p + 1].kind = "open" /\ f[p + 1].tag = t),
         f[p + 1].kind = "close" \/ ~\E o \in 1..p : InBlock(f, o, t, p)
  PROVE  ~\E o \in 1..p + 1 : InBlock(f, o, t, p + 1)
<1> SUFFICES ASSUME NEW o \in 1..p + 1, InBlock(f, o, t, p + 1) PROVE FALSE
  OBVIOUS
<1>1. o \in 1..p /\ p + 1 \in o+1..p + 1
  BY DEF InBlock
<1>2. InBlock(f, o, t, p)
  BY <1>1 DEF InBlock
<1>3. ~IsTag(f, p + 1)
  BY <1>1 DEF InBlock
<1> QED BY <1>1, <1>2, <1>3 DEF IsTag

LEMMA ToSetAppend ==
  ASSUME NEW V, NEW s \in Seq(V), NEW e \in V
  PROVE  ToSet(Append(s, e)) = ToSet(s) \cup {e}
<1>1. /\ Len(s) \in Nat /\ DOMAIN s = 1..Len(s) /\ DOMAIN Append(s, e) = 1..Len(s) + 1
      /\ \A n \in 1..Len(s) : Append(s, e)[n] = s[n]
      /\ Append(s, e)[Len(s) + 1] = e
  OBVIOUS
<1>2. 1..Len(s) + 1 = 1..Len(s) \cup {Len(s) + 1}
  BY <1>1
<1> QED BY <1>1, <1>2 DEF ToSet

-----------------------------------------------------------------------------
(* The steps.  A line that is read is counted. *)
LEMMA Counted ==
  ASSUME ConfigInv, Advance, file' = file, line # Eof
  PROVE  /\ file \in Seq(Line) /\ Len(file) \in Nat /\ pos \in 0..Len(file) - 1
         /\ line = file[pos + 1] /\ line \in Line /\ pos' = pos + 1 /\ line_num' = line_num + 1
<1>1. Types
  BY DEF ConfigInv
<1>2. file \in Seq(Line) /\ Len(file) \in Nat
  BY <1>1 DEF Types
<1>3. ReadOn /\ line = file[pos + 1] /\ pos + 1 \in 1..Len(file)
  BY <1>1, LineTaken
<1>4. line \in Line
  BY <1>2, <1>3
<1> QED BY <1>2, <1>3, <1>4 DEF ReadOn, Advance

LEMMA SyntaxErrorOnly ==
  ASSUME Types, pc = "syntax", configerror # <<>> => configerror[1].what \in SyntaxErrors,
         line_num' \in Nat,
         SkipBlank \/ SyntaxOpen \/ SyntaxClose \/ SyntaxArg \/ SyntaxEnd
  PROVE  configerror' # <<>> => configerror'[1].what \in SyntaxErrors
<1>1. configerror \in Seq(Error)
  BY DEF Types
<1>2. \/ UNCHANGED configerror
      \/ \E what \in SyntaxErrors : cpw_parsecontext_add_config_error(what)
  BY DEF SkipBlank, SyntaxOpen, SyntaxClose, SyntaxArg, SyntaxEnd, ErrorIf, SyntaxErrors
<1>3. ASSUME NEW what \in SyntaxErrors, cpw_parsecontext_add_config_error(what)
      PROVE  configerror'[1].what \in SyntaxErrors
  <2>1. /\ configerror = <<>> => configerror'[1].what = what
        /\ configerror # <<>> => configerror'[1] = configerror[1]
    BY <1>1, <1>3, ErrorAdded
  <2> QED BY <2>1
<1> QED BY <1>2, <1>3

LEMMA SyntaxLists ==
  ASSUME ConfigInv, ConfigInv', ListsInv, pc = "syntax",
         SkipBlank \/ SyntaxOpen \/ SyntaxClose \/ SyntaxArg \/ SyntaxEnd
  PROVE  ListsInv'
<1>1. Types /\ Types' /\ file' = file /\ UNCHANGED listvars
  BY DEF ConfigInv, SkipBlank, SyntaxOpen, SyntaxClose, SyntaxArg, SyntaxEnd
<1>2. commandlist = <<>> /\ processlist = <<>> /\ line_num = pos
  BY DEF ListsInv, SyntaxPass
<1>3. configerror' # <<>> => configerror'[1].what \in SyntaxErrors
  BY <1>1, SyntaxErrorOnly DEF ListsInv, SyntaxPass, Types
<1>4. UNCHANGED <<command, commandlist, process, processlist>>
  BY <1>1 DEF listvars
<1>5. ListTypes'
  BY <1>4 DEF ListsInv, ListTypes
<1>6. CASE pc' = "syntax"
  <2>1. Advance
    BY <1>6 DEF SkipBlank, SyntaxOpen, SyntaxClose, SyntaxArg, SyntaxEnd
  <2>2. line_num' = pos'
    BY <1>2, <2>1 DEF Advance
  <2> QED BY <1>2, <1>3, <1>4, <1>5, <1>6, <2>2
          DEF ListsInv, SyntaxPass, CommandPass, ProcessPass, Passed
<1>7. CASE SyntaxEnd /\ pc' = "command"
  <2>1. line = Eof /\ configerror' = <<>> /\ pos' = 0 /\ line_num' = line_num
    BY <1>7 DEF SyntaxEnd
  <2>2. file \in Seq(Line) /\ Len(file) \in Nat /\ pos = Len(file)
    BY <1>1, <2>1, LineRead DEF Types
  <2>3. BlocksTo(file', "Command", pos') = {}
    BY <1>1, <2>1, <2>2, BlocksNoneAll
  <2>4. CommandErrors(file', pos') = {}
    <3>1. UpTo(Redefined(file), 0) = {}
      BY <2>2, ErrorLines, UpToNoneAll
    <3> QED BY <1>1, <2>1, <3>1 DEF CommandErrors, LogicErrorsOf
  <2>5. ToSet(configerror') = {}
    BY <2>1 DEF ToSet
  <2>6. line_num' = Len(file') + pos'
    BY <1>1, <1>2, <2>1, <2>2
  <2>7. CommandPass'
    BY <1>2, <1>4, <1>7, <2>3, <2>4, <2>5, <2>6, NoneYet DEF CommandPass
  <2> QED BY <1>5, <1>7, <2>7 DEF ListsInv, SyntaxPass, ProcessPass, Passed
<1>8. CASE SyntaxEnd /\ pc' = "invalid"
  <2>1. configerror' # <<>>
    BY <1>8 DEF SyntaxEnd
  <2>2. ~WellFormed(file')
    BY <1>3, <2>1 DEF ConfigInv, ErrorsAreTrue
  <2> QED BY <1>5, <1>8, <2>2 DEF ListsInv, SyntaxPass, CommandPass, ProcessPass, Passed
<1>9. pc' = "syntax" \/ (SyntaxEnd /\ pc' \in {"command", "invalid"})
  BY DEF SkipBlank, SyntaxOpen, SyntaxClose, SyntaxArg, SyntaxEnd
<1> QED BY <1>6, <1>7, <1>8, <1>9

LEMMA BlankLists ==
  ASSUME ConfigInv, ListsInv, SkipBlank, pc \in Logic
  PROVE  ListsInv'
<1>1. /\ line = Blank /\ Advance
      /\ UNCHANGED <<file, pc, in_tag, current_tag, configerror, command, commandlist,
                     process, processlist>>
  BY DEF SkipBlank, listvars
<1>2. line # Eof /\ line.kind = "blank"
  BY <1>1 DEF Blank, Eof
<1>3. /\ file \in Seq(Line) /\ Len(file) \in Nat /\ pos \in 0..Len(file) - 1
      /\ file[pos + 1].kind = "blank" /\ pos' = pos + 1 /\ line_num' = line_num + 1
  BY <1>1, <1>2, Counted
<1>4. ListTypes'
  BY <1>1 DEF ListsInv, ListTypes
<1>5. CASE pc \in {"command", "in_command"}
  <2>1. CommandErrors(file', pos') = CommandErrors(file, pos)
        /\ BlocksTo(file', "Command", pos') = BlocksTo(file, "Command", pos)
    BY <1>1, <1>3, QuietForCommands
  <2>2. processlist' = <<>> /\ line_num' = Len(file') + pos'
        /\ ToSet(configerror') = CommandErrors(file', pos')
    BY <1>1, <1>3, <1>5, <2>1 DEF ListsInv, CommandPass
  <2>3. CASE pc = "command"
    <3>1. CommandPass'
      BY <1>1, <2>1, <2>2, <2>3 DEF ListsInv, CommandPass
    <3> QED BY <1>1, <1>4, <2>3, <3>1 DEF ListsInv, SyntaxPass, ProcessPass, Passed
  <2>4. CASE pc = "in_command"
    <3>1. PICK o \in 1..pos :
            /\ InBlock(file, o, "Command", pos) /\ command = CommandTo(file, o, pos)
            /\ AreCommands(file, commandlist, BlocksTo(file, "Command", o - 1))
            /\ HaveNames(file, commandlist, BlocksTo(file, "Command", o - 1))
      BY <2>4 DEF ListsInv, CommandPass
    <3>2. /\ o \in 1..pos' /\ InBlock(file', o, "Command", pos')
          /\ command' = CommandTo(file', o, pos')
      BY <1>1, <1>3, <3>1, QuietInBlock
    <3>3. current_tag' = "Command"
      BY <1>1, <2>4 DEF ListsInv, CommandPass
    <3>4. CommandPass'
      BY <1>1, <2>2, <2>4, <3>1, <3>2, <3>3 DEF CommandPass
    <3> QED BY <1>1, <1>4, <2>4, <3>4 DEF ListsInv, SyntaxPass, ProcessPass, Passed
  <2> QED BY <1>5, <2>3, <2>4
<1>6. CASE pc \in {"process", "in_process"}
  <2>1. ErrorsTo(file', configerror', pos')
    <3>1. ErrorsTo(file, configerror, pos)
      BY <1>6 DEF ListsInv, ProcessPass
    <3> QED BY <1>1, <1>3, <3>1, QuietForProcesses
  <2>2. /\ AreCommands(file', commandlist', BlockLines(file', "Command"))
        /\ HaveNames(file', commandlist', BlockLines(file', "Command"))
        /\ line_num' = 2 * Len(file') + pos'
    BY <1>1, <1>3, <1>6 DEF ListsInv, ProcessPass
  <2>3. CASE pc = "process"
    <3>1. BlocksTo(file', "Process", pos') = BlocksTo(file, "Process", pos)
      BY <1>1, <1>3, BlocksMore
    <3>2. ~\E o \in 1..pos : InBlock(file, o, "Process", pos)
      BY <2>3 DEF ListsInv, ProcessPass
    <3>3. ~\E o \in 1..pos' : InBlock(file', o, "Process", pos')
      BY <1>1, <1>3, <3>2, NothingOpens
    <3>4. ProcessPass'
      BY <1>1, <2>1, <2>2, <2>3, <3>1, <3>3 DEF ListsInv, ProcessPass
    <3> QED BY <1>1, <1>4, <2>3, <3>4 DEF ListsInv, SyntaxPass, CommandPass, Passed
  <2>4. CASE pc = "in_process"
    <3>1. PICK o \in 1..pos :
            /\ InBlock(file, o, "Process", pos)
            /\ process = ProcessTo(file, commandlist, o, pos)
            /\ AreProcesses(file, processlist, BlocksTo(file, "Process", o - 1))
      BY <2>4 DEF ListsInv, ProcessPass
    <3>2. /\ o \in 1..pos' /\ InBlock(file', o, "Process", pos')
          /\ process' = ProcessTo(file', commandlist', o, pos')
      BY <1>1, <1>3, <3>1, QuietInBlock
    <3>3. current_tag' = "Process"
      BY <1>1, <2>4 DEF ListsInv, ProcessPass
    <3>4. ProcessPass'
      BY <1>1, <2>1, <2>2, <2>4, <3>1, <3>2, <3>3 DEF ProcessPass
    <3> QED BY <1>1, <1>4, <2>4, <3>4 DEF ListsInv, SyntaxPass, CommandPass, Passed
  <2> QED BY <1>6, <2>3, <2>4
<1> QED BY <1>5, <1>6 DEF Logic

LEMMA SeekLists ==
  ASSUME ConfigInv, ListsInv, SeekPast
  PROVE  ListsInv'
<1>1. /\ line # Eof /\ Advance /\ pc \in {"command", "process"}
      /\ UNCHANGED <<file, pc, in_tag, configerror, command, commandlist, process, processlist>>
      /\ pc = "command" => ~(line.kind = "open" /\ line.tag = "Command")
      /\ pc = "process" => ~(line.kind = "open" /\ line.tag = "Process")
  BY DEF SeekPast, listvars
<1>2. /\ file \in Seq(Line) /\ Len(file) \in Nat /\ pos \in 0..Len(file) - 1
      /\ line = file[pos + 1] /\ pos' = pos + 1 /\ line_num' = line_num + 1
  BY <1>1, Counted
<1>3. ListTypes'
  BY <1>1 DEF ListsInv, ListTypes
<1>4. CASE pc = "command"
  <2>1. CommandErrors(file', pos') = CommandErrors(file, pos)
        /\ BlocksTo(file', "Command", pos') = BlocksTo(file, "Command", pos)
    BY <1>1, <1>2, <1>4, QuietForCommands
  <2>2. CommandPass'
    BY <1>1, <1>2, <1>4, <2>1 DEF ListsInv, CommandPass
  <2> QED BY <1>1, <1>3, <1>4, <2>2 DEF ListsInv, SyntaxPass, ProcessPass, Passed
<1>5. CASE pc = "process"
  <2>1. ~\E o \in 1..pos : InBlock(file, o, "Process", pos)
    BY <1>5 DEF ListsInv, ProcessPass
  <2>2. ErrorsTo(file', configerror', pos')
    <3>1. ErrorsTo(file, configerror, pos)
      BY <1>5 DEF ListsInv, ProcessPass
    <3> QED BY <1>1, <1>2, <2>1, <3>1, QuietForProcesses
  <2>3. BlocksTo(file', "Process", pos') = BlocksTo(file, "Process", pos)
    BY <1>1, <1>2, <1>5, BlocksMore
  <2>4. ~\E o \in 1..pos' : InBlock(file', o, "Process", pos')
    BY <1>1, <1>2, <1>5, <2>1, NothingOpens
  <2>5. ProcessPass'
    BY <1>1, <1>2, <1>5, <2>2, <2>3, <2>4 DEF ListsInv, ProcessPass
  <2> QED BY <1>1, <1>3, <1>5, <2>5 DEF ListsInv, SyntaxPass, CommandPass, Passed
<1> QED BY <1>1, <1>4, <1>5

(* A tag just read opens a block that was given nothing yet. *)
LEMMA JustOpened ==
  ASSUME NEW f \in Seq(Line), NEW o \in DOMAIN f, f[o].kind = "open"
  PROVE  /\ InBlock(f, o, f[o].tag, o)
         /\ CommandTo(f, o, o) =
              [name |-> IF f[o].name = NoToken THEN Empty ELSE f[o].name,
               path |-> Empty, args |-> <<>>]
         /\ \A commands : ProcessTo(f, commands, o, o) =
              [name |-> IF f[o].name = NoToken THEN Empty ELSE f[o].name,
               command |-> 0, args |-> <<>>]
<1>1. InBlock(f, o, f[o].tag, o)
  BY DEF InBlock
<1>2. \A k : Given(f, o, k, o) = {}
  BY GivenNone
<1> QED BY <1>1, <1>2, NothingRead, NoneYet DEF CommandTo, ProcessTo, NameTo

LEMMA OpenCommandLists ==
  ASSUME ConfigInv, ListsInv, OpenCommand
  PROVE  ListsInv'
<1>1. /\ Advance /\ pc = "command" /\ pc' = "in_command" /\ line.kind = "open"
      /\ line.tag = "Command" /\ current_tag' = "Command"
      /\ UNCHANGED <<file, commandlist, process, processlist>>
  BY DEF OpenCommand
<1>2. line # Eof
  BY <1>1 DEF Eof
<1>3. /\ file \in Seq(Line) /\ Len(file) \in Nat /\ pos \in 0..Len(file) - 1
      /\ line = file[pos + 1] /\ line \in Line /\ pos' = pos + 1 /\ line_num' = line_num + 1
  BY <1>1, <1>2, Counted
<1> DEFINE o == pos + 1
<1>4. o \in DOMAIN file /\ o \in 1..pos' /\ o - 1 = pos
  BY <1>3
<1>5. line.name \in Name \cup {NoToken}
  BY <1>1, <1>3 DEF Line, Blank
<1>6. command' = [name |-> IF line.name = NoToken THEN Empty ELSE line.name,
                  path |-> Empty, args |-> <<>>]
  BY DEF OpenCommand, cpw_command_set_value, cpw_command_new
<1>7. ListTypes'
  <2>1. command' \in CommandT
    BY <1>5, <1>6, ConfigAssumption DEF CommandT
  <2> QED BY <1>1, <2>1 DEF ListsInv, ListTypes
<1>8. InBlock(file', o, "Command", pos') /\ command' = CommandTo(file', o, pos')
  <2>1. InBlock(file, o, file[o].tag, o)
        /\ CommandTo(file, o, o) =
             [name |-> IF file[o].name = NoToken THEN Empty ELSE file[o].name,
              path |-> Empty, args |-> <<>>]
    BY <1>1, <1>3, <1>4, JustOpened
  <2> QED BY <1>1, <1>3, <1>6, <2>1
<1>9. /\ AreCommands(file, commandlist, BlocksTo(file, "Command", pos))
      /\ HaveNames(file, commandlist, BlocksTo(file, "Command", pos))
      /\ processlist = <<>> /\ line_num = Len(file) + pos
      /\ ToSet(configerror) = CommandErrors(file, pos)
  BY <1>1 DEF ListsInv, CommandPass
<1>10. commandlist \in Seq(CommandT) /\ configerror \in Seq(Error) /\ line_num \in Nat
  BY DEF ListsInv, ListTypes, ConfigInv, Types
<1>11. o \in Redefined(file) <=>
         line.name # NoToken /\ cpw_command_find_by_name(line.name)
  BY <1>1, <1>3, <1>9, <1>10, RedefinedIs DEF cpw_command_find_by_name
<1>12. Redefined(file) \subseteq DOMAIN file
  BY ErrorLines
<1>13. ToSet(configerror') = CommandErrors(file', pos')
  <2>1. CASE o \in Redefined(file)
    <3> DEFINE e == [line |-> line_num', what |-> "command already defined"]
    <3>1. configerror' = Append(configerror, e)
      BY <1>11, <2>1 DEF OpenCommand, ErrorIf, cpw_parsecontext_add_config_error
    <3>a. line_num' = 1 * Len(file) + o /\ line_num' \in Nat
      BY <1>3, <1>9, <1>10
    <3>2. e = [line |-> 1 * Len(file) + o, what |-> "command already defined"]
      BY <3>a
    <3>3. e \in Error
      BY <3>a DEF Error, LogicErrors
    <3> HIDE DEF e
    <3>4. ToSet(configerror') = ToSet(configerror) \cup {e}
      BY <1>10, <3>1, <3>3, ToSetAppend
    <3>5. UpTo(Redefined(file), o) = UpTo(Redefined(file), pos) \cup {o}
      BY <1>3, <1>12, <2>1, UpToMore
    <3>6. CommandErrors(file, o) = CommandErrors(file, pos) \cup {e}
      BY <3>2, <3>5 DEF CommandErrors, LogicErrorsOf
    <3> QED BY <1>1, <1>3, <1>9, <3>4, <3>6
  <2>2. CASE o \notin Redefined(file)
    <3>1. configerror' = configerror
      BY <1>11, <2>2 DEF OpenCommand, ErrorIf
    <3>2. UpTo(Redefined(file), o) = UpTo(Redefined(file), pos)
      BY <1>3, <1>12, <2>2, UpToMore
    <3> QED BY <1>1, <1>3, <1>9, <3>1, <3>2 DEF CommandErrors
  <2> QED BY <2>1, <2>2
<1>14. line_num' = Len(file') + pos'
  BY <1>1, <1>3, <1>9, <1>10
<1>15. CommandPass'
  BY <1>1, <1>4, <1>8, <1>9, <1>13, <1>14 DEF CommandPass
<1> QED BY <1>1, <1>7, <1>15 DEF ListsInv, SyntaxPass, ProcessPass, Passed

LEMMA CommandsEndLists ==
  ASSUME ConfigInv, ListsInv, CommandsEnd
  PROVE  ListsInv'
<1>1. /\ pc = "command" /\ pc' = "process" /\ line = Eof /\ pos' = 0
      /\ UNCHANGED <<line_num, file, configerror, command, commandlist, process, processlist>>
  BY DEF CommandsEnd, listvars
<1>2. file \in Seq(Line) /\ Len(file) \in Nat /\ pos = Len(file)
  BY <1>1, LineRead DEF ConfigInv, Types
<1>3. ListTypes'
  BY <1>1 DEF ListsInv, ListTypes
<1>4. BlocksTo(file, "Command", Len(file)) = BlockLines(file, "Command")
      /\ BlocksTo(file, "Process", 0) = {}
  BY <1>2, BlocksNoneAll
<1>5. /\ AreCommands(file', commandlist', BlockLines(file', "Command"))
      /\ HaveNames(file', commandlist', BlockLines(file', "Command"))
      /\ processlist' = <<>> /\ ToSet(configerror') = CommandErrors(file', Len(file'))
  BY <1>1, <1>2, <1>4 DEF ListsInv, CommandPass
<1>6. line_num' = 2 * Len(file') + pos'
  BY <1>1, <1>2 DEF ListsInv, CommandPass
<1>7. ProcessErrors(file', pos') = {} /\ Doubtful(file', pos') = {}
  <2>1. UpTo(Unresolved(file), 0) = {} /\ UpTo(InProcess(file, "immediate"), 0) = {}
    BY <1>2, ErrorLines, UpToNoneAll
  <2> QED BY <1>1, <2>1 DEF ProcessErrors, Doubtful, LogicErrorsOf
<1>8. ErrorsTo(file', configerror', pos')
  BY <1>5, <1>7 DEF ErrorsTo
<1>9. AreProcesses(file', processlist', BlocksTo(file', "Process", pos'))
  BY <1>1, <1>4, <1>5, NoneYet
<1>10. ~\E o \in 1..pos' : InBlock(file', o, "Process", pos')
  BY <1>1
<1>11. ProcessPass'
  BY <1>1, <1>5, <1>6, <1>8, <1>9, <1>10 DEF ProcessPass
<1> QED BY <1>1, <1>3, <1>11 DEF ListsInv, SyntaxPass, CommandPass, Passed

LEMMA OpenProcessLists ==
  ASSUME ConfigInv, ListsInv, OpenProcess
  PROVE  ListsInv'
<1>1. /\ Advance /\ pc = "process" /\ pc' = "in_process" /\ line.kind = "open"
      /\ line.tag = "Process" /\ current_tag' = "Process"
      /\ UNCHANGED <<file, configerror, command, commandlist, processlist>>
  BY DEF OpenProcess
<1>2. line # Eof
  BY <1>1 DEF Eof
<1>3. /\ file \in Seq(Line) /\ Len(file) \in Nat /\ pos \in 0..Len(file) - 1
      /\ line = file[pos + 1] /\ line \in Line /\ pos' = pos + 1 /\ line_num' = line_num + 1
  BY <1>1, <1>2, Counted
<1> DEFINE o == pos + 1
<1>4. o \in DOMAIN file /\ o \in 1..pos' /\ o - 1 = pos
  BY <1>3
<1>5. line.name \in Name \cup {NoToken}
  BY <1>1, <1>3 DEF Line, Blank
<1>6. process' = [name |-> IF line.name = NoToken THEN Empty ELSE line.name,
                  command |-> 0, args |-> <<>>]
  BY DEF OpenProcess, cpw_process_new
<1>7. ListTypes'
  <2>1. process' \in ProcessT
    BY <1>5, <1>6, ConfigAssumption DEF ProcessT
  <2> QED BY <1>1, <2>1 DEF ListsInv, ListTypes
<1>8. InBlock(file', o, "Process", pos') /\ process' = ProcessTo(file', commandlist', o, pos')
  <2>1. InBlock(file, o, file[o].tag, o)
        /\ ProcessTo(file, commandlist, o, o) =
             [name |-> IF file[o].name = NoToken THEN Empty ELSE file[o].name,
              command |-> 0, args |-> <<>>]
    BY <1>1, <1>3, <1>4, JustOpened
  <2> QED BY <1>1, <1>3, <1>6, <2>1
<1>9. /\ AreCommands(file, commandlist, BlockLines(file, "Command"))
      /\ HaveNames(file, commandlist, BlockLines(file, "Command"))
      /\ AreProcesses(file, processlist, BlocksTo(file, "Process", pos))
      /\ line_num = 2 * Len(file) + pos /\ ErrorsTo(file, configerror, pos)
  BY <1>1 DEF ListsInv, ProcessPass
<1>10. line_num' = 2 * Len(file') + pos'
  BY <1>1, <1>3, <1>9
<1>11. ErrorsTo(file', configerror', pos')
  BY <1>1, <1>3, <1>9, QuietForProcesses
<1>12. ProcessPass'
  BY <1>1, <1>4, <1>8, <1>9, <1>10, <1>11 DEF ProcessPass
<1> QED BY <1>1, <1>7, <1>12 DEF ListsInv, SyntaxPass, CommandPass, Passed

LEMMA ProcessesEndLists ==
  ASSUME ConfigInv, ListsInv, ProcessesEnd
  PROVE  ListsInv'
<1>1. /\ pc = "process" /\ pc' \in {"valid", "invalid"} /\ line = Eof
      /\ UNCHANGED <<file, configerror, command, commandlist, process, processlist>>
  BY DEF ProcessesEnd, listvars, contextvars
<1>2. file \in Seq(Line) /\ pos = Len(file)
  BY <1>1, LineRead DEF ConfigInv, Types
<1>3. ListTypes'
  BY <1>1 DEF ListsInv, ListTypes
<1>4. BlocksTo(file, "Process", Len(file)) = BlockLines(file, "Process")
  BY <1>2, BlocksNoneAll
<1>5. Passed'
  BY <1>1, <1>2, <1>4 DEF ListsInv, ProcessPass, Passed
<1> QED BY <1>1, <1>3, <1>5 DEF ListsInv, SyntaxPass, CommandPass, ProcessPass

-----------------------------------------------------------------------------
(* An argument adds its line to those that give its key, and to no others. *)
LEMMA GivenByArg ==
  ASSUME NEW f \in Seq(Line), NEW p \in 0..Len(f) - 1, NEW o, NEW t, InBlock(f, o, t, p),
         f[p + 1].kind = "arg"
  PROVE  \A k :
           /\ f[p + 1].key = k => Given(f, o, k, p + 1) = Given(f, o, k, p) \cup {p + 1}
           /\ f[p + 1].key # k => Given(f, o, k, p + 1) = Given(f, o, k, p)
<1>1. p \in Nat /\ DOMAIN f = 1..Len(f) /\ p + 1 \in DOMAIN f
  BY DEF InBlock
<1>2. Follows(f, o, p + 1)
  BY OneBlock
<1>3. \A j \in DOMAIN f : j <= p + 1 <=> j <= p \/ j = p + 1
  BY <1>1
<1> SUFFICES
      ASSUME NEW k
      PROVE  /\ f[p + 1].key = k => Given(f, o, k, p + 1) = Given(f, o, k, p) \cup {p + 1}
             /\ f[p + 1].key # k => Given(f, o, k, p + 1) = Given(f, o, k, p)
  OBVIOUS
<1>4. p + 1 \in KeyLines(f, o, k) <=> f[p + 1].key = k
  BY <1>1, <1>2 DEF KeyLines
<1>5. KeyLines(f, o, k) \subseteq DOMAIN f
  BY DEF KeyLines
<1>6. /\ p + 1 \in KeyLines(f, o, k) =>
           Given(f, o, k, p + 1) = Given(f, o, k, p) \cup {p + 1}
      /\ p + 1 \notin KeyLines(f, o, k) => Given(f, o, k, p + 1) = Given(f, o, k, p)
  BY <1>1, <1>3, <1>5 DEF Given
<1> QED BY <1>4, <1>6

(* A value is set in the block that is open. *)
LEMMA CommandGrows ==
  ASSUME NEW f \in Seq(Line), NEW p \in 0..Len(f) - 1, NEW o, NEW t, InBlock(f, o, t, p),
         f[p + 1].kind = "arg", f[p + 1].value \in Name,
         Values(f, Given(f, o, "arg", p)) \in Seq(Name)
  PROVE  CommandTo(f, o, p + 1) =
           cpw_command_set_value(CommandTo(f, o, p), f[p + 1].key, f[p + 1].value)
<1>0. \A k :
        /\ f[p + 1].key = k => Given(f, o, k, p + 1) = Given(f, o, k, p) \cup {p + 1}
        /\ f[p + 1].key # k => Given(f, o, k, p + 1) = Given(f, o, k, p)
  BY GivenByArg
<1> DEFINE m == p + 1
           key == f[m].key
           v == f[m].value
           G(k) == Given(f, o, k, p)
           H(k) == Given(f, o, k, m)
<1>1. m \in Nat /\ p \in 0..Len(f)
  OBVIOUS
<1>2. \A k : G(k) \in SUBSET Nat /\ IsFiniteSet(G(k)) /\ \A x \in G(k) : x < m
  BY <1>1, LinesAre
<1>3. \A k : (key = k => H(k) = G(k) \cup {m}) /\ (key # k => H(k) = G(k))
  BY <1>0
<1>4. v \in Name /\ Values(f, G("arg")) \in Seq(Name)
  OBVIOUS
<1>5. /\ CommandTo(f, o, p) =
           [name |-> LastOf(f, G("name"), IF f[o].name = NoToken THEN Empty ELSE f[o].name),
            path |-> LastOf(f, G("path"), Empty), args |-> Values(f, G("arg"))]
      /\ CommandTo(f, o, m) =
           [name |-> LastOf(f, H("name"), IF f[o].name = NoToken THEN Empty ELSE f[o].name),
            path |-> LastOf(f, H("path"), Empty), args |-> Values(f, H("arg"))]
  BY DEF CommandTo, NameTo
<1> HIDE DEF G, H, m
<1>6. \A k, d : LastOf(f, G(k) \cup {m}, d) = v
  BY <1>1, <1>2, LastOfGrows
<1>7. Values(f, G("arg") \cup {m}) = Append(Values(f, G("arg")), v)
  <2>1. G("arg") \in SUBSET Nat /\ IsFiniteSet(G("arg")) /\ \A x \in G("arg") : x < m
    BY <1>2
  <2>2. f[m].value \in Name
    BY <1>4
  <2> HIDE DEF v
  <2>3. Values(f, G("arg") \cup {m}) = Append(Values(f, G("arg")), f[m].value)
    BY <1>1, <1>4, <2>1, <2>2, ValuesGrow
  <2> QED BY <2>3 DEF v
<1>8. CASE key = "name"
  BY <1>3, <1>5, <1>6, <1>8 DEF cpw_command_set_value, m
<1>9. CASE key = "path"
  BY <1>3, <1>5, <1>6, <1>9 DEF cpw_command_set_value, m
<1>10. CASE key = "arg"
  <2> DEFINE a == Append(Values(f, G("arg")), v)
             c == CommandTo(f, o, p)
  <2>1. H("name") = G("name") /\ H("path") = G("path") /\ Values(f, H("arg")) = a
    BY <1>3, <1>7, <1>10
  <2>2. cpw_command_set_value(c, key, v) = [c EXCEPT !.args = a]
    BY <1>5, <1>10 DEF cpw_command_set_value
  <2> HIDE DEF a
  <2>3. CommandTo(f, o, m) = [c EXCEPT !.args = a]
    BY <1>5, <2>1
  <2> QED BY <2>2, <2>3 DEF m
<1>11. CASE key \notin {"name", "path", "arg"}
  BY <1>3, <1>5, <1>11 DEF cpw_command_set_value, m
<1> QED BY <1>8, <1>9, <1>10, <1>11

LEMMA ProcessGrows ==
  ASSUME NEW f \in Seq(Line), NEW p \in 0..Len(f) - 1, NEW o, NEW t, InBlock(f, o, t, p),
         f[p + 1].kind = "arg", f[p + 1].value \in Name,
         f[p + 1].key \in {"name", "Command", "arg", "immediate"},
         Values(f, Given(f, o, "arg", p)) \in Seq(Name),
         NEW old, old = ProcessTo(f, commandlist, o, p),
         NEW r, r \in cpw_process_set_value(old, f[p + 1].key, f[p + 1].value)
  PROVE  /\ r.process = ProcessTo(f, commandlist, o, p + 1)
         /\ f[p + 1].key \in {"arg", "name"} => r.ok
         /\ f[p + 1].key = "Command" => (r.ok <=> r.process.command # 0)
<1>0. \A k :
        /\ f[p + 1].key = k => Given(f, o, k, p + 1) = Given(f, o, k, p) \cup {p + 1}
        /\ f[p + 1].key # k => Given(f, o, k, p + 1) = Given(f, o, k, p)
  BY GivenByArg
<1> DEFINE m == p + 1
           key == f[m].key
           v == f[m].value
           N == Named(commandlist, v)
           G(k) == Given(f, o, k, p)
           H(k) == Given(f, o, k, m)
           n0 == LastOf(f, G("name"), IF f[o].name = NoToken THEN Empty ELSE f[o].name)
           c0 == CommandOf(f, commandlist, G("Command"))
           a0 == Values(f, G("arg"))
           n1 == LastOf(f, H("name"), IF f[o].name = NoToken THEN Empty ELSE f[o].name)
           c1 == CommandOf(f, commandlist, H("Command"))
           a1 == Values(f, H("arg"))
           new == ProcessTo(f, commandlist, o, m)
<1>1. m \in Nat /\ p \in 0..Len(f)
  OBVIOUS
<1>2. \A k : G(k) \in SUBSET Nat /\ IsFiniteSet(G(k)) /\ \A x \in G(k) : x < m
  BY <1>1, LinesAre
<1>3. \A k : (key = k => H(k) = G(k) \cup {m}) /\ (key # k => H(k) = G(k))
  BY <1>0
<1>4. v \in Name /\ Values(f, G("arg")) \in Seq(Name)
  OBVIOUS
<1>5. /\ old = [name |-> n0, command |-> c0, args |-> a0]
      /\ new = [name |-> n1, command |-> c1, args |-> a1]
  BY DEF ProcessTo, NameTo
<1>6. key \in {"name", "Command", "arg", "immediate"} /\ r \in cpw_process_set_value(old, key, v)
  OBVIOUS
<1> HIDE DEF G, H, m, key, v
<1>7. key = "name" => n1 = v
  <2>1. \A k, d : LastOf(f, G(k) \cup {m}, d) = v
    BY <1>1, <1>2, LastOfGrows DEF v
  <2> QED BY <1>3, <2>1
<1>8. key = "arg" => a1 = Append(a0, v)
  <2>1. Values(f, G("arg") \cup {m}) = Append(Values(f, G("arg")), v)
    BY <1>1, <1>2, <1>4, ValuesGrow, SMTT(90) DEF v
  <2> QED BY <1>3, <2>1
<1>9. key = "Command" => c1 = IF N = {} THEN c0 ELSE Max(N)
  <2>1. CommandOf(f, commandlist, G("Command") \cup {m}) =
          IF Named(commandlist, v) = {} THEN CommandOf(f, commandlist, G("Command"))
          ELSE Max(Named(commandlist, v))
    BY <1>1, <1>2, CommandOfMore DEF v
  <2>2. key = "Command" => H("Command") = G("Command") \cup {m}
    BY <1>3
  <2> QED BY <2>1, <2>2
<1>10. /\ key # "name" => n1 = n0
       /\ key # "Command" => c1 = c0
       /\ key # "arg" => a1 = a0
  BY <1>3
<1> HIDE DEF N, n0, n1, c0, c1, a0, a1, new
<1>11. CASE key = "name"
  <2>1. r = [process |-> [old EXCEPT !.name = v], ok |-> TRUE]
    BY <1>6, <1>11 DEF cpw_process_set_value
  <2>2. r.process = new /\ r.ok
    BY <1>5, <1>7, <1>10, <1>11, <2>1
  <2> QED BY <1>11, <2>2 DEF key, new, m
<1>12. CASE key = "arg"
  <2> DEFINE a == Append(a0, v)
  <2>1. r = [process |-> [old EXCEPT !.args = Append(old.args, v)], ok |-> TRUE]
    BY <1>6, <1>12 DEF cpw_process_set_value
  <2>2. Append(old.args, v) = a
    BY <1>5
  <2>3. new = [name |-> n0, command |-> c0, args |-> a]
    BY <1>5, <1>8, <1>10, <1>12
  <2> HIDE DEF a
  <2>4. r = [process |-> [old EXCEPT !.args = a], ok |-> TRUE]
    BY <2>1, <2>2
  <2>5. r.process = new /\ r.ok
    BY <1>5, <2>3, <2>4
  <2> QED BY <1>12, <2>5 DEF key, new, m
<1>13. CASE key = "immediate"
  <2>1. r \in {[process |-> old, ok |-> b] : b \in BOOLEAN}
    BY <1>6, <1>13 DEF cpw_process_set_value
  <2>2. \E b \in BOOLEAN : r = [process |-> old, ok |-> b]
    BY <2>1
  <2>3. r.process = old
    BY <2>2
  <2>4. r.process = new
    BY <1>5, <1>10, <1>13, <2>3
  <2> QED BY <1>13, <2>4 DEF key, new, m
<1>14. CASE key = "Command"
  <2> DEFINE set == IF N = {} THEN old ELSE [old EXCEPT !.command = Max(N)]
  <2>1. r = cpw_process_set_command(old, v)
    BY <1>6, <1>14 DEF cpw_process_set_value
  <2>2. cpw_process_set_command(old, v) = [process |-> set, ok |-> set.command # 0]
    BY DEF cpw_process_set_command, Named, N
  <2>3. new = set
    BY <1>5, <1>9, <1>10, <1>14
  <2> HIDE DEF set
  <2>4. r.process = new /\ r.ok = (r.process.command # 0)
    BY <2>1, <2>2, <2>3
  <2> QED BY <1>14, <2>4 DEF key, new, m
<1> QED BY <1>6, <1>11, <1>12, <1>13, <1>14

(* What a line of a process adds to the errors. *)
LEMMA ErrorsGrow ==
  ASSUME NEW f \in Seq(Line), NEW p \in 0..Len(f) - 1, NEW errors, NEW more, NEW e,
         e = [line |-> 2 * Len(f) + (p + 1), what |-> "not a valid command name"],
         ErrorsTo(f, errors, p),
         \/ p + 1 \in Unresolved(f) /\ ToSet(more) = ToSet(errors) \cup {e}
         \/ p + 1 \notin Unresolved(f) /\ ToSet(more) = ToSet(errors)
         \/ /\ p + 1 \notin Unresolved(f) /\ p + 1 \in InProcess(f, "immediate")
            /\ ToSet(more) = ToSet(errors) \cup {e}
  PROVE  ErrorsTo(f, more, p + 1)
<1>1. /\ p + 1 \in Unresolved(f) => ProcessErrors(f, p + 1) = ProcessErrors(f, p) \cup {e}
      /\ p + 1 \notin Unresolved(f) => ProcessErrors(f, p + 1) = ProcessErrors(f, p)
  <2>1. /\ p + 1 \in Unresolved(f) =>
             UpTo(Unresolved(f), p + 1) = UpTo(Unresolved(f), p) \cup {p + 1}
        /\ p + 1 \notin Unresolved(f) => UpTo(Unresolved(f), p + 1) = UpTo(Unresolved(f), p)
    BY ErrorLines, UpToMore
  <2> QED BY <2>1 DEF ProcessErrors, LogicErrorsOf
<1>2. /\ p + 1 \in InProcess(f, "immediate") => Doubtful(f, p + 1) = Doubtful(f, p) \cup {e}
      /\ p + 1 \notin InProcess(f, "immediate") => Doubtful(f, p + 1) = Doubtful(f, p)
  <2> DEFINE I == InProcess(f, "immediate")
  <2>1. I \subseteq DOMAIN f
    BY ErrorLines
  <2> HIDE DEF I
  <2>2. /\ p + 1 \in I => UpTo(I, p + 1) = UpTo(I, p) \cup {p + 1}
        /\ p + 1 \notin I => UpTo(I, p + 1) = UpTo(I, p)
    BY <2>1, UpToMore
  <2> QED BY <2>2 DEF Doubtful, LogicErrorsOf, I
<1> QED BY <1>1, <1>2 DEF ErrorsTo

LEMMA SetCommandValueLists ==
  ASSUME ConfigInv, ListsInv, SetCommandValue
  PROVE  ListsInv'
<1>1. /\ Advance /\ pc = "in_command" /\ pc' = pc /\ line.kind = "arg"
      /\ command' = cpw_command_set_value(command, line.key, line.value)
      /\ UNCHANGED <<file, current_tag, configerror, commandlist, process, processlist>>
  BY DEF SetCommandValue
<1>a. line.kind = "arg"
  BY <1>1
<1>2. line # Eof
  BY <1>a DEF Eof
<1>3. /\ file \in Seq(Line) /\ Len(file) \in Nat /\ pos \in 0..Len(file) - 1
      /\ line = file[pos + 1] /\ line \in Line /\ pos' = pos + 1 /\ line_num' = line_num + 1
  BY <1>1, <1>2, Counted
<1>4. line.value \in Name
  BY <1>a, <1>3 DEF Line, Blank
<1>5. PICK o \in 1..pos :
        /\ InBlock(file, o, "Command", pos) /\ command = CommandTo(file, o, pos)
        /\ AreCommands(file, commandlist, BlocksTo(file, "Command", o - 1))
        /\ HaveNames(file, commandlist, BlocksTo(file, "Command", o - 1))
  BY <1>1 DEF ListsInv, CommandPass
<1>6. command \in CommandT
  BY DEF ListsInv, ListTypes
<1>7. Values(file, Given(file, o, "arg", pos)) \in Seq(Name)
  BY <1>5, <1>6 DEF CommandT, CommandTo
<1>8. command' = CommandTo(file', o, pos')
  BY <1>1, <1>a, <1>3, <1>4, <1>5, <1>7, CommandGrows
<1>9. ListTypes'
  <2>1. command' \in CommandT
    <3>1. Append(command.args, line.value) \in Seq(Name)
      BY <1>4, <1>6 DEF CommandT
    <3> QED BY <1>1, <1>4, <1>6, <3>1 DEF CommandT, cpw_command_set_value
  <2> QED BY <1>1, <2>1 DEF ListsInv, ListTypes
<1>10. InBlock(file', o, "Command", pos') /\ o \in 1..pos'
  <2>1. ~IsTag(file, pos + 1)
    BY <1>a, <1>3 DEF IsTag
  <2> QED BY <1>1, <1>3, <1>5, <2>1 DEF InBlock
<1>11. CommandErrors(file', pos') = CommandErrors(file, pos)
  BY <1>1, <1>a, <1>3, QuietForCommands
<1>12. /\ processlist' = <<>> /\ line_num' = Len(file') + pos' /\ current_tag' = "Command"
       /\ ToSet(configerror') = CommandErrors(file', pos')
  BY <1>1, <1>3, <1>11 DEF ListsInv, CommandPass
<1>13. CommandPass'
  BY <1>1, <1>5, <1>8, <1>10, <1>12 DEF CommandPass
<1> QED BY <1>1, <1>9, <1>13 DEF ListsInv, SyntaxPass, ProcessPass, Passed

(* A block of a well-formed file ends at its closing tag. *)
LEMMA BlockEnds ==
  ASSUME ConfigInv, pc \in {"in_command", "in_process"}, NEW o \in 1..pos,
         InBlock(file, o, current_tag, pos), line.kind \in {"open", "close", "eof"}
  PROVE  line # Eof /\ line.kind = "close" /\ line.tag = current_tag
<1>1. OpenBlock(o)
  BY DEF InBlock, OpenBlock
<1>2. WellFormed(file) /\ file \in Seq(Line) /\ pos \in 0..Len(file)
  BY DEF ConfigInv, LogicIsWellFormed, Logic, Types
<1>3. line # Eof
  <2> SUFFICES ASSUME line = Eof PROVE FALSE
    OBVIOUS
  <2>1. pos = Len(file)
    BY <1>2, LineRead
  <2> QED BY <1>1, <1>2, <2>1, MissingIsWrong
<1>4. line = file[pos + 1] /\ pos \in 0..Len(file) - 1 /\ line.kind \in {"open", "close"}
  BY <1>2, <1>3, LineRead
<1>5. file[pos + 1] = Close(current_tag)
  BY <1>1, <1>2, <1>4, NextTagCloses DEF IsTag
<1> QED BY <1>3, <1>4, <1>5 DEF Close

LEMMA CloseCommandLists ==
  ASSUME ConfigInv, ListsInv, CloseCommand
  PROVE  ListsInv'
<1>1. /\ Advance /\ pc = "in_command" /\ pc' = "command"
      /\ line.kind \in {"open", "close", "eof"}
      /\ commandlist' = Append(commandlist, command)
      /\ UNCHANGED <<file, command, process, processlist>>
  BY DEF CloseCommand
<1>2. PICK o \in 1..pos :
        /\ InBlock(file, o, "Command", pos) /\ command = CommandTo(file, o, pos)
        /\ AreCommands(file, commandlist, BlocksTo(file, "Command", o - 1))
        /\ HaveNames(file, commandlist, BlocksTo(file, "Command", o - 1))
  BY <1>1 DEF ListsInv, CommandPass
<1>3. current_tag = "Command"
  BY <1>1 DEF ListsInv, CommandPass
<1>4. line # Eof /\ line.kind = "close" /\ line.tag = current_tag
  BY <1>1, <1>2, <1>3, BlockEnds
<1>5. configerror' = configerror
  BY <1>4 DEF CloseCommand, ErrorIf
<1>6. /\ file \in Seq(Line) /\ Len(file) \in Nat /\ pos \in 0..Len(file) - 1
      /\ line = file[pos + 1] /\ pos' = pos + 1 /\ line_num' = line_num + 1
  BY <1>1, <1>4, Counted
<1> DEFINE B == BlocksTo(file, "Command", o - 1)
<1>7. IsTag(file, pos + 1)
  BY <1>4, <1>6 DEF IsTag
<1>8. command = MeantCommand(file, o)
  <2>1. ASSUME NEW k PROVE Given(file, o, k, pos) = KeyLines(file, o, k)
    BY <1>2, <1>6, <1>7, GivenMore
  <2> QED BY <1>2, <2>1 DEF CommandTo, NameTo, MeantCommand, BlockName
<1>9. o - 1 \in 0..Len(file) /\ BlocksTo(file, "Command", pos + 1) = B \cup {o}
  <2>1. file[pos + 1].kind = "close"
    BY <1>4, <1>6
  <2>2. InBlock(file, o, "Command", pos) /\ o \in 1..pos
    BY <1>2
  <2>3. /\ o - 1 \in 0..Len(file)
        /\ BlocksTo(file, "Command", pos + 1) = BlocksTo(file, "Command", o - 1) \cup {o}
    <3> HIDE DEF B
    <3> QED BY <1>6, <2>1, <2>2, BlockRead, Z3T(60)
  <2> QED BY <2>3
<1>10. B \in SUBSET Nat /\ IsFiniteSet(B) /\ o \in Nat /\ \A x \in B : x < o
  <2>1. o \in Nat /\ (o - 1) + 1 = o
    BY <1>6
  <2>2. B \in SUBSET Nat /\ IsFiniteSet(B) /\ \A x \in B : x < (o - 1) + 1
    BY <1>6, <1>9, LinesAre
  <2> QED BY <2>1, <2>2
<1>11. command \in CommandT /\ commandlist \in Seq(CommandT)
  BY DEF ListsInv, ListTypes
<1> HIDE DEF B
<1>12. /\ AreCommands(file, Append(commandlist, command), B \cup {o})
       /\ HaveNames(file, Append(commandlist, command), B \cup {o})
  <2>1. AreCommands(file, commandlist, B) /\ HaveNames(file, commandlist, B)
    BY <1>2 DEF B
  <2>2. MeantCommand(file, o) \in CommandT
    BY <1>8, <1>11
  <2> QED BY <1>8, <1>10, <1>11, <2>1, <2>2, CommandsMore
<1>13. ListTypes'
  <2>1. Append(commandlist, command) \in Seq(CommandT)
    BY <1>11
  <2> QED BY <1>1, <2>1 DEF ListsInv, ListTypes
<1>14. CommandErrors(file', pos') = CommandErrors(file, pos)
  BY <1>1, <1>4, <1>6, QuietForCommands
<1>15. /\ processlist' = <<>> /\ line_num' = Len(file') + pos'
       /\ ToSet(configerror') = CommandErrors(file', pos')
  BY <1>1, <1>5, <1>6, <1>14 DEF ListsInv, CommandPass
<1>16. /\ AreCommands(file', commandlist', BlocksTo(file', "Command", pos'))
       /\ HaveNames(file', commandlist', BlocksTo(file', "Command", pos'))
  BY <1>1, <1>6, <1>9, <1>12
<1>17. CommandPass'
  BY <1>1, <1>15, <1>16 DEF CommandPass
<1> QED BY <1>1, <1>13, <1>17 DEF ListsInv, SyntaxPass, ProcessPass, Passed

LEMMA CloseProcessLists ==
  ASSUME ConfigInv, ListsInv, CloseProcess
  PROVE  ListsInv'
<1>1. /\ Advance /\ pc = "in_process" /\ pc' = "process"
      /\ line.kind \in {"open", "close", "eof"}
      /\ processlist' = Append(processlist, process)
      /\ UNCHANGED <<file, configerror, command, commandlist, process>>
  BY DEF CloseProcess
<1>2. PICK o \in 1..pos :
        /\ InBlock(file, o, "Process", pos) /\ process = ProcessTo(file, commandlist, o, pos)
        /\ AreProcesses(file, processlist, BlocksTo(file, "Process", o - 1))
  BY <1>1 DEF ListsInv, ProcessPass
<1>3. current_tag = "Process"
  BY <1>1 DEF ListsInv, ProcessPass
<1>4. line # Eof /\ line.kind = "close" /\ line.tag = current_tag
  BY <1>1, <1>2, <1>3, BlockEnds
<1>5. /\ file \in Seq(Line) /\ Len(file) \in Nat /\ pos \in 0..Len(file) - 1
      /\ line = file[pos + 1] /\ pos' = pos + 1 /\ line_num' = line_num + 1
  BY <1>1, <1>4, Counted
<1> DEFINE B == BlocksTo(file, "Process", o - 1)
<1>6. /\ AreCommands(file, commandlist, BlockLines(file, "Command"))
      /\ HaveNames(file, commandlist, BlockLines(file, "Command"))
      /\ line_num = 2 * Len(file) + pos /\ ErrorsTo(file, configerror, pos)
  BY <1>1 DEF ListsInv, ProcessPass
<1>7. IsTag(file, pos + 1)
  BY <1>4, <1>5 DEF IsTag
<1>8. process = MeantProcess(file, o)
  <2>1. ASSUME NEW k PROVE Given(file, o, k, pos) = KeyLines(file, o, k)
    BY <1>2, <1>5, <1>7, GivenMore
  <2>2. commandlist = MeantCommands(file)
    BY <1>6 DEF AreCommands, MeantCommands
  <2> QED BY <1>2, <2>1, <2>2 DEF ProcessTo, NameTo, MeantProcess, BlockName
<1>9. o - 1 \in 0..Len(file) /\ BlocksTo(file, "Process", pos + 1) = B \cup {o}
  <2>1. file[pos + 1].kind = "close"
    BY <1>4, <1>5
  <2>2. InBlock(file, o, "Process", pos) /\ o \in 1..pos
    BY <1>2
  <2>3. /\ o - 1 \in 0..Len(file)
        /\ BlocksTo(file, "Process", pos + 1) = BlocksTo(file, "Process", o - 1) \cup {o}
    <3> HIDE DEF B
    <3> QED BY <1>5, <2>1, <2>2, BlockRead, Z3T(60)
  <2> QED BY <2>3
<1>10. B \in SUBSET Nat /\ IsFiniteSet(B) /\ o \in Nat /\ \A x \in B : x < o
  <2>1. o \in Nat /\ (o - 1) + 1 = o
    BY <1>5
  <2>2. B \in SUBSET Nat /\ IsFiniteSet(B) /\ \A x \in B : x < (o - 1) + 1
    BY <1>5, <1>9, LinesAre
  <2> QED BY <2>1, <2>2
<1>11. process \in ProcessT /\ processlist \in Seq(ProcessT)
  BY DEF ListsInv, ListTypes
<1> HIDE DEF B
<1>12. AreProcesses(file, Append(processlist, process), B \cup {o})
  <2>1. AreProcesses(file, processlist, B)
    BY <1>2 DEF B
  <2>2. MeantProcess(file, o) \in ProcessT
    BY <1>8, <1>11
  <2> QED BY <1>8, <1>10, <1>11, <2>1, <2>2, ProcessesMore
<1>13. ListTypes'
  <2>1. Append(processlist, process) \in Seq(ProcessT)
    BY <1>11
  <2> QED BY <1>1, <2>1 DEF ListsInv, ListTypes
<1>14. ErrorsTo(file', configerror', pos')
  BY <1>1, <1>4, <1>5, <1>6, QuietForProcesses
<1>15. ~\E i \in 1..pos' : InBlock(file', i, "Process", pos')
  BY <1>1, <1>4, <1>5, NothingOpens
<1>16. AreProcesses(file', processlist', BlocksTo(file', "Process", pos'))
  BY <1>1, <1>5, <1>9, <1>12
<1>17. line_num' = 2 * Len(file') + pos'
  BY <1>1, <1>5, <1>6
<1>18. ProcessPass'
  BY <1>1, <1>6, <1>14, <1>15, <1>16, <1>17 DEF ProcessPass
<1> QED BY <1>1, <1>13, <1>18 DEF ListsInv, SyntaxPass, CommandPass, Passed

(* In the block of a process a well-formed file has no other keys. *)
LEMMA KeysOfProcess ==
  ASSUME NEW f \in Seq(Line), NEW p \in 0..Len(f) - 1, NEW o \in 1..p,
         InBlock(f, o, "Process", p), f[p + 1].kind = "arg", WellFormed(f)
  PROVE  f[p + 1].key \in {"name", "Command", "arg", "immediate"}
<1>1. o \in DOMAIN f /\ p + 1 \in DOMAIN f /\ Follows(f, o, p + 1)
  BY OneBlock
<1>2. f[o].kind = "open" /\ f[o].tag = "Process"
  BY DEF InBlock
<1>3. cpw_tag_is_arg_allowed("Process", f[p + 1].key)
  BY <1>1, <1>2 DEF WellFormed, ArgsAllowed
<1> QED BY <1>3 DEF cpw_tag_is_arg_allowed, configtags

LEMMA SetProcessValueLists ==
  ASSUME ConfigInv, ListsInv, SetProcessValue
  PROVE  ListsInv'
<1>1. /\ Advance /\ pc = "in_process" /\ pc' = pc /\ line.kind = "arg"
      /\ UNCHANGED <<file, current_tag, command, commandlist, processlist>>
  BY DEF SetProcessValue
<1>a. line.kind = "arg"
  BY <1>1
<1>2. line # Eof
  BY <1>a DEF Eof
<1>3. /\ file \in Seq(Line) /\ Len(file) \in Nat /\ pos \in 0..Len(file) - 1
      /\ line = file[pos + 1] /\ line \in Line /\ pos' = pos + 1 /\ line_num' = line_num + 1
  BY <1>1, <1>2, Counted
<1> DEFINE m   == pos + 1
           key == file[m].key
           v   == file[m].value
           N   == Named(commandlist, v)
           e   == [line |-> line_num', what |-> "not a valid command name"]
<1>4. file[m].kind = "arg" /\ v \in Name
  BY <1>a, <1>3 DEF Line, Blank
<1>5. PICK o \in 1..pos :
        /\ InBlock(file, o, "Process", pos) /\ process = ProcessTo(file, commandlist, o, pos)
        /\ AreProcesses(file, processlist, BlocksTo(file, "Process", o - 1))
  BY <1>1 DEF ListsInv, ProcessPass
<1>6. /\ AreCommands(file, commandlist, BlockLines(file, "Command"))
      /\ HaveNames(file, commandlist, BlockLines(file, "Command"))
      /\ line_num = 2 * Len(file) + pos /\ ErrorsTo(file, configerror, pos)
      /\ current_tag = "Process"
  BY <1>1 DEF ListsInv, ProcessPass
<1>7. process \in ProcessT /\ commandlist \in Seq(CommandT)
      /\ configerror \in Seq(Error) /\ line_num \in Nat
  BY DEF ListsInv, ListTypes, ConfigInv, Types
<1>8. Values(file, Given(file, o, "arg", pos)) \in Seq(Name)
  BY <1>5, <1>7 DEF ProcessT, ProcessTo
<1> DEFINE new == ProcessTo(file, commandlist, o, m)
<1>10. key \in {"name", "Command", "arg", "immediate"}
  BY <1>1, <1>3, <1>4, <1>5, KeysOfProcess DEF ConfigInv, LogicIsWellFormed, Logic
<1>11. m \in InProcess(file, "immediate") <=> key = "immediate"
  BY <1>3, <1>4, <1>5, InProcessIs
<1>12. m \in InProcess(file, "Command") <=> key = "Command"
  BY <1>3, <1>4, <1>5, InProcessIs
<1>13. key # "Command" => m \notin Unresolved(file)
  BY <1>12 DEF Unresolved
<1>14. key = "Command" => (m \in Unresolved(file) <=> new.command = 0)
  <2>1. new.command = CommandOf(file, commandlist, Given(file, o, "Command", m))
    BY DEF ProcessTo
  <2> QED BY <1>3, <1>4, <1>5, <1>6, <1>7, <2>1, UnresolvedIs
<1>15. PICK r \in cpw_process_set_value(process, key, v) :
         process' = r.process /\ ErrorIf(~r.ok, "not a valid command name")
  BY <1>3 DEF SetProcessValue
<1>18. /\ process' = new
       /\ key \in {"arg", "name"} => r.ok
       /\ key = "Command" => (r.ok <=> new.command # 0)
  <2>1. InBlock(file, o, "Process", pos) /\ process = ProcessTo(file, commandlist, o, pos)
    BY <1>5
  <2>2. r.process = new
    BY <1>3, <1>4, <1>8, <1>10, <1>15, <2>1, ProcessGrows
  <2>3. /\ key \in {"arg", "name"} => r.ok
        /\ key = "Command" => (r.ok <=> r.process.command # 0)
    BY <1>3, <1>4, <1>8, <1>10, <1>15, <2>1, ProcessGrows
  <2> QED BY <1>15, <2>2, <2>3
<1>19. /\ r.ok => configerror' = configerror
       /\ ~r.ok => configerror' = Append(configerror, e)
  BY <1>15 DEF ErrorIf, cpw_parsecontext_add_config_error
<1>21. e \in Error
  <2>1. line_num' \in Nat
    BY <1>3, <1>7
  <2> QED BY <2>1 DEF Error, LogicErrors
<1>b. e = [line |-> 2 * Len(file) + m, what |-> "not a valid command name"]
  <2>1. line_num' = 2 * Len(file) + m
    BY <1>3, <1>6, <1>7
  <2> QED BY <2>1
<1> HIDE DEF e
<1>22. ErrorsTo(file, configerror', m)
  <2>1. ToSet(Append(configerror, e)) = ToSet(configerror) \cup {e}
    BY <1>7, <1>21, ToSetAppend
  <2>2. \/ m \in Unresolved(file) /\ ToSet(configerror') = ToSet(configerror) \cup {e}
        \/ m \notin Unresolved(file) /\ ToSet(configerror') = ToSet(configerror)
        \/ /\ m \notin Unresolved(file) /\ m \in InProcess(file, "immediate")
           /\ ToSet(configerror') = ToSet(configerror) \cup {e}
    BY <1>10, <1>11, <1>13, <1>14, <1>18, <1>19, <2>1
  <2> QED BY <1>3, <1>6, <1>b, <2>2, ErrorsGrow
<1>23. ListTypes'
  <2>a. r \in cpw_process_set_value(process, key, v) /\ v \in Name
        /\ key \in {"name", "Command", "arg", "immediate"}
    BY <1>4, <1>10, <1>15
  <2> HIDE DEF key, v
  <2>1. r.process \in ProcessT
    <3>1. Append(process.args, v) \in Seq(Name)
      BY <2>a, <1>7 DEF ProcessT
    <3>2. N # {} => Max(N) \in Nat
      <4>1. {} \in SUBSET Nat /\ 0 \in Nat /\ \A x \in {} : x <= 0
        OBVIOUS
      <4> QED BY <1>7, <4>1, CommandOfIs
    <3>3. CASE key = "name"
      <4>1. r.process = [process EXCEPT !.name = v]
        BY <2>a, <3>3 DEF cpw_process_set_value
      <4> QED BY <2>a, <1>7, <4>1 DEF ProcessT
    <3>4. CASE key = "arg"
      <4> DEFINE a == Append(process.args, v)
      <4>1. r.process = [process EXCEPT !.args = a]
        BY <2>a, <3>4 DEF cpw_process_set_value
      <4> HIDE DEF a
      <4>2. a \in Seq(Name)
        BY <3>1 DEF a
      <4> QED BY <1>7, <4>1, <4>2 DEF ProcessT
    <3>5. CASE key = "immediate"
      <4>1. \E b \in BOOLEAN : r = [process |-> process, ok |-> b]
        BY <2>a, <3>5 DEF cpw_process_set_value
      <4> QED BY <1>7, <4>1
    <3>6. CASE key = "Command"
      <4>1. r = cpw_process_set_command(process, v)
        BY <2>a, <3>6 DEF cpw_process_set_value
      <4>2. r.process = IF N = {} THEN process ELSE [process EXCEPT !.command = Max(N)]
        BY <4>1 DEF cpw_process_set_command, Named
      <4> HIDE DEF N
      <4> QED BY <1>7, <3>2, <4>2 DEF ProcessT
    <3> QED BY <2>a, <3>3, <3>4, <3>5, <3>6
  <2> QED BY <1>1, <1>15, <2>1 DEF ListsInv, ListTypes
<1>24. o \in 1..pos' /\ InBlock(file', o, "Process", pos')
  <2>1. ~IsTag(file, m)
    BY <1>4 DEF IsTag
  <2> QED BY <1>1, <1>3, <1>5, <2>1 DEF InBlock
<1>25. /\ line_num' = 2 * Len(file') + pos' /\ ErrorsTo(file', configerror', pos')
       /\ process' = ProcessTo(file', commandlist', o, pos')
  BY <1>1, <1>3, <1>6, <1>18, <1>22 DEF new
<1>26. ProcessPass'
  BY <1>1, <1>5, <1>6, <1>24, <1>25 DEF ProcessPass
<1> QED BY <1>1, <1>23, <1>26 DEF ListsInv, SyntaxPass, CommandPass, Passed

-----------------------------------------------------------------------------
LEMMA ListsInit == Init => ListsInv
<1> SUFFICES ASSUME Init PROVE ListsInv
  OBVIOUS
<1>1. ListTypes
  BY ConfigAssumption DEF Init, ListTypes, CommandT, ProcessT, cpw_command_new, cpw_process_new
<1> QED BY <1>1 DEF Init, ListsInv, SyntaxPass, CommandPass, ProcessPass, Passed

LEMMA ListsStep ==
  ASSUME ConfigInv, ConfigInv', ListsInv, [Next]_vars
  PROVE  ListsInv'
<1>1. CASE pc = "syntax" /\ (SkipBlank \/ SyntaxOpen \/ SyntaxClose \/ SyntaxArg \/ SyntaxEnd)
  BY <1>1, SyntaxLists
<1>2. CASE pc \in Logic /\ SkipBlank
  BY <1>2, BlankLists
<1>3. CASE SeekPast \/ CommandsEnd \/ ProcessesEnd
  BY <1>3, SeekLists, CommandsEndLists, ProcessesEndLists
<1>4. CASE OpenCommand \/ SetCommandValue \/ CloseCommand
  BY <1>4, OpenCommandLists, SetCommandValueLists, CloseCommandLists
<1>5. CASE OpenProcess \/ SetProcessValue \/ CloseProcess
  BY <1>5, OpenProcessLists, SetProcessValueLists, CloseProcessLists
<1>6. CASE UNCHANGED vars
  BY <1>6 DEF vars, contextvars, listvars, ListsInv, ListTypes, SyntaxPass, CommandPass,
     ProcessPass, Passed
<1>7. /\ SkipBlank => pc = "syntax" \/ pc \in Logic
      /\ SyntaxOpen \/ SyntaxClose \/ SyntaxArg \/ SyntaxEnd => pc = "syntax"
  BY DEF SkipBlank, SyntaxOpen, SyntaxClose, SyntaxArg, SyntaxEnd, Logic
<1> QED BY <1>1, <1>2, <1>3, <1>4, <1>5, <1>6, <1>7 DEF Next

(* The invariant of the two logic passes: the lists and the errors are at  *)
(* every line those of the lines read (config.c:273-340).                  *)
THEOREM ListsInvariance == Spec => []ListsInv
<1>1. ConfigInv /\ ConfigInv' /\ ListsInv /\ [Next]_vars => ListsInv'
  BY ListsStep
<1> QED BY <1>1, ListsInit, ConfigInvariance, PTL DEF Spec

(* ListsAreTheFiles: a valid file leaves the lists it means, however long  *)
(* it is (config.c:282-327).                                               *)
THEOREM ListsAreAlwaysTheFiles == Spec => []ListsAreTheFiles
<1>1. ListsInv => ListsAreTheFiles
  BY DEF ListsInv, Passed, ListsAreTheFiles, AreCommands, AreProcesses, MeantCommands,
     MeantProcesses
<1> QED BY <1>1, ListsInvariance, PTL

(* LogicErrorsAreTheFiles: the logic passes tell the errors that are in    *)
(* the file and no others (config.c:286-290, 320-323).                     *)
THEOREM LogicErrorsAreAlwaysTheFiles == Spec => []LogicErrorsAreTheFiles
<1>1. ConfigInv /\ ListsInv => LogicErrorsAreTheFiles
  <2> SUFFICES ASSUME ConfigInv, ListsInv,
                      pc = "valid" \/ (pc = "invalid" /\ WellFormed(file))
               PROVE  LogicErrorsAreTheFiles
    BY DEF LogicErrorsAreTheFiles
  <2>1. ErrorsTo(file, configerror, Len(file))
    BY DEF ListsInv, Passed
  <2>2. file \in Seq(Line)
    BY DEF ConfigInv, Types
  <2>3. UpTo(Redefined(file), Len(file)) = Redefined(file)
        /\ UpTo(Unresolved(file), Len(file)) = Unresolved(file)
    BY <2>2, ErrorLines, UpToNoneAll
  <2>4. UpTo(InProcess(file, "immediate"), Len(file)) = InProcess(file, "immediate")
    BY <2>2, ErrorLines, UpToNoneAll
  <2> QED BY <2>1, <2>3, <2>4
          DEF LogicErrorsAreTheFiles, ErrorsTo, CommandErrors, ProcessErrors, Doubtful
<1> QED BY <1>1, ListsInvariance, ConfigInvariance, PTL
=============================================================================
