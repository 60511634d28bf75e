------------------------------- MODULE Tokens -------------------------------
(***************************************************************************)
(* How the configuration file is cut into lines and the lines into tokens  *)
(* (helper.c, cpw_parsecontext_next_token in config.c), and what the       *)
(* passes of module Config take from the tokens of a line.                 *)
(*                                                                         *)
(* A text is a sequence of characters.  A pointer into a string is the     *)
(* rest of the string from there on.                                       *)
(***************************************************************************)
EXTENDS Integers, Sequences, SequencesExt, FiniteSetsExt, ConfigLine

CONSTANTS
  CPW_CONFIG_MAX_LINE_TOKEN,   \* tokens of a line
  CPW_CONFIG_MAX_TAG_LENGTH,   \* room for a token and its NUL
  CPW_CONFIG_MAX_LINE_LENGTH,  \* room for a line and its NUL
  Files  \* the files looked at: the text and, if it was "written" to say
         \* something, what it means

ASSUME TokensAssumption ==
  /\ CPW_CONFIG_MAX_LINE_TOKEN \in Nat \ {0, 1}
  /\ CPW_CONFIG_MAX_TAG_LENGTH \in Nat \ {0, 1}
  /\ CPW_CONFIG_MAX_LINE_LENGTH \in Nat \ {0, 1}

NUL == "NUL"

(* Text files: a NUL would end a line in the middle of it. *)
ASSUME FilesAssumption == \A f \in Files : f.text \in Seq(STRING \ {NUL})

VARIABLES
  file,       \* the file that is read
  pos,        \* characters of it that fgets() has read
  line_num,
  line, p,    \* the line, and the rest of it that is not yet cut up
  linetoken,  \* its tokens
  pc,         \* "fgets", "split", "tag", "token" (next_token returns), "end"
              \* (nothing left), or "overrun" (a token beyond the array is read)
  read,       \* what the lines said
  ends        \* history: where in the line the first token was looked for,
              \* and where each of its tokens ended

vars == <<file, pos, line_num, line, p, linetoken, pc, read, ends>>

At(s, i) == IF i <= Len(s) THEN s[i] ELSE NUL

(* A string up to the first of some of its indices, and from there on; all *)
(* of it and nothing, if there are none.                                   *)
First(s, indices)  == Min(indices \cup {Len(s) + 1})
Before(s, indices) == SubSeq(s, 1, First(s, indices) - 1)
From(s, indices)   == SubSeq(s, First(s, indices), Len(s))

Truncated(s) == SubSeq(s, 1, Min({Len(s), CPW_CONFIG_MAX_TAG_LENGTH - 1}))

cpw_is_space(c) == c \in {" ", "\f", "\n", "\r", "\t", "VT"}
Quotes == {"'", "\""}
cpw_is_tag(s) == At(s, 1) = "<" /\ At(s, 2) \notin {">", NUL, " "}
cpw_is_closing_tag(s) == At(s, 1) = "<" /\ At(s, 2) = "/"
cpw_is_opening_tag(s) == At(s, 1) = "<" /\ At(s, 2) # "/"

SkipSpace(s) == From(s, {i \in DOMAIN s : ~cpw_is_space(s[i])})

Fault_GetArgSkips(s) ==  \* a bare word loses its first character
  LET t      == SkipSpace(s)
      quoted == At(t, 1) \in Quotes
      body   == Tail(t)
      stops  == {i \in DOMAIN body : IF quoted THEN body[i] = t[1] ELSE cpw_is_space(body[i])}
      rest   == From(body, stops)
  IN  [arg  |-> Truncated(Before(body, stops)),
       rest |-> IF quoted /\ rest # <<>> THEN Tail(rest) ELSE rest]

(* The argument at the start of a string, and the rest of the string. *)
cpw_get_arg(s) ==
  LET t      == SkipSpace(s)
      quoted == At(t, 1) \in Quotes
      body   == IF quoted THEN Tail(t) ELSE t
      stops  == {i \in DOMAIN body : IF quoted THEN body[i] = t[1] ELSE cpw_is_space(body[i])}
      rest   == From(body, stops)
  IN  [arg  |-> Truncated(Before(body, stops)),
       rest |-> IF quoted /\ rest # <<>> THEN Tail(rest) ELSE rest]

cpw_get_tag(s) == Truncated(SelectSeq(s, LAMBDA c : c \notin {"<", "/", ">"}))

(* The name a command or a process is given. *)
cpw_command_set_name(name) == Before(name, {i \in DOMAIN name : name[i] = ">"})

Fault_tag_name_index(token) ==  \* the last token is not looked at
  LET stops == {i \in DOMAIN token \ {CPW_CONFIG_MAX_LINE_TOKEN - 1} :
                  token[i] = <<>> \/ ">" \in ToSet(token[i])}
      i     == Min(stops)
  IN  CASE stops = {}                                       -> CPW_CONFIG_MAX_LINE_TOKEN
        [] stops # {} /\ At(token[i], 1) = ">" /\ i >= 2    -> i - 1
        [] stops # {} /\ ~(At(token[i], 1) = ">" /\ i >= 2) -> i

(* The index of the token that ends the tag, or that of the name before a  *)
(* ">" that stands alone.  With no such token it is beyond the array.      *)
cpw_get_tag_name_index(token) ==
  LET stops == {i \in DOMAIN token : token[i] = <<>> \/ ">" \in ToSet(token[i])}
      i     == Min(stops)
  IN  CASE stops = {}                                       -> CPW_CONFIG_MAX_LINE_TOKEN
        [] stops # {} /\ At(token[i], 1) = ">" /\ i >= 2    -> i - 1
        [] stops # {} /\ ~(At(token[i], 1) = ">" /\ i >= 2) -> i

NoTokens == [i \in 0..CPW_CONFIG_MAX_LINE_TOKEN - 1 |-> <<>>]

Init ==
  /\ file \in Files
  /\ pos = 0 /\ line_num = 0
  /\ line = <<>> /\ p = <<>>
  /\ linetoken = [token |-> NoTokens, num |-> 0, is_tag |-> FALSE, tag_name_index |-> 0,
                  is_opening_tag |-> FALSE, is_closing_tag |-> FALSE]
  /\ pc = "fgets"
  /\ read = <<>> /\ ends = <<>>

-----------------------------------------------------------------------------
(* fgets: the next line with its newline, as far as it fits. *)
fgets ==
  LET rest == SubSeq(file.text, pos + 1, Len(file.text))
      end  == First(rest, {i \in DOMAIN rest : rest[i] = "\n"})
  IN  SubSeq(rest, 1, Min({end, Len(rest), CPW_CONFIG_MAX_LINE_LENGTH - 1}))

(* How much of the line has been cut up. *)
Cut == Len(line) - Len(p)

AtEnd(s) == At(s, 1) \in {NUL, "#"}

Fault_NextLineKeepsTokens ==  \* the tokens of the line before are not cleared
  /\ pc = "fgets" /\ fgets # <<>>
  /\ line' = fgets
  /\ pos' = pos + Len(line')
  /\ line_num' = line_num + 1
  /\ p' = SkipSpace(line') /\ ends' = <<Cut'>>
  /\ \/ AtEnd(p') /\ UNCHANGED <<pc, linetoken>>
     \/ ~AtEnd(p') /\ pc' = "split" /\ linetoken' = [linetoken EXCEPT !.num = 0]
  /\ UNCHANGED <<file, read>>

Fault_NextLineCountsTokens ==  \* only lines with tokens are counted
  /\ pc = "fgets" /\ fgets # <<>>
  /\ line' = fgets
  /\ pos' = pos + Len(line')
  /\ p' = SkipSpace(line') /\ ends' = <<Cut'>>
  /\ \/ AtEnd(p') /\ UNCHANGED <<pc, linetoken, line_num>>
     \/ /\ ~AtEnd(p')
        /\ line_num' = line_num + 1
        /\ pc' = "split"
        /\ linetoken' = [linetoken EXCEPT !.token = NoTokens, !.num = 0]
  /\ UNCHANGED <<file, read>>

(* A line of space or comment is passed over; cpw_split_line begins on any *)
(* other.                                                                  *)
NextLine ==
  /\ pc = "fgets" /\ fgets # <<>>
  /\ line' = fgets
  /\ pos' = pos + Len(line')
  /\ line_num' = line_num + 1
  /\ p' = SkipSpace(line') /\ ends' = <<Cut'>>
  /\ \/ AtEnd(p') /\ UNCHANGED <<pc, linetoken>>
     \/ /\ ~AtEnd(p')
        /\ pc' = "split"
        /\ linetoken' = [linetoken EXCEPT !.token = NoTokens, !.num = 0]
  /\ UNCHANGED <<file, read>>

NoMoreLines ==
  /\ pc = "fgets" /\ fgets = <<>>
  /\ pc' = "end"
  /\ UNCHANGED <<file, pos, line_num, line, p, linetoken, read, ends>>

(* The loop of cpw_split_line. *)
SplitToken ==
  /\ pc = "split" /\ linetoken.num < CPW_CONFIG_MAX_LINE_TOKEN
  /\ ~AtEnd(SkipSpace(p))
  /\ UNCHANGED <<file, pos, line_num, line, pc, read>>
  /\ LET found == cpw_get_arg(SkipSpace(p)) IN
     /\ linetoken' = [linetoken EXCEPT !.token[linetoken.num] = found.arg, !.num = @ + 1]
     /\ p' = found.rest
     /\ ends' = Append(ends, Cut')

SplitDone ==
  /\ pc = "split"
  /\ linetoken.num = CPW_CONFIG_MAX_LINE_TOKEN \/ AtEnd(SkipSpace(p))
  /\ pc' = "tag"
  /\ UNCHANGED <<file, pos, line_num, line, p, linetoken, read, ends>>

(* What kind of line it is. *)
Classify ==
  LET token == linetoken.token
      index == cpw_get_tag_name_index(token)
      Is(tag, opening, closing, i) ==
        linetoken' = [linetoken EXCEPT !.is_tag = tag, !.is_opening_tag = opening,
                                       !.is_closing_tag = closing, !.tag_name_index = i]
  IN
  /\ pc = "tag"
  /\ \/ /\ cpw_is_tag(token[0]) /\ cpw_is_opening_tag(token[0])
        /\ \/ index \in DOMAIN token /\ Is(TRUE, TRUE, FALSE, index) /\ pc' = "token"
           \/ index \notin DOMAIN token /\ pc' = "overrun" /\ UNCHANGED linetoken
     \/ /\ cpw_is_tag(token[0]) /\ cpw_is_closing_tag(token[0])
        /\ Is(TRUE, FALSE, TRUE, 0) /\ pc' = "token"
     \/ ~cpw_is_tag(token[0]) /\ Is(FALSE, FALSE, FALSE, 0) /\ pc' = "token"
  /\ UNCHANGED <<file, pos, line_num, line, p, read, ends>>

(* What the passes take from the tokens. *)
Said ==
  LET token == linetoken.token
      index == linetoken.tag_name_index
      name  == IF index = 0 THEN NoToken ELSE cpw_command_set_name(token[index])
  IN  CASE linetoken.is_opening_tag -> Open(cpw_get_tag(token[0]), name)
        [] linetoken.is_closing_tag -> Close(cpw_get_tag(token[0]))
        [] ~linetoken.is_tag        -> Arg(token[0], token[1])

TakeTokens ==
  /\ pc = "token"
  /\ read' = Append(read, Said)
  /\ pc' = "fgets"
  /\ UNCHANGED <<file, pos, line_num, line, p, linetoken, ends>>

Next == NextLine \/ NoMoreLines \/ SplitToken \/ SplitDone \/ Classify \/ TakeTokens

Spec == Init /\ [][Next]_vars

-----------------------------------------------------------------------------
(* What was written is what is read: tags, names, keys and values, however *)
(* they are indented, quoted and commented, and whatever stood on the line *)
(* before, whose tokens are still in the array (helper.c:130-153).         *)
WrittenIsRead ==
  file.written => /\ IsPrefix(read, file.means)
                  /\ pc = "end" => read = file.means

(* From o on there is space in a string, and from "from" to "to" a word:   *)
(* all up to the next space, or between two quotes of a kind, the second   *)
(* of which may be missing at the end.                                     *)
BareWord(s, o, from, to) ==
  /\ from < to /\ s[from + 1] \notin Quotes
  /\ \A i \in o + 1..from : cpw_is_space(s[i])
  /\ \A i \in from + 1..to : ~cpw_is_space(s[i])
  /\ to < Len(s) => cpw_is_space(s[to + 1])

QuotedWord(s, o, from, to) ==
  /\ o < from /\ from <= to /\ s[from] \in Quotes
  /\ \A i \in o + 1..from - 1 : cpw_is_space(s[i])
  /\ \A i \in from + 1..to : s[i] # s[from]
  /\ to < Len(s) => s[to + 1] = s[from]

IsWord(s, word, o, r) ==
  \E from, to \in o..r :
    /\ word = Truncated(SubSeq(s, from + 1, to))
    /\ \/ BareWord(s, o, from, to) /\ r = to
       \/ QuotedWord(s, o, from, to) /\ r = Min({to + 1, Len(s)})

(* The tokens are the words of the line, all of them in their order, each  *)
(* whole or cut because it is too long.  Nothing follows the last but a    *)
(* comment, if there was room for another (helper.c:45-70, 142-152).       *)
TokensAreWords ==
  LET num == linetoken.num IN
  pc \in {"split", "tag", "token", "overrun"} =>
    /\ \A i \in 1..ends[1] : cpw_is_space(line[i])
    /\ \A k \in 1..num : IsWord(line, linetoken.token[k - 1], ends[k], ends[k + 1])
    /\ ends[num + 1] = Cut
    /\ pc # "split" => num = CPW_CONFIG_MAX_LINE_TOKEN \/ AtEnd(SkipSpace(p))

(* A line ends at a newline, at the end of the file, and wherever fgets()  *)
(* has no more room for it.                                                *)
LineStart(i) == Max({j \in 1..i - 1 : file.text[j] = "\n"} \cup {0})
EndsLine(i) ==
  \/ file.text[i] = "\n" \/ i = Len(file.text)
  \/ (i - LineStart(i)) % (CPW_CONFIG_MAX_LINE_LENGTH - 1) = 0

(* The line number counts every line of the file once, blank or not, and a *)
(* line longer than the buffer once for each part fgets() made of it       *)
(* (config.c:149-155).                                                     *)
LinesAreCounted == line_num = Cardinality({i \in 1..pos : EndsLine(i)})

(* Every token has room for its NUL, and a token beyond the array is only  *)
(* looked at (helper.c:165) for a line with as many words as the array     *)
(* holds, of which none shows the end of the tag: there is no ">" in them, *)
(* or a word too long has lost it (helper.c:61-66, 158-188).               *)
StaysInArrays ==
  LET token == linetoken.token IN
  /\ linetoken.num \in 0..CPW_CONFIG_MAX_LINE_TOKEN
  /\ \A i \in DOMAIN token : Len(token[i]) < CPW_CONFIG_MAX_TAG_LENGTH
  /\ pc = "overrun" =>
       /\ token[CPW_CONFIG_MAX_LINE_TOKEN - 1] # <<>>
       /\ \/ ">" \notin ToSet(SubSeq(line, 1, Cut))
          \/ \E i \in DOMAIN token : Len(token[i]) = CPW_CONFIG_MAX_TAG_LENGTH - 1
=============================================================================
