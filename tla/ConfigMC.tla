------------------------------ MODULE ConfigMC ------------------------------
(***************************************************************************)
(* All files of up to MaxLines lines, and all files of up to MaxBlocks     *)
(* complete blocks; in both every kind of line occurs.                     *)
(***************************************************************************)
EXTENDS Config

CONSTANTS MaxLines, MaxBlocks

MCTag  == DOMAIN configtags \cup {"Stream"}
MCKey  == {"name", "path", "arg", "Command", "immediate", "PacketSize"}
MCName == {"a", "b", Empty}

AnyLine == {Open("Command", "a"), Open("Process", NoToken), Open("Stream", "a"),
            Close("Command"), Close("Process"), Close("Stream"),
            Arg("name", "b"), Arg("PacketSize", "a"), Blank}

Block(t, n, body) == <<Open(t, n)>> \o body \o <<Close(t)>>

CommandBlocks ==
  {Block("Command", n, b) : n \in {"a", "b", NoToken},
     b \in {<<>>, <<Arg("name", "a")>>, <<Arg("path", "b"), Blank, Arg("arg", "a")>>}}
ProcessBlocks ==
  {Block("Process", n, b) : n \in {"a", NoToken},
     b \in {<<Arg("arg", "a"), Arg("arg", "b")>>, <<Arg("immediate", "a")>>,
            <<Arg("Command", "a")>>,
            <<Arg("Command", "a"), Arg("Command", "b")>>,
            <<Arg("Command", Empty), Arg("name", "b")>>}}
AnyBlock == CommandBlocks \cup ProcessBlocks
              \cup {Block("Stream", "a", <<>>), <<Arg("name", "a"), Blank>>}

MCFiles == UNION {[1..n -> AnyLine] : n \in 0..MaxLines}
             \cup UNION {{FlattenSeq(bs) : bs \in [1..n -> AnyBlock]} : n \in 1..MaxBlocks}
=============================================================================
