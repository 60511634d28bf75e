------------------------------ MODULE TokensMC ------------------------------
(***************************************************************************)
(* Files of up to two lines written in every style, with what they mean,   *)
(* and all short texts over a few characters.                              *)
(***************************************************************************)
EXTENDS Tokens

CONSTANT MaxText  \* characters of an arbitrary text

Style(texts, meaning) == {[text |-> t, written |-> TRUE, means |-> meaning] : t \in texts}
Pad == {<<>>, <<" ">>}
End == {<<>>, <<" ", "#", ">">>}
T == <<"T">>

(* <T>, <T n>, <T n >, <T 'n n'>, each indented or not, with a comment or not *)
Opens ==
  Style({a \o <<"<">> \o T \o <<">">> \o e : a \in Pad, e \in End}, <<Open(T, NoToken)>>)
    \cup Style({a \o <<"<">> \o T \o <<" ", "n">> \o b \o <<">">> \o e :
                  a \in Pad, b \in Pad, e \in End}, <<Open(T, <<"n">>)>>)
    \cup Style({<<"<">> \o T \o <<" ", q, "n", " ", "n", q>> \o b \o <<">">> :
                  q \in {"'", "\""}, b \in Pad}, <<Open(T, <<"n", " ", "n">>)>>)
Closes == Style({a \o <<"<", "/">> \o T \o b \o <<">">> \o e :
                   a \in Pad, b \in Pad, e \in End}, <<Close(T)>>)

Bare   == {<<"<", "a", ">">>, <<"a", "#">>, <<"a", "'", "a">>}
InQuotes == {<<>>, <<"a", " ", "#">>, <<"a", "\"">>, <<"<", " ", "a", ">">>}
Args ==
  UNION {Style({a \o <<"k", " ">> \o v \o e : a \in Pad, e \in End}, <<Arg(<<"k">>, v)>>) :
           v \in Bare}
    \cup UNION {Style({<<"k">> \o b \o <<" ", "'">> \o v \o <<"'">> \o e : b \in Pad, e \in End},
                      <<Arg(<<"k">>, v)>>) : v \in InQuotes}
    \cup Style({<<"k">>}, <<Arg(<<"k">>, <<>>)>>)
    \cup Style({<<"k", "k", "k", "k", "k", "k", "k", "k", " ", "a">>},
               <<Arg(<<"k", "k", "k", "k", "k", "k">>, <<"a">>)>>)
    \cup Style({<<"<", " ", ">">>}, <<Arg(<<"<">>, <<">">>)>>)
Blanks == Style({<<>>, <<" ">>, <<" ", "#", "k">>}, <<>>)

Lines == Opens \cup Closes \cup Args \cup Blanks

Written ==
  {[text |-> f.text \o <<"\n">> \o g.text \o end, written |-> TRUE, means |-> f.means \o g.means] :
     f \in Lines, g \in Lines, end \in {<<>>, <<"\n">>}}

Char == {"a", " ", "'", "#", "<", ">", "/", "\n"}
Unwritten(texts) == {[text |-> t, written |-> FALSE, means |-> <<>>] : t \in texts}
Short == UNION {[1..n -> Char] : n \in 0..MaxText}

(* Tags of as many words as there is room for, with ">" in one of them or  *)
(* not, and behind so many that it is lost; names with odd characters; and *)
(* "<T>" after a line longer than the buffer.                              *)
Words == {<<"a">>, <<">">>, <<"a", "/", ">">>, <<"<", "a", ">">>,
          <<"a", "a", "a", "a", "a", "a", ">">>}
Full == {<<"<", "T">> \o FlattenSeq([i \in DOMAIN ws |-> <<" ">> \o ws[i]]) \o end :
           ws \in UNION {[1..n -> Words] : n \in 1..4}, end \in {<<>>, <<" ", "a">>}}
Long == {<<"k">> \o [i \in 1..n |-> " "] \o <<"\n", "<", "T", ">">> : n \in 12..32}

MCFiles == Written \cup Unwritten(Short \cup Full \cup Long)
=============================================================================
