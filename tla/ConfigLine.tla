----------------------------- MODULE ConfigLine -----------------------------
(***************************************************************************)
(* What a line of the configuration file says once it is cut into tokens:  *)
(* the words in which Tokens, which cuts the lines, and Config, which      *)
(* validates the file, speak of it.                                        *)
(***************************************************************************)
CONSTANT NoToken  \* no token where a name may be (tag_name_index is 0)

Open(t, n) == [kind |-> "open", tag |-> t, name |-> n]
Close(t)   == [kind |-> "close", tag |-> t]
Arg(k, v)  == [kind |-> "arg", key |-> k, value |-> v]
=============================================================================
