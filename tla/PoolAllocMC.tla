----------------------------- MODULE PoolAllocMC -----------------------------
(***************************************************************************)
(* Command lines of up to MaxOptions options and then up to three other    *)
(* arguments; depths on both sides of each bound of cpw_buflist_new.       *)
(***************************************************************************)
EXTENDS PoolAlloc

CONSTANT MaxOptions

Options == {Opt("q", 0), Opt("v", 0), Opt("c", 0), Opt("f", "my.conf"), Opt("l", 1), Opt("l", 2),
            Opt("l", 8), Opt("l", INT_MAX), Opt("unknown", 0)}
Others == {Opt("ARGP_KEY_ARG", "x")}
Strings(S, n) == UNION {[1..m -> S] : m \in 0..n}
MCCommandLines == {o \o a : o \in Strings(Options, MaxOptions), a \in Strings(Others, 3)}

MCDepths == {-1, 0, 1, 4, 5}
=============================================================================
