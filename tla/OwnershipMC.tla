---------------------------- MODULE OwnershipMC ----------------------------
(***************************************************************************)
(* Five callers, each with memory for what it is after: a context and its  *)
(* config set up twice, what main() does with one file, valid or not, a    *)
(* parse context initialised three times with errors in it, and lists of   *)
(* the caller's own.                                                       *)
(***************************************************************************)
EXTENDS Ownership

Room(counts) == [k \in Kind |-> IF k \in DOMAIN counts THEN counts[k] ELSE 0]

SetUpTwice == Room([context |-> 1, config |-> 2, arguments |-> 1, parsecontext |-> 2,
                    configfile_path |-> 2, stream |-> 1, linetoken |-> 1])

OneFile == Room([context |-> 1, config |-> 1, parsecontext |-> 1, configfile_path |-> 1,
                 stream |-> 1, linetoken |-> 1, command |-> 1, process |-> 1])

BadFile == Room([context |-> 1, config |-> 1, parsecontext |-> 1, configfile_path |-> 1,
                 stream |-> 1, linetoken |-> 1, configerror |-> 1, error_message |-> 1,
                 command |-> 1])

ParseAgain == Room([parsecontext |-> 2, configfile_path |-> 3, stream |-> 3, linetoken |-> 3,
                    token |-> 2, configerror |-> 2, error_message |-> 2])

OwnLists == Room([command |-> 2, process |-> 2, args |-> 2, source |-> 1, output |-> 1])

MCRooms == {SetUpTwice, OneFile, BadFile, ParseAgain, OwnLists}
=============================================================================
