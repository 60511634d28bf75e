# A verification of cpw

cpw relays video frames. It reads bytes from a named pipe, `/tmp/input01`,
into a small pool of frame buffers, and writes complete frames to another,
`/tmp/output01`. It is one thread around one `pselect()`, with a signal
handler. Before the relay starts it reads a configuration file of commands and
processes. This directory holds TLA+ modules translated from its C sources,
the configurations with which TLC checks them, and proofs for TLAPS.

Sources are named as in `PROJECT.json` (`src/src/pipe.c` is `src/pipe.c` of the
repository).

## The system

| Part | State | Operations | Interacts through |
|---|---|---|---|
| Buffer pool (`pipe.c` 41-132, 217-357) | two lists of buffers, `empty` and `inuse`; per buffer `pos` and the bytes | fill the head of `empty`, drain the head of `inuse`, move a buffer to the tail of the other list, free all | the pool is shared by the input and the output pipe (`cpw.c:118`) |
| Pipes (`pipe.c` 16-215) | descriptor, status, name, pool | create, register, read, end of file and reopen, write, free | FIFOs of the kernel, whose other ends are other processes |
| Main loop (`cpw.c` 63-228) | the two sets given to `pselect`, the lists of pipes | build the sets, wait, write, read, test `last_signum`; shut down | all of the above; signals |
| Signals (`cpw.c` 23-50, 219-226) | `count`, `last_signum`, dispositions | take over, count, remember; signal the process group | interrupt the main loop, and each other, anywhere |
| Lists (`utlist.h`) | next and prev pointers | append, delete, search, walk and free | the pool, the configuration |
| Hash tables (`uthash.h`) | links, buckets, counts | add, grow, walk | the two global lists of pipes |
| Configuration (`config.c`, `helper.c`) | parse context: line, tokens, tag, error list | cut lines into tokens, tell tags, check the syntax, check the meaning and build the lists | commands and processes |
| Commands, processes (`command.c`, `process.c`, `commandarg.c`) | lists of commands, processes, arguments | create, name, set, find, add, free | built by the configuration; nothing in `main` starts a process |
| Command line, log, context (`arg.c`, `log.c`, `context.c`) | options, a level, a function to log with | parse, print, allocate and free | decide with the configuration whether the pipes are made |

What is hard in it:

- several processes and a signal interleave with the system calls of the loop;
- a pool shared by two pipes, moved about by one of them between the moment
  `pselect` reports and the moment its report is used;
- one field, `pos`, that means two things, and reads and writes of any length;
- an end of file after which the FIFO is closed and opened anew, while
  producers come and go;
- failures in the middle: an output nobody reads, a reopening that fails, a
  consumer that leaves, memory that runs out;
- a flag set by a signal and tested once a turn, with a sleep in between;
  handlers that interrupt each other in the middle of `count++`;
- lists and a hash table freed while they are walked, or whose keys change
  while they are in it;
- fixed arrays: tokens that are cut, lines that come in parts, more words than
  there are tokens, and one array of tokens for all lines.

What makes each part correct: of the pool, that no buffer is lost or in two
places and that bytes leave in order, once, in whole frames; of the loop, that
it always waits for what it can act on, makes progress, does not spin, and ends
when told; of signals, that ignored ones stay ignored, that none kills cpw
before it has cleaned up, and what the count may be; of shutdown and of the
error paths, that everything is freed once; of the lists, that the pointers are
the sequences the callers mean; of the configuration, that what was written is
what is read and that what the validator accepts is what the lists then hold;
of the start, that no pipe is made without a valid file and what it takes to read
it, and that a failure is explained; of the memory, that nothing is freed while
it is used, and which losses there are.
`PROJECT.json` lists the hazards one by one, at the line where each bites.

## Modules

| Module | What it is |
|---|---|
| `FrameRelay` | Abstract specification: bytes come in, only bytes of complete frames go out, in order. No buffers. |
| `BufList` | The pool and the data path, under any caller. Refines `FrameRelay`. |
| `Relay` | The program around the pool: set-up, loop, handler, shutdown; the two FIFOs, a producer, a consumer. Extends `BufList` and is shown to use it as it may be used. |
| `Signals` | Dispositions, the handler instruction by instruction, the end of `main`. |
| `PoolAlloc` | Set-up of the pipes and the pool when an allocation fails, with what the error paths free. Extends `Startup` and goes on where it ends. |
| `Utlist` | The list macros, pointer by pointer, beside the sequences they stand for. |
| `Registry` | A global list of pipes: a growing hash table, and the loop that frees it. |
| `Startup` | From `main` to the pipes: context, command line, log level, parse context, and how the program goes on. |
| `Tokens` | How a file is cut into lines and tokens, and what a line says. |
| `ConfigLine` | The lines: what `Tokens` produces and `Config` reads. |
| `Config` | The validator of the configuration file: syntax pass, logic passes, the lists they build. |
| `Ownership` | The memory of contexts, parse contexts, commands and processes. |
| `...MC` | The instances TLC checks, where they need definitions. |
| `RelayProofs` (with those of the pool), `SignalsProofs`, `UtlistProofs`, `StartupProofs` (with those of `PoolAlloc`), `TokensProofs`, `ConfigProofs`, `RegistryProofs`, `OwnershipProofs` | The proofs. |

How they fit together. `Relay` composes `BufList` with the loop and the world.
Parts of `Relay` are taken apart elsewhere: what it takes for one step of a
signal is `Signals`, the moves between the lists of the pool are `Utlist`, the
pipe of each kind it has is one of many in `Registry`. `PoolAlloc` composes
`Startup` with the allocations that follow it: they share `pc` and `out`, and the
place where `Startup` is done, "running", is where the first pipe is allocated.
It ends where `Relay` starts. `Tokens` ends in the lines that `Config` begins with, in the terms of `ConfigLine`; what
`Config` finds is, for `Startup`, valid or not. `Config` shares no state with
the relay (`cpw_config_parse`, which would use the lists, is empty).

### BufList

Lists are sequences of buffer numbers. A byte is represented by its number in
the order of reading, so `data` tells which byte lies where, and `out`, the
history of what was written, is right exactly when its n-th element is n.
`empty`, `inuse` and `pos` are the fields of the code; `data` the memory behind
`buf`; `freed`, `nread` and `out` are histories. The operators carry the names
of the functions. `Fill` and `Drain` are the part of `cpw_pipe_read` and
`cpw_pipe_write` after a positive result, up to and including the move of the
buffer. The result of the system call is a parameter: in `PoolSpec` any value
the buffer has room for, in `Relay` what the FIFO can give.

Left out: the NULL tests on the pool, the pipe and `buf` (all allocated once
set-up has succeeded), and log output. The `numbuf` field is never used.

### Relay

`pc` is the statement about to run. There is a step per system call, because
that is where the world outside can come between:

    create_in -> create_out -> watch -> select [-> asleep] -> write -> read
      -> (at end of file: close -> reopen) -> check -> watch ...
                                                    -> free_in -> free_out -> kill -> exited

`failed`, `aborted` and `killed` are the other ends: `exit(1)` in set-up, the
abort of a fortified `FD_SET` or `FD_ISSET`, SIGPIPE. On descriptor -1 both are
undefined behaviour (`cpw.c:151`, 161, 176, 185); the outcomes are the abort and a
bit outside what `pselect` looks at. `infd` and `outfd` keep apart "closed by the program" and
"-1 after a failed open". `status` of a pipe follows `fd` and is never read.

The FIFOs, which are not part of the repository, behave as on Linux:

- the read end is ready when there are bytes, or when no writer is left and
  there has been one since cpw opened it (`hup`); `read` then returns 0, or
  EAGAIN if a producer came meanwhile;
- the write end is ready when there is room or when no reader is left; `write`
  then raises SIGPIPE (or fails if SIGPIPE was inherited ignored);
- opening the write end fails if no process reads or is about to;
- bytes survive in a FIFO as long as some process has it open.

The producer and the consumer are any processes: they come, transfer bytes and
leave at any time, one of each at a time. They move one byte per step; cpw sees
several steps as one transfer. After the program has ended, they stop.
The loops over the pipes are a loop over one pipe of each kind, as `main` sets
it up.

### Signals

`disposition` is what the kernel does with a signal, `pending` what it holds,
`stack` the handlers that run, each interrupted by the next: `sa_mask` is
empty, so only the signal itself is blocked. `count++` is a load and a store of
the handler on top. `cpw_init` takes over SIGINT, SIGHUP and SIGTERM one after
the other, unless ignored. `kill(0, SIGTERM)` sends cpw its own signal. Of the
main loop there is what matters to a signal: pselect, asleep, check.
`handled` and `episodes` are histories: handlers begun, and begun in `main`.

### PoolAlloc

`Spec` is the start of the program from the first call of `main` to the main
loop: a step of `Startup`, or once that has arrived at "running" one of the
set-up. The heap is a function from named objects (the struct, name and pool of the
pipes, the struct and memory of each buffer) to "none", "live" or "freed"; `pc`
names the allocation or the free about to happen. An action is one allocation,
with both its results, or one free. `badfree` is a history: something was freed
that was not live. `nextbuf` is the loop variable of `cpw_buflist_init`. A set-up
that fails ends the program at "failure" with its message in `out`. The FIFOs
play no part and are left out.

### Utlist

`head`, `next` and `prev` are the pointers; `lists` is what the callers mean,
written beside them and never read by them. DL_APPEND and DL_DELETE are single
steps. LL_APPEND, LL_DELETE, the search, the count and the loop that deletes
and frees every element take a step per element, with `tmp` and `el` as in the
macros. Memory nobody wrote holds anything (`Garbage`), and an element in no
list may become anything (`Reuse`): a pointer into freed memory shows.

### Registry

The handle of each pipe (`hh`: prev, next, and the hash value saved when it was
added), the list (`head`, `tbl.tail`), and the table (`tbl`) with its counts,
limits and chains, by the fields of the code. The hash function is any function
of the descriptor: a pipe has `key`, the hash of the descriptor it has now,
which a reopening changes (`pipe.c:74`) while `hh[p].hashv` stays. A chain is a
set: where in its chain a pipe stands nothing the program does depends on. What
an expansion leaves in a new bucket is therefore a function of the set that
comes to it (`Moved`).

### Startup

`pc` is the next call of `main` or of argp, or how the program ended; `has` is
what could be had of memory and files. One option is one step. `-f` is any
file; what is in it is "valid" or "invalid", and the crash that `Tokens` shows
to be possible is possible here too. `int` has its width: `log_level * 8` wraps
round. `out` is the set of the levels of the messages printed. The module has no
`Spec` of its own: it is the first part of that of `PoolAlloc`.

### Tokens

A text is a sequence of characters, and a pointer into a string is the rest of
the string from there. `pc` goes from `fgets` to `split`, with a step for every
token, to `tag` and to `token`, where a pass looks at the tokens, or to
`overrun`, where `cpw_get_tag_name_index` would read the pointer behind the
array. `linetoken` is one array for all lines, as in the code. The loops over the
characters of a string are sets of indices, cut at the first (`First`). `ends` is
a history: where in the line the pointer stood at first and after each token.
That files are text files, without a NUL, is `FilesAssumption`.

What a word is, is defined beside the code by positions in the line (`IsWord`):
all up to the next space, or between two quotes of a kind.

### Config

A file is a sequence of lines, a line what `Tokens` makes of it: opening
tag with the name token, closing tag, key and value, or blank. `pc` is the loop
that calls `cpw_parsecontext_next_token`; an action is one call with everything
done before the next. `pos` stands for the stream and goes back to 0 at
`rewind()`; `line_num` does not. Commands are pointed to by their place in
`commandlist`. Names equal for `strcasecmp` are one value. Left out: the
lengths of names, allocations that fail, and the printing of errors.
`cpw_process_set_immediate` has no return statement: its result is any, as with
undefined behaviour.

What a file means is defined beside the passes, over the whole file at once
(`WellFormed`, `MeantCommands`, `MeantProcesses`, `Redefined`, `Unresolved`),
and the passes are compared with it. A block is the line of its opening tag
there, and the blocks of a file in their order are the set of these lines sorted
(`Ordered`). That a set of lines grows at its end by one is then all the proofs
need to know; no definition folds over the file.

### Ownership

An object is the number of its allocation, and the caller is object 1. The
pointers between them are `points`, a set of edges: a field that is NULL has none.
The `kind` of an object is the name of the field it is in. A call is a `Change`:
what it allocates, what it frees, which pointers it clears or overwrites and which
it sets. So that an init that does not look at what a field held before loses it
here as in the code, and `cpw_context_free` frees a config without the parse
context and the lists in it (`context.c:24`, `cpw.c:222`).

The functions are called in any order and as often as the caller likes, an init
for the second time included. A parse context is the caller's own or that of the
config; the lists of commands and processes are the caller's own where a call
changes or frees what is in them, for that is the only use the program and its
tests make of these functions. The caller has room for one pointer of each kind.
The validator stands here for what it allocates: any commands, processes and
arguments, and an error. `crashed` says that a call followed a null pointer or
read beyond the tokens; the program is then over. `room` bounds the allocations.

An object is lost when no object that is live points to it (`Lost`).
`HeldIsLive` speaks of the pointers of what is not lost; `LossesAreKnown` is an
action property: it names, for every step, the fields whose loss is known.
`Dropped` are those of a structure that is freed, `Forgotten` those of one that
goes on.

## Runs

Every run ends without an error except `relay_ctrl_c` and `quiet`.

| Run | Question |
|---|---|
| `pool` | Do the lists and the data stay right under every sequence of reads, writes and frees, and does the pool implement `FrameRelay`? |
| `relay_safety` | With `malloc` and `open` failing, a signal anywhere, two producers and two consumers: are the reported sets still valid when used, is there always something to wait for, is the pool freed once, is no byte of the first producer lost, and is the pool used as it may be? |
| `relay_liveness` | Do frames get out and input get in, does the loop become quiet, does it react to signals? |
| `relay_ctrl_c` | Does a signal taken in the main loop end cpw, as its own message says? Violated: a lost wake-up. |
| `signals` | With up to four signals at any instruction: what may the count be, do ignored ones stay ignored, can one kill cpw before it has cleaned up, and does cpw survive the SIGTERM it sends? |
| `startup` | For every short command line, whatever is missing and whichever allocation fails: when are the pipes made, when does `-c` succeed, does a failure say why where errors are shown, is everything of the pipes and the pool freed that the code frees at all and nothing twice, and does the main loop get all the buffers asked for? |
| `quiet` | Does `-q` print nothing, as its help says? Violated: the option is never read. |
| `utlist` | Are the pointers the lists the callers mean after any calls, on memory that held something else; do searches find, and loops end? |
| `registry` | Is a hash table right after it has grown, with keys that changed in it; are its chains as short as it promises; is every pipe freed once by the loop that walks it? |
| `tokens` | Is what was written what is read, in every style; are the tokens the words of the line, are lines counted once, and when is a token beyond the array looked at? |
| `config` | Does the syntax pass let exactly the well-formed files through and report the first fault first; do blocks end at their tag in the logic passes; are the lists and the errors those the file means? |
| `ownership` | In every order of calls, each as often as one likes: is nothing freed twice or held afterwards, and which call loses what? |

`relay_ctrl_c` is a finding: it checks what a message of the program says of it
(`cpw.c:138`) and ends in a counterexample. Signals are not blocked while cpw
works, `pselect` is called with no mask, and `last_signum` is tested before it:
a signal that arrives after the test is handled, counted, and slept over. A
second signal or the next byte ends cpw. `StopsOrSleeps`, which holds, is what
remains true.

`quiet` is a finding as well: it has the system of `startup`, and what the help
says of `-q` (`arg.c:24`), "Don't produce any output", as its property. The
option is stored (`arg.c:43`) and never read. `FailuresAreTold` is therefore
claimed for command lines without `-q` and `-s` only: with them a failure is told
by the code and should not be by the help.

Deadlock is checked in `pool` and `utlist`. The other runs do not check for it, because the
system may stop there: the program ends (`signals`, `startup`, `quiet`,
`config`, `tokens`, `registry`), it crashes or the allocations are used up
(`ownership`), or cpw sleeps with nobody at the other ends (`relay_*`).
`NeverSleepsOnNothing`, `EventuallyQuiet` and `Finishes` take its place.

Each property has a mutant in `PROJECT.json`: a `Fault_` operator, defined just
before the definition it replaces, with which TLC finds the property violated.

### Bounds

| Run | Bound | Why it is enough |
|---|---|---|
| `pool` | 3 buffers of 3 bytes, 21 bytes | a buffer has bytes before and after the point where it stops being the head, the pool can be partly and completely full, each buffer is used more than twice |
| `relay_safety` | 2 buffers of 2 bytes, 6 bytes; FIFOs of 3 and 2; 2 producers, 2 consumers, 1 signal | the depth is the program's (`PIPE_BUF_DEPTH`); 6 bytes are more than the pool holds; one FIFO is larger than a frame; two producers are the least for an end of file with a successor, two consumers for a FIFO a new consumer finds full; a second signal changes only `count` |
| `relay_liveness`, `relay_ctrl_c` | as above with 5 bytes, 1 consumer, FIFOs of 2 and 1 | writes are partial; one consumer may stay or leave |
| `signals` | 4 signals sent, of 3 kinds | all three handlers can be on the stack, with the first pending again |
| `startup`, `quiet` | up to 3 options and 3 arguments; `INT_MAX` 2047; depths -1, 0, 1, 4 and 5, at most 4 | options can be repeated and overridden; one argument more than the two the program takes; the level wraps round, as it does at 2^31 - 1; each bound of the check of the depth is passed on both sides, and the failing buffer is first, middle or last |
| `utlist` | 3 elements; two doubly-linked heads, one singly-linked; garbage: NULL or one of the elements | head, middle and tail are different elements, and elements move between two lists |
| `registry` | 5 pipes, hash values 0 to 3, 1 reopening; 1 bucket and a threshold of 1 at first (32 and 10 in `uthash.h`) | the table doubles several times, in place of the ten pipes in one bucket it would take, and can give up growing |
| `tokens` | 5 tokens, as in the program; tokens of 7 and lines of 16 characters (64 and more in the program); all texts of up to 5 of 8 characters, files of two lines in every style | tokens are cut, lines come in up to three parts, all tokens are used up |
| `config` | all files of up to 4 lines of 9 kinds; all of up to 3 of 21 blocks | four lines are enough for a tag in a tag with both closing tags, three blocks for two commands of one name and a process, in any order |
| `ownership` | five callers, each with memory for certain kinds (`OwnershipMC`): a context with two configs and parse contexts; one valid file; one with an error; a parse context initialised three times, with 2 errors; 2 commands and a process with arguments. 1 token, at most 2 definitions by a file | each loss that `Dropped` and `Forgotten` name happens with one of them: a second init of each kind, a free of all that has parts, a process that uses a command of a list; memory for one kind runs out while there is still some for the next, which is a failing allocation at every place |

### Fairness

`FairSpec` of `Relay` assumes weak fairness of the steps of `main`, which is one
process the kernel schedules whenever it is not blocked, and of a consumer that
has the output open and something to read. Nothing is assumed of producers,
signals, comings and goings. `FramesDelivered` and `InputDrained` therefore
allow for a consumer that leaves, and `EventuallyQuiet` uses that producers,
consumers and signals are finitely many (the bounds): it says the program does
not keep itself busy. It is claimed for the default action of SIGPIPE only:
with SIGPIPE ignored cpw retries a failing write without pause when the
consumer has left.

`Spec` of `Signals` assumes that the process, in `main` or in a handler, runs on
when it can, and that the kernel delivers what is pending; that a pipe gets
ready is not assumed. `FairSpec` of `Utlist` assumes that a loop once begun runs
on, as it does in one thread; `LoopsEnd` then says that its pointers lead to
the end.

## Proofs

`RelayProofs` first proves of the pool, for every `Depth` and `FrameSize` above 0 and every
`MaxBytes` (the assumptions named in `BufList`), that `PoolInv` is an invariant
of `PoolSpec`, and from it `TypeOK`, `Partition`, `AlwaysRoom` and `InOrder`,
and that `PoolSpec` implements `FrameRelay`. `InOrder` alone is not inductive:
it says nothing of the bytes still in the buffers. `FrameChain` says it: full
frames are runs of consecutive bytes, each follows its predecessor in the list,
the first begins where `out` ends, the last ends where the frame being
collected begins. That the right buffer is looked at needs `Partition` (moving
one buffer leaves the others alone) and `AlwaysRoom` (only heads have a
position other than 0). The chain is stated between neighbours, and `Complete`
between each frame and the end, so that no induction over the list is needed.
The proof first decides, with the invariant, the tests of the code that always
succeed (`ReadCases`, `WriteCases`): a step then finishes a buffer or advances
in it, and each of these four cases, and freeing, has a lemma. The refinement
maps the abstract `ready` to the bytes read less those of the unfinished frame.

It then shows that each step of the program, the handler and the world is
a step of the pool or leaves it alone; the only invariant needed is that bytes
read, lost and in the FIFO stay within the bound. Hence `Spec => RelaySpec` and
the order and partition properties for the whole program, for all sizes of the
FIFOs, numbers of producers, consumers and signals, and with failures.

The other safety properties of the program follow from `RelayInv`: to `PoolInv` it adds which pipes the sets hold between their making
and their use (`LoopState`), when the pool is there and that its buffers are
then all in the two lists (`PoolState`), whose bytes may be in the input FIFO at
each place of `main` (`SessionState`), and that with no output the pool holds
all that was read (`NoFlowState`). A write moves buffers only from `inuse` to
`empty`, which is why a set bit for the read survives it (`WriteEffect`).

`SignalsProofs`: `SignalsInv` says what disposition each signal has, by how far
`cpw_init` has come, so that only signals that were not ignored are pending,
handled and remembered; `IgnoredDoNotStop` and `KilledOnlyEarly` follow. For
`CountIsInBounds`, `CountInv` relates `count`, and the value each interrupted
handler has loaded, to the stores still to come below it on the stack
(`Above`), and to what had been counted when `main` was interrupted (`Below`).
It holds for any number of signals.

`UtlistProofs`: the pointers are the lists for any number of elements and heads
and any garbage. That an operation on one list leaves the others alone needs
`InOneList`; that a loop links or unlinks the right element needs to be told
where it stands (`LoopInv`). Each macro has a lemma about what it does to a
sequence read along its pointers.

`StartupProofs`: from the first call of `main` to the main loop, for command
lines of any length and every depth. `StartupInv` ties the arguments to the part
of the command line that is parsed (`Parsed`); `ToldInv` ties the level of the
log to them. The latter needs an `INT_MAX` that the default level fits
(`StartupAssumption`), as every C compiler has. At each place of the set-up
`AllocInv` says which parts of the pipes are live (`PipesAre`), that frames are
live only of buffers in the list and freed only when the list is gone
(`FramesAre`), and how far the loop has come (`DepthIs`). `HeapInv` joins the two
parts: nothing of the heap is asked for before "running", and from there on
everything `Startup` had to get is there. So `RunsOnlyWhenReady` speaks of the
heap, and `FailuresAreTold` of the failures of both parts. That a buffer without
memory comes with an error (`PoolIsComplete`) is `BuffersAre`, beside the invariant.

`TokensProofs`: for files of any text and any number and size of tokens and
lines. `TokensInv` says that p is what is left of the line behind the characters
cut up so far (`CutTo`), that the tokens are the words up to there and the others
empty (`Words`), and that reading has stopped where a line may end (`ReadTo`).
Three lemmas carry it. `GetArgIs` finds the word in what `cpw_get_arg` does with
its pointer, `WordOfRest` moves it from the rest of the line to the line, and
`NextEnd` shows that `fgets` stops at the next place that `EndsLine` counts, by
the newline before it, the same for all positions of the line, and arithmetic
modulo the buffer. A "`>`" in the line that is in no token was in a word that was
cut (`TagEndIsKept`): this gives `StaysInArrays`. What a set of indices has for its
first element is proved once, from the order of the numbers (`MinIs`).

`ConfigProofs` proves, for every set of files of any length and every set of
tags, keys and names that `ConfigAssumption` and `FilesAssumption` allow, that
`SyntaxDecides` and `BlocksEndAtTheirTag` are invariants. A pass sees a line at
a time, so the invariant says what it knows of the lines read: each opening tag
but the last has been closed by its own, each closing tag closes one, keys were
allowed (`ReadSoFar`), and `current_tag` is the tag of the block the reading is
in (`OpenBlock`). One lemma per kind of line extends `ReadSoFar` by a line, one
per error shows that the file is not well-formed. In the logic passes
`OpenBlock` and well-formedness give the closing tag (`NextTagCloses`).

`FirstErrorIsTheFirst`: `ReadIsMendable` shows that lines without an error can be
mended by the closing tag that is expected, `BadIsTheFirst` that no line after
one with an error can help. The rest is that the first error stays the first.

`ListsAreTheFiles` and `LogicErrorsAreTheFiles` follow from `ListsInv`, which has
a part per pass. In the first logic pass the list of commands is that of the
blocks ended so far (`BlocksTo`), the command being read is what its block says
up to this line (`CommandTo`, by the lines that give each key so far, `Given`),
and the errors are those of the lines read (`CommandErrors`); in the second the
same holds of the processes, with the complete list of commands (`ProcessTo`,
`ErrorsTo`). Each of these is the meaning of the whole file cut off at a line,
so a step adds at most one line to a set, and lemmas say what that does:
`OrderedGrows` to the order, `ValuesGrow`, `LastOfGrows` and `CommandOfMore` to
values, `RedefinedIs` and its like to errors. That the block read by the code, up to
the next tag of any kind, is the block of the file needs well-formedness
(`BlockRead`, `BlockEnds`). The errors that undefined behaviour may add are in
neither bound but that of `InProcess`.

`RegistryProofs`: for any set of pipes, any hash function, any initial number of
buckets and any threshold. `Holds` says of a table that each bucket has exactly
the pipes whose saved hash value leads there, with the right count. An expansion
keeps it, for a pipe in new bucket b was in old bucket b modulo the old number
(`ModMod`), so no pipe is looked for in the wrong place; and an addition keeps
it. `Linked` ties prev and next of each pipe to its neighbours in the order of
registration; `IterOK` says that the loop has freed the first k of them and
holds the next two. `Bounded` survives an expansion because `expand_mult` is set
from the count, and an addition because a full bucket makes the table grow.
With "growing does not help" (`noexpand`) the bound is given up, as in the code.

`OwnershipProofs`: for any number of tokens, definitions and allocations. `IInv`
says which kind of structure leads to which (`PartsOK`), that only commands,
sources and outputs are led to by more than one (`OneHolder`, the case of
`process.c:111`), that what more than one may lead to is never freed
(`KeptLive`) and that the caller keeps what it lends (`LentOK`). Every call is a
`Change`, and what a call must see to is stated once: it frees only what is live
and its own (`FreesItsOwn`), sets pointers to what is new or shared
(`SetsWell`), leaves no pointer to what it frees (`ClearsAll`), and what it
neither frees nor keeps a pointer to is known (`LosesOnly`). `SoundKeeps` and
`SoundLoses` derive the invariant and `LossesAreKnown` from these; then there is a
lemma per call. An object is lost by a step when the last pointer from live
memory goes, so `SoundLoses` looks for the edge that led to it before.

Only model-checked:

- the liveness properties (`FramesDelivered`, `InputDrained`, `EventuallyQuiet`,
  `StopsOrSleeps`, `LoopsEnd`, `Finishes`), which are out of the prover's reach;
- `WrittenIsRead`, which is about the styles in which the files of the run are
  written. For a file of any text, `TokensAreWords` says what its tokens are; what
  is said with them is the writer's, and only the run has a writer.

## Where the code and its words disagree

Met while modelling; the models follow the code. The first is the run
`relay_ctrl_c`, `-q` the run `quiet`, the others are in the definitions named.

- A signal between the test of `last_signum` and `pselect` does not end cpw
  (`cpw.c:170`, 207; the message at `cpw.c:138`).
- Signals may be lost from the count that is printed (`cpw.c:30`, 219;
  `Signals`, `CountIsInBounds`).
- A buffer whose memory cannot be had goes into the pool, for
  `cpw_pipebuf_new` does not look at the result of `cpw_pipebuf_init`
  (`pipe.c:322`, 238; `PoolAlloc`, `InitBuf`).
- The structs of the pool are freed by nobody (`pipe.c:298-313`, 351-357).
- `line_num` is counted on when a pass rewinds the file (`config.c:282`, 207),
  so an error of a logic pass has a line number beyond it; errors of the syntax
  pass have the right one, which is what `tests/check_config.c:148` tests.
- A line longer than the buffer is counted and parsed in parts (`config.c:150`;
  `Tokens`, `LinesAreCounted`).
- Two commands get the same name if one of them is set by a `name` line, which
  is not looked up (`config.c:295`; the error message is at 289). Also, the name
  looked up is made by `cpw_get_tag` and the name set by
  `cpw_command_set_name`, which differ on `<`, `/` and what follows a `>`
  (`config.c:287`, 292).
- An unknown command after a known one in a process is not reported, and the
  known one stays (`process.c:114`, the message at `config.c:322`).
- `cpw_process_set_immediate` returns nothing, and its caller reports an
  unknown command if that happens to be 0 (`process.c:130`).
- `cpw_get_tag_name_index` looks at the token before it looks at the index
  (`helper.c:165`; `CPW_CONFIG_MAX_LINE_TOKEN` in `helper.h`): a line with five
  words and no `>` in sight reads behind the array (`Tokens`,
  `StaysInArrays`). `<T >` has an empty word for its name.
- `-q` is parsed and used nowhere (`arg.c:24`, 43; run `quiet`). The help says "default 1" for a
  level of 0 to 8 (`arg.c:28`), and it is 32, times 8 (`log.c:26`); a large level
  wraps round and silences everything (`Startup`, `FailuresAreTold`).
- `cpw_parsecontext_done` tests the address of the pointer where it means the
  pointer (`config.c:247`), and takes the stream and the tokens for granted;
  messages of errors and the token structure are not freed (`Ownership`,
  `Dropped`).
- `cpw_context_free` frees a config without its parse context and lists, and no
  other function does it at the end of the program (`context.c:24`, `cpw.c:222`).
  A second init of a context, a config or a parse context loses what the first one
  allocated (`context.c:11`, `config.c:76-95`, 503-505; `Ownership`, `Forgotten`).

## Not modelled

- `cpw_process_create` (fork and exec) and `cpw_find_token` have no caller, and
  `cpw_config_parse` is empty.
- Printing: the `printout` functions, the formatting of messages, the macros of
  `debug.h`, and the help and version output of argp. Of a message only its
  level counts (`Startup`).
- What the program does not use of the vendored headers: of `uthash.h`
  deletion, search, sorting, selection, the Bloom filter and the hash functions
  themselves (any function, in `Registry`); of `utlist.h` sorting, prepending,
  replacing, concatenating and circular lists.
- What SIGTERM does to the rest of the process group (`cpw.c:220`, `gpid` is 0):
  in `Relay` it is a producer or a consumer leaving.
- The objects of a set-up that fails other than the pipes and the pool (context,
  config, parse context, stream, descriptors): `exit(1)` leaves them to the system,
  and `LeakOnlyStructs` does not speak of them.
- Lengths of names of commands and processes, which are copied without a bound
  from tokens that have one.

## Plan

Done: all modules, the composition of `Startup` and `PoolAlloc`, their runs, and
the proofs of every safety property but `WrittenIsRead`, which is about the files
of its run.

Left: a file whose lines are written by rules (an indentation, words, quotes where
a word needs them, a comment) in place of the list of styles of `TokensMC`, and
from `TokensAreWords` a proof that it is read as it was written.
