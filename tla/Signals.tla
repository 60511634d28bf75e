------------------------------ MODULE Signals ------------------------------
(***************************************************************************)
(* The signals of cpw, instruction by instruction: how cpw_init takes them *)
(* over, what sig_handler does while other signals interrupt it, and the   *)
(* end of main(), which signals the process group of cpw (cpw.c).  Module  *)
(* Relay has the rest of main() and takes a signal as one step.            *)
(***************************************************************************)
EXTENDS Integers, SequencesExt

CONSTANT MaxSent  \* bound on the signals sent to cpw

ASSUME SentAssumption == MaxSent \in Nat

SIGHUP == 1
SIGINT == 2
SIGTERM == 15
Signal == {SIGHUP, SIGINT, SIGTERM}

(* In the order cpw_init takes them over. *)
Order == <<SIGINT, SIGHUP, SIGTERM>>

VARIABLES
  pc,           \* the next call of main(), or how it ended: "exited", "killed"
  installed,    \* how many of Order cpw_init has been through
  inherited,    \* the dispositions cpw was started with
  disposition,  \* and those it has
  pending,      \* signals the kernel holds for cpw
  stack,        \* the handlers running, each interrupted by the next
  count, last_signum,
  reported,     \* what main() printed as the number of signals handled
  sent, handled, episodes  \* signals sent, handlers begun, and begun in main()

sigvars == <<count, last_signum>>
kernelvars == <<disposition, pending, sent>>
mainvars == <<installed, inherited, reported>>
vars == <<pc, stack, handled, episodes, sigvars, kernelvars, mainvars>>

Alive == pc \notin {"exited", "killed"}
InMain == Alive /\ stack = <<>>

Init ==
  /\ pc = "cpw_init" /\ installed = 0
  /\ inherited \in [Signal -> {"SIG_DFL", "SIG_IGN"}] /\ disposition = inherited
  /\ pending = {} /\ stack = <<>>
  /\ count = 0 /\ last_signum = 0 /\ reported = 0
  /\ sent = 0 /\ handled = 0 /\ episodes = 0

-----------------------------------------------------------------------------
(* main() *)

Fault_TakeOver ==  \* a signal is taken over although it was ignored
  /\ InMain /\ pc = "cpw_init" /\ installed < Len(Order)
  /\ disposition' = [disposition EXCEPT ![Order[installed + 1]] = "sig_handler"]
  /\ installed' = installed + 1
  /\ UNCHANGED <<pc, pending, sent, stack, handled, episodes, sigvars, inherited, reported>>

Fault_TakeOverIgnored ==  \* the test of the old action is the wrong way round
  /\ InMain /\ pc = "cpw_init" /\ installed < Len(Order)
  /\ LET s == Order[installed + 1] IN
       disposition' = IF disposition[s] = "SIG_IGN"
                      THEN [disposition EXCEPT ![s] = "sig_handler"] ELSE disposition
  /\ installed' = installed + 1
  /\ UNCHANGED <<pc, pending, sent, stack, handled, episodes, sigvars, inherited, reported>>

TakeOver ==
  /\ InMain /\ pc = "cpw_init" /\ installed < Len(Order)
  /\ LET s == Order[installed + 1] IN
       disposition' = IF disposition[s] # "SIG_IGN"
                      THEN [disposition EXCEPT ![s] = "sig_handler"] ELSE disposition
  /\ installed' = installed + 1
  /\ UNCHANGED <<pc, pending, sent, stack, handled, episodes, sigvars, inherited, reported>>

(* The main loop: pselect sleeps until a pipe is ready or a handler has    *)
(* returned, and the loop ends at the check that follows.                  *)
EnterLoop ==
  /\ InMain /\ pc = "cpw_init" /\ installed = Len(Order)
  /\ pc' = "pselect"
  /\ UNCHANGED <<stack, handled, episodes, sigvars, kernelvars, mainvars>>

Sleep ==
  /\ InMain /\ pc = "pselect"
  /\ pc' = "asleep"
  /\ UNCHANGED <<stack, handled, episodes, sigvars, kernelvars, mainvars>>

PipeReady ==
  /\ InMain /\ pc = "asleep"
  /\ pc' = "check"
  /\ UNCHANGED <<stack, handled, episodes, sigvars, kernelvars, mainvars>>

Check ==
  /\ InMain /\ pc = "check"
  /\ pc' = IF last_signum # 0 THEN "report" ELSE "pselect"
  /\ UNCHANGED <<stack, handled, episodes, sigvars, kernelvars, mainvars>>

Report ==
  /\ InMain /\ pc = "report"
  /\ reported' = count
  /\ pc' = "kill"
  /\ UNCHANGED <<stack, handled, episodes, sigvars, kernelvars, installed, inherited>>

(* A signal is sent to cpw.  One that is pending already is not held twice.*)
Raise(s, next) ==
  /\ pending' = IF disposition[s] = "sig_handler" THEN pending \cup {s} ELSE pending
  /\ pc' = IF disposition[s] = "SIG_DFL" THEN "killed" ELSE next

(* kill(gpid, SIGTERM) with gpid 0: the group of cpw, with cpw in it.  It  *)
(* returns when the signal has been delivered.                             *)
Kill ==
  /\ InMain /\ pc = "kill"
  /\ Raise(SIGTERM, "return")
  /\ UNCHANGED <<stack, handled, episodes, sigvars, disposition, sent, mainvars>>

Return ==
  /\ InMain /\ pc = "return" /\ pending = {}
  /\ pc' = "exited"
  /\ UNCHANGED <<stack, handled, episodes, sigvars, kernelvars, mainvars>>

-----------------------------------------------------------------------------
(* The kernel *)

Send(s) ==
  /\ Alive /\ sent < MaxSent
  /\ sent' = sent + 1
  /\ Raise(s, pc)
  /\ UNCHANGED <<stack, handled, episodes, sigvars, disposition, mainvars>>

Fault_ResetHand(s) ==  \* SA_RESETHAND: the handler is good for one signal
  /\ Alive /\ s \in pending /\ \A i \in DOMAIN stack : stack[i].signum # s
  /\ pending' = pending \ {s}
  /\ disposition' = [disposition EXCEPT ![s] = "SIG_DFL"]
  /\ stack' = Append(stack, [signum |-> s, at |-> "load", loaded |-> 0])
  /\ handled' = handled + 1
  /\ episodes' = IF stack = <<>> THEN episodes + 1 ELSE episodes
  /\ UNCHANGED <<pc, sigvars, sent, mainvars>>

(* sa_mask is empty: only the signal itself is blocked while its handler   *)
(* runs.                                                                   *)
Deliver(s) ==
  /\ Alive /\ s \in pending /\ \A i \in DOMAIN stack : stack[i].signum # s
  /\ pending' = pending \ {s}
  /\ stack' = Append(stack, [signum |-> s, at |-> "load", loaded |-> 0])
  /\ handled' = handled + 1
  /\ episodes' = IF stack = <<>> THEN episodes + 1 ELSE episodes
  /\ UNCHANGED <<pc, sigvars, disposition, sent, mainvars>>

-----------------------------------------------------------------------------
(* sig_handler: count++ loads and stores, and may be interrupted between.  *)

Top == stack[Len(stack)]
Running(place) == Alive /\ stack # <<>> /\ Top.at = place

Load ==
  /\ Running("load")
  /\ stack' = [stack EXCEPT ![Len(stack)].at = "store", ![Len(stack)].loaded = count]
  /\ UNCHANGED <<pc, handled, episodes, sigvars, kernelvars, mainvars>>

Fault_Store ==  \* only the first signal is counted
  /\ Running("store")
  /\ count' = IF last_signum = 0 THEN Top.loaded + 1 ELSE count
  /\ stack' = [stack EXCEPT ![Len(stack)].at = "signum"]
  /\ UNCHANGED <<pc, last_signum, handled, episodes, kernelvars, mainvars>>

Store ==
  /\ Running("store")
  /\ count' = Top.loaded + 1
  /\ stack' = [stack EXCEPT ![Len(stack)].at = "signum"]
  /\ UNCHANGED <<pc, last_signum, handled, episodes, kernelvars, mainvars>>

(* A sleeping pselect returns with EINTR when the last handler has.        *)
Signum ==
  /\ Running("signum")
  /\ last_signum' = Top.signum
  /\ stack' = Front(stack)
  /\ pc' = IF pc = "asleep" /\ Len(stack) = 1 THEN "check" ELSE pc
  /\ UNCHANGED <<count, handled, episodes, kernelvars, mainvars>>

-----------------------------------------------------------------------------
Main == TakeOver \/ EnterLoop \/ Sleep \/ Check \/ Report \/ Kill \/ Return
Handler == Load \/ Store \/ Signum
Next == Main \/ PipeReady \/ Handler \/ \E s \in Signal : Send(s) \/ Deliver(s)

(* The process runs, in main() or in a handler, and gets the signals the   *)
(* kernel holds for it.                                                    *)
Spec == Init /\ [][Next]_vars /\ WF_vars(Main \/ Handler)
             /\ WF_vars(\E s \in Signal : Deliver(s))

-----------------------------------------------------------------------------
(* Handlers may be lost from the count by interrupting each other          *)
(* (cpw.c:30), but every time main() is interrupted adds at least one, and *)
(* nothing is counted that did not happen; so the number that is printed   *)
(* (cpw.c:219) may be too small, but it is never 0.                        *)
CountIsInBounds ==
  /\ stack = <<>> => episodes <= count /\ count <= handled
  /\ pc \in {"kill", "return", "exited"} => reported \in 1..handled

(* A signal that cpw was started to ignore, as nohup does, does not stop   *)
(* it (cpw.c:41-49); not even its own SIGTERM then counts.                 *)
IgnoredDoNotStop ==
  /\ last_signum # 0 => inherited[last_signum] # "SIG_IGN"
  /\ (\A s \in Signal : inherited[s] = "SIG_IGN") => pc \notin {"report", "kill", "return"}

(* Only before cpw has taken its signals over can one of them kill it.     *)
KilledOnlyEarly == [][pc' = "killed" => pc = "cpw_init" /\ installed < Len(Order)]_vars

(* Once it has left the loop cpw ends by itself, although it is in the     *)
(* group it sends SIGTERM to (cpw.c:220).                                  *)
Finishes == pc = "report" ~> pc = "exited"

=============================================================================
