---------------------------- MODULE SignalsProofs ----------------------------
(***************************************************************************)
(* A signal cpw was started to ignore does not stop it, and once cpw has   *)
(* taken its signals over none of them kills it, however many are sent and *)
(* wherever they arrive.                                                   *)
(*                                                                         *)
(* SignalsInv says what disposition each signal has: its own until cpw_init*)
(* comes to it, and the handler after that unless it was ignored.  So only *)
(* signals that were not ignored become pending, are handled and are       *)
(* remembered.                                                             *)
(*                                                                         *)
(* For the count, CountInv adds the interrupted handlers: the stores still *)
(* to come (Unstored) can raise it no further than the signals handled,    *)
(* and none of them sets it back below what main() has seen.               *)
(***************************************************************************)
EXTENDS Signals, FiniteSetTheorems, TLAPS

Disposition == {"SIG_DFL", "SIG_IGN", "sig_handler"}
Caught == {s \in Signal : inherited[s] # "SIG_IGN"}
Taken  == {Order[i] : i \in 1..installed}

Frame == [signum : Signal, at : {"load", "store", "signum"}, loaded : Int]

SignalsTypeOK ==
  /\ installed \in 0..3
  /\ inherited \in [Signal -> {"SIG_DFL", "SIG_IGN"}]
  /\ disposition \in [Signal -> Disposition]
  /\ pending \in SUBSET Signal
  /\ stack \in Seq(Frame)
  /\ count \in Int
  /\ last_signum \in Signal \cup {0}

DispositionsAre ==
  \A s \in Signal :
    disposition[s] = IF s \in Taken /\ s \in Caught THEN "sig_handler" ELSE inherited[s]

SignalsInv ==
  /\ SignalsTypeOK
  /\ DispositionsAre
  /\ pending \subseteq Caught
  /\ \A i \in DOMAIN stack : stack[i].signum \in Caught
  /\ last_signum # 0 => last_signum \in Caught
  /\ pc \notin {"cpw_init", "killed"} => installed = 3
  /\ pc \in {"report", "kill", "return"} => last_signum # 0

-----------------------------------------------------------------------------
LEMMA OrderIs ==
  /\ Len(Order) = 3 /\ Order[1] = SIGINT /\ Order[2] = SIGHUP /\ Order[3] = SIGTERM
  /\ \A i \in 1..3 : Order[i] \in Signal
  /\ 0 \notin Signal
BY DEF Order, Signal, SIGINT, SIGHUP, SIGTERM

(* With all three taken over no signal has its default action.             *)
LEMMA NoDefault ==
  ASSUME SignalsInv, installed = 3
  PROVE  \A s \in Signal : disposition[s] # "SIG_DFL"
<1>1. Taken = Signal
  BY OrderIs DEF Taken, Signal
<1>2. \A s \in Signal : inherited[s] \in {"SIG_DFL", "SIG_IGN"}
  BY DEF SignalsInv, SignalsTypeOK
<1> QED BY <1>1, <1>2 DEF SignalsInv, DispositionsAre, Caught

(* A signal that is handled was not ignored.                               *)
LEMMA HandledIsCaught ==
  ASSUME SignalsInv, NEW s \in Signal, disposition[s] = "sig_handler"
  PROVE  s \in Caught
<1>1. inherited[s] # "sig_handler"
  BY DEF SignalsInv, SignalsTypeOK
<1> QED BY <1>1 DEF SignalsInv, DispositionsAre

LEMMA TakeOverStep ==
  ASSUME SignalsInv, TakeOver
  PROVE  SignalsInv'
<1> DEFINE s == Order[installed + 1]
<1>1. /\ pc = "cpw_init" /\ installed < 3 /\ installed \in Nat /\ installed' = installed + 1
      /\ stack = <<>>
      /\ disposition' = IF disposition[s] # "SIG_IGN"
                        THEN [disposition EXCEPT ![s] = "sig_handler"] ELSE disposition
      /\ UNCHANGED <<pc, pending, stack, count, last_signum, inherited>>
  BY OrderIs DEF TakeOver, InMain, SignalsInv, SignalsTypeOK, sigvars
<1>2. s \in Signal /\ installed' \in 0..3
  BY <1>1, OrderIs
<1>3. Taken' = Taken \cup {s} /\ Caught' = Caught
  <2>1. \A i \in 1..installed + 1 : i \in 1..installed \/ i = installed + 1
    BY <1>1
  <2>2. 1..installed \subseteq 1..installed + 1 /\ installed + 1 \in 1..installed + 1
    BY <1>1
  <2> QED BY <1>1, <2>1, <2>2 DEF Taken, Caught
<1>4. s \notin Taken
  <2>1. installed = 0 \/ installed = 1 \/ installed = 2
    BY <1>1
  <2> QED BY <2>1, OrderIs DEF Taken, SIGINT, SIGHUP, SIGTERM
<1>5. disposition[s] = inherited[s]
  BY <1>2, <1>4 DEF SignalsInv, DispositionsAre
<1> HIDE DEF s
<1>6. disposition' \in [Signal -> Disposition]
  BY <1>1, <1>2 DEF SignalsInv, SignalsTypeOK, Disposition
<1>7. DispositionsAre'
  <2> SUFFICES ASSUME NEW t \in Signal
               PROVE  disposition'[t] = IF t \in Taken' /\ t \in Caught' THEN "sig_handler"
                                        ELSE inherited'[t]
    BY DEF DispositionsAre
  <2>1. CASE t = s
    BY <1>1, <1>2, <1>3, <1>5, <2>1 DEF Caught, SignalsInv, SignalsTypeOK
  <2>2. CASE t # s
    BY <1>1, <1>2, <1>3, <2>2 DEF SignalsInv, SignalsTypeOK, DispositionsAre
  <2> QED BY <2>1, <2>2
<1>8. SignalsTypeOK'
  BY <1>1, <1>2, <1>6 DEF SignalsInv, SignalsTypeOK
<1> QED BY <1>1, <1>3, <1>7, <1>8 DEF SignalsInv

(* Raise: what is added to the pending signals is handled.                 *)
LEMMA RaiseStep ==
  ASSUME SignalsInv, NEW s \in Signal, NEW next, Raise(s, next),
         next \notin {"cpw_init", "killed"} => installed = 3,
         next \in {"report", "kill", "return"} => last_signum # 0,
         UNCHANGED <<stack, disposition, installed, inherited, count, last_signum>>
  PROVE  SignalsInv'
<1>1. pending' \in SUBSET Signal /\ pending' \subseteq Caught
  BY HandledIsCaught DEF Raise, SignalsInv, SignalsTypeOK
<1>2. Caught' = Caught /\ Taken' = Taken
  BY DEF Caught, Taken
<1>3. pc' = next \/ pc' = "killed"
  BY DEF Raise
<1>4. SignalsTypeOK' /\ DispositionsAre'
  BY <1>1, <1>2 DEF SignalsInv, SignalsTypeOK, DispositionsAre
<1> QED BY <1>1, <1>2, <1>3, <1>4 DEF SignalsInv

LEMMA DeliverStep ==
  ASSUME SignalsInv, NEW s \in Signal, Deliver(s)
  PROVE  SignalsInv'
<1>1. /\ s \in pending /\ pending' = pending \ {s}
      /\ stack' = Append(stack, [signum |-> s, at |-> "load", loaded |-> 0])
      /\ UNCHANGED <<pc, count, last_signum, disposition, installed, inherited>>
  BY DEF Deliver, sigvars, mainvars
<1>2. s \in Caught
  BY <1>1 DEF SignalsInv
<1>3. Caught' = Caught /\ Taken' = Taken
  BY <1>1 DEF Caught, Taken
<1> DEFINE top == [signum |-> s, at |-> "load", loaded |-> 0]
<1>4. top \in Frame /\ top.signum = s /\ stack \in Seq(Frame)
  BY DEF SignalsInv, SignalsTypeOK, Frame
<1> HIDE DEF top
<1>5. /\ stack' \in Seq(Frame) /\ DOMAIN stack' = 1..Len(stack) + 1
      /\ DOMAIN stack = 1..Len(stack) /\ Len(stack) \in Nat
      /\ stack'[Len(stack) + 1] = top
      /\ \A i \in 1..Len(stack) : stack'[i] = stack[i]
  BY <1>1, <1>4 DEF top
<1>6. \A i \in DOMAIN stack' : i = Len(stack) + 1 \/ i \in DOMAIN stack
  BY <1>5
<1>7. \A i \in DOMAIN stack' : stack'[i].signum \in Caught
  BY <1>2, <1>4, <1>5, <1>6 DEF SignalsInv
<1>8. SignalsTypeOK' /\ DispositionsAre'
  BY <1>1, <1>3, <1>5 DEF SignalsInv, SignalsTypeOK, DispositionsAre
<1> QED BY <1>1, <1>3, <1>7, <1>8 DEF SignalsInv

LEMMA TopFacts ==
  ASSUME NEW S, NEW s \in Seq(S), s # <<>>
  PROVE  /\ Len(s) \in Nat /\ Len(s) >= 1 /\ DOMAIN s = 1..Len(s)
         /\ Len(s) \in DOMAIN s /\ s[Len(s)] \in S
         /\ Front(s) \in Seq(S) /\ DOMAIN Front(s) \subseteq DOMAIN s
         /\ \A i \in DOMAIN Front(s) : Front(s)[i] = s[i]
         /\ \A x \in S : LET t == [s EXCEPT ![Len(s)] = x] IN
              t \in Seq(S) /\ DOMAIN t = DOMAIN s /\ t[Len(s)] = x
                /\ \A i \in DOMAIN s \ {Len(s)} : t[i] = s[i]
<1>1. Len(s) \in Nat /\ Len(s) >= 1 /\ DOMAIN s = 1..Len(s) /\ s[Len(s)] \in S
  OBVIOUS
<1>2. Front(s) = [i \in 1..Len(s) - 1 |-> s[i]]
  BY <1>1 DEF Front
<1>3. Len(s) - 1 \in Nat /\ 1..Len(s) - 1 \subseteq 1..Len(s)
  BY <1>1
<1>4. [i \in 1..Len(s) - 1 |-> s[i]] \in Seq(S)
  BY <1>1, <1>3
<1> QED BY <1>1, <1>2, <1>3, <1>4

(* The handler works on the frame on top, whose signal stays what it is.   *)
LEMMA HandlerStep ==
  ASSUME SignalsInv, Handler
  PROVE  SignalsInv'
<1> DEFINE n == Len(stack)
<1>1. /\ stack \in Seq(Frame) /\ stack # <<>> /\ Alive
      /\ UNCHANGED <<pending, disposition, installed, inherited>>
  BY DEF Handler, Load, Store, Signum, Running, SignalsInv, SignalsTypeOK, kernelvars, mainvars
<1>2. /\ n \in Nat /\ n >= 1 /\ n \in DOMAIN stack /\ stack[n] \in Frame
      /\ DOMAIN stack = 1..n
  BY <1>1, TopFacts
<1>3. Caught' = Caught /\ Taken' = Taken
  BY <1>1 DEF Caught, Taken
<1>4. CASE Load
  <2>1. /\ stack' = [stack EXCEPT ![n].at = "store", ![n].loaded = count]
        /\ UNCHANGED <<pc, count, last_signum>>
    BY <1>4 DEF Load, sigvars
  <2>2. count \in Int
    BY DEF SignalsInv, SignalsTypeOK
  <2>3. stack' \in Seq(Frame) /\ DOMAIN stack' = DOMAIN stack
        /\ \A i \in DOMAIN stack : stack'[i].signum = stack[i].signum
    <3> DEFINE x == [stack[n] EXCEPT !.at = "store", !.loaded = count]
    <3>1. x \in Frame /\ x.signum = stack[n].signum
      BY <1>2, <2>2 DEF Frame
    <3>2. stack' = [stack EXCEPT ![n] = x]
      BY <1>2, <2>1
    <3> HIDE DEF x
    <3> QED BY <1>1, <1>2, <3>1, <3>2, TopFacts
  <2> QED BY <1>1, <1>3, <2>1, <2>3 DEF SignalsInv, SignalsTypeOK, DispositionsAre
<1>5. CASE Store
  <2>1. /\ stack' = [stack EXCEPT ![n].at = "signum"] /\ count' = stack[n].loaded + 1
        /\ UNCHANGED <<pc, last_signum>>
    BY <1>5 DEF Store, Top
  <2>2. stack' \in Seq(Frame) /\ DOMAIN stack' = DOMAIN stack
        /\ \A i \in DOMAIN stack : stack'[i].signum = stack[i].signum
    <3> DEFINE x == [stack[n] EXCEPT !.at = "signum"]
    <3>1. x \in Frame /\ x.signum = stack[n].signum
      BY <1>2 DEF Frame
    <3>2. stack' = [stack EXCEPT ![n] = x]
      BY <1>2, <2>1
    <3> HIDE DEF x
    <3> QED BY <1>1, <1>2, <3>1, <3>2, TopFacts
  <2>3. count' \in Int
    BY <1>2, <2>1 DEF Frame
  <2> QED BY <1>1, <1>3, <2>1, <2>2, <2>3 DEF SignalsInv, SignalsTypeOK, DispositionsAre
<1>6. CASE Signum
  <2>1. /\ last_signum' = stack[n].signum /\ stack' = Front(stack) /\ count' = count
        /\ pc' = IF pc = "asleep" /\ n = 1 THEN "check" ELSE pc
    BY <1>6 DEF Signum, Top
  <2>2. last_signum' \in Signal /\ last_signum' \in Caught /\ last_signum' # 0
    BY <1>2, <2>1, OrderIs DEF SignalsInv, Frame
  <2>3. /\ stack' \in Seq(Frame) /\ DOMAIN stack' \subseteq DOMAIN stack
        /\ \A i \in DOMAIN stack' : stack'[i] = stack[i]
    BY <1>1, <2>1, TopFacts
  <2>4. pc' \notin {"cpw_init", "killed"} => installed' = 3
    BY <1>1, <2>1 DEF SignalsInv, Alive
  <2>5. SignalsTypeOK'
    BY <1>1, <2>1, <2>2, <2>3 DEF SignalsInv, SignalsTypeOK
  <2>6. DispositionsAre'
    BY <1>1, <1>3 DEF SignalsInv, DispositionsAre
  <2>7. \A i \in DOMAIN stack' : stack'[i].signum \in Caught'
    BY <1>3, <2>3 DEF SignalsInv
  <2> QED BY <1>1, <1>3, <2>2, <2>4, <2>5, <2>6, <2>7 DEF SignalsInv
<1> QED BY <1>4, <1>5, <1>6 DEF Handler

(* A step that touches none of the dispositions and no signal.             *)
LEMMA MainStep ==
  ASSUME SignalsInv,
         UNCHANGED <<stack, pending, disposition, installed, inherited, count, last_signum>>,
         pc' \notin {"cpw_init", "killed"} => installed = 3,
         pc' \in {"report", "kill", "return"} => last_signum # 0
  PROVE  SignalsInv'
<1>1. Caught' = Caught /\ Taken' = Taken
  BY DEF Caught, Taken
<1> QED BY <1>1 DEF SignalsInv, SignalsTypeOK, DispositionsAre

LEMMA SignalsStep ==
  ASSUME SignalsInv, [Next]_vars
  PROVE  SignalsInv'
<1> USE DEF InMain, Alive
<1>1. CASE TakeOver
  BY <1>1, TakeOverStep
<1>2. CASE EnterLoop
  BY <1>2, MainStep, OrderIs DEF EnterLoop, sigvars, kernelvars, mainvars
<1>3. CASE Sleep \/ PipeReady \/ Check \/ Report \/ Return
  <2>1. /\ pc \notin {"cpw_init", "killed"}
        /\ pc' \in {"asleep", "check", "report", "pselect", "kill", "exited"}
        /\ pc' \in {"report", "kill"} => last_signum # 0
        /\ UNCHANGED <<stack, pending, disposition, installed, inherited, count, last_signum>>
    BY <1>3 DEF Sleep, PipeReady, Check, Report, Return, sigvars, kernelvars, mainvars, SignalsInv
  <2> QED BY <2>1, MainStep DEF SignalsInv
<1>4. CASE Kill
  <2>1. /\ Raise(SIGTERM, "return") /\ pc = "kill"
        /\ UNCHANGED <<stack, disposition, installed, inherited, count, last_signum>>
    BY <1>4 DEF Kill, sigvars, mainvars
  <2>2. installed = 3 /\ last_signum # 0
    BY <2>1 DEF SignalsInv
  <2> QED BY <2>1, <2>2, RaiseStep DEF Signal
<1>5. ASSUME NEW s \in Signal, Send(s) PROVE SignalsInv'
  <2>1. /\ Raise(s, pc)
        /\ UNCHANGED <<stack, disposition, installed, inherited, count, last_signum>>
    BY <1>5 DEF Send, sigvars, mainvars
  <2> QED BY <2>1, RaiseStep DEF SignalsInv
<1>6. ASSUME NEW s \in Signal, Deliver(s) PROVE SignalsInv'
  BY <1>6, DeliverStep
<1>7. CASE Handler
  BY <1>7, HandlerStep
<1>8. CASE UNCHANGED vars
  <2>1. UNCHANGED <<pc, stack, pending, disposition, installed, inherited, count, last_signum>>
    BY <1>8 DEF vars, sigvars, kernelvars, mainvars
  <2> QED BY <2>1, MainStep DEF SignalsInv
<1> QED BY <1>1, <1>2, <1>3, <1>4, <1>5, <1>6, <1>7, <1>8 DEF Next, Main

(* The signals have the dispositions cpw_init gave them and no others      *)
(* (cpw.c:35-50).                                                          *)
THEOREM SignalsInvariant == Spec => []SignalsInv
<1>1. Init => SignalsInv
  <2> SUFFICES ASSUME Init PROVE SignalsInv
    OBVIOUS
  <2>1. Taken = {}
    BY DEF Init, Taken
  <2> QED BY <2>1 DEF Init, SignalsInv, SignalsTypeOK, DispositionsAre, Disposition
<1>2. SignalsInv /\ [Next]_vars => SignalsInv'
  BY SignalsStep
<1> QED BY <1>1, <1>2, PTL DEF Spec

(* A signal cpw was started to ignore does not stop it (cpw.c:41-49).      *)
THEOREM SignalsIgnored == Spec => []IgnoredDoNotStop
<1>1. SignalsInv => IgnoredDoNotStop
  <2> SUFFICES ASSUME SignalsInv PROVE IgnoredDoNotStop
    OBVIOUS
  <2>1. last_signum # 0 => last_signum \in Signal /\ inherited[last_signum] # "SIG_IGN"
    BY DEF SignalsInv, Caught
  <2> QED BY <2>1 DEF IgnoredDoNotStop, SignalsInv
<1> QED BY <1>1, SignalsInvariant, PTL

(* Once the signals are taken over none kills cpw, not even the SIGTERM it *)
(* sends its own group (cpw.c:220).                                        *)
THEOREM SignalsKilledOnlyEarly == Spec => KilledOnlyEarly
<1>1. SignalsInv /\ [Next]_vars => [pc' = "killed" => pc = "cpw_init" /\ installed < Len(Order)]_vars
  <2> SUFFICES ASSUME SignalsInv, Next, pc' = "killed"
               PROVE  pc = "cpw_init" /\ installed < 3
    BY OrderIs
  <2>1. Alive
    BY DEF Next, Main, Handler, InMain, Running, TakeOver, EnterLoop, Sleep, Check, Report, Kill,
           Return, PipeReady, Load, Store, Signum, Send, Deliver
  <2>2. pc # "killed" /\ pc # "exited"
    BY <2>1 DEF Alive
  <2>3. \E s \in Signal : disposition[s] = "SIG_DFL"
    <3>1. Kill \/ \E s \in Signal : Send(s)
      BY <2>2 DEF Next, Main, Handler, TakeOver, EnterLoop, Sleep, Check, Report, Return,
                  PipeReady, Load, Store, Signum, Deliver
    <3> QED BY <2>2, <3>1 DEF Kill, Send, Raise, Signal
  <2>4. installed # 3
    BY <2>3, NoDefault
  <2> QED BY <2>2, <2>4 DEF SignalsInv, SignalsTypeOK
<1> QED BY <1>1, SignalsInvariant, PTL DEF Spec, KilledOnlyEarly

-----------------------------------------------------------------------------
(* The number of signals.  A handler that has begun and not stored may     *)
(* still add one, so count and what has been loaded stay that far below    *)
(* the number of handlers begun (Above); and the handler main() was        *)
(* interrupted by adds to what was there before it (Below).                *)

Unstored(s, i) == {j \in 1..i : s[j].at # "signum"}

Above ==
  /\ count + Cardinality(Unstored(stack, Len(stack))) <= handled
  /\ \A i \in DOMAIN stack :
       stack[i].at = "store" => stack[i].loaded + Cardinality(Unstored(stack, i)) <= handled

Floor == IF stack = <<>> \/ stack[1].at = "signum" THEN episodes ELSE episodes - 1

Below ==
  /\ count >= Floor
  /\ \A i \in DOMAIN stack : stack[i].at = "store" => stack[i].loaded >= Floor

CountInv ==
  /\ handled \in Nat /\ episodes \in Nat
  /\ Above /\ Below
  /\ stack # <<>> \/ last_signum # 0 => episodes >= 1
  /\ pc \in {"kill", "return", "exited"} => reported \in 1..handled

LEMMA UnstoredFinite ==
  ASSUME NEW s, NEW i \in Nat
  PROVE  IsFiniteSet(Unstored(s, i)) /\ Cardinality(Unstored(s, i)) \in Nat
<1>1. IsFiniteSet(1..i) /\ Unstored(s, i) \in SUBSET (1..i)
  BY FS_Interval DEF Unstored
<1> QED BY <1>1, FS_Subset, FS_CardinalityType

(* The handlers below the one on top are as they were. *)
LEMMA UnstoredSame ==
  ASSUME NEW s, NEW t, NEW i \in Nat, \A j \in 1..i : t[j].at = s[j].at
  PROVE  Unstored(t, i) = Unstored(s, i)
BY DEF Unstored

LEMMA UnstoredMore ==
  ASSUME NEW s, NEW i \in Nat
  PROVE  Cardinality(Unstored(s, i + 1))
           = Cardinality(Unstored(s, i)) + (IF s[i + 1].at # "signum" THEN 1 ELSE 0)
<1>1. IsFiniteSet(Unstored(s, i)) /\ Cardinality(Unstored(s, i)) \in Nat
  BY UnstoredFinite
<1>2. i + 1 \notin 1..i /\ 1..i + 1 = 1..i \cup {i + 1}
  OBVIOUS
<1>3. CASE s[i + 1].at # "signum"
  <2>1. Unstored(s, i + 1) = Unstored(s, i) \cup {i + 1} /\ i + 1 \notin Unstored(s, i)
    BY <1>2, <1>3 DEF Unstored
  <2> QED BY <1>1, <1>3, <2>1, FS_AddElement
<1>4. CASE s[i + 1].at = "signum"
  <2>1. Unstored(s, i + 1) = Unstored(s, i)
    BY <1>2, <1>4 DEF Unstored
  <2> QED BY <1>1, <1>4, <2>1
<1> QED BY <1>3, <1>4

(* What a step does to the frames. *)
LEMMA StackFacts ==
  ASSUME SignalsInv
  PROVE  /\ stack \in Seq(Frame) /\ Len(stack) \in Nat /\ DOMAIN stack = 1..Len(stack)
         /\ count \in Int
         /\ \A i \in 1..Len(stack) : stack[i] \in Frame
         /\ \A i \in 1..Len(stack) : stack[i].loaded \in Int
         /\ stack = <<>> <=> Len(stack) = 0
<1>1. stack \in Seq(Frame) /\ count \in Int
  BY DEF SignalsInv, SignalsTypeOK
<1>2. \A f \in Frame : f.loaded \in Int
  BY DEF Frame
<1> QED BY <1>1, <1>2

LEMMA LoadShape ==
  ASSUME SignalsInv, Load
  PROVE  LET n == Len(stack) IN
         /\ n >= 1 /\ stack # <<>> /\ stack' # <<>>
         /\ Len(stack') = n /\ DOMAIN stack' = 1..n
         /\ stack[n].at = "load" /\ stack'[n].at = "store" /\ stack'[n].loaded = count
         /\ \A i \in 1..n - 1 : stack'[i] = stack[i]
<1> DEFINE n == Len(stack)
           x == [stack[n] EXCEPT !.at = "store", !.loaded = count]
<1>1. stack # <<>> /\ stack[n].at = "load"
      /\ stack' = [stack EXCEPT ![n].at = "store", ![n].loaded = count]
  BY DEF Load, Running, Top
<1>2. stack \in Seq(Frame) /\ n \in Nat /\ n >= 1 /\ stack[n] \in Frame /\ DOMAIN stack = 1..n
      /\ count \in Int
  BY <1>1, StackFacts
<1>3. x \in Frame /\ x.at = "store" /\ x.loaded = count
  BY <1>2 DEF Frame
<1>4. stack' = [stack EXCEPT ![n] = x]
  BY <1>1, <1>2
<1>5. stack' \in Seq(Frame) /\ DOMAIN stack' = 1..n /\ stack'[n] = x
      /\ \A i \in 1..n \ {n} : stack'[i] = stack[i]
  <2> HIDE DEF x, n
  <2>1. stack' \in Seq(Frame) /\ DOMAIN stack' = DOMAIN stack
    <3>1. \A y \in Frame : [stack EXCEPT ![n] = y] \in Seq(Frame)
                             /\ DOMAIN [stack EXCEPT ![n] = y] = DOMAIN stack
      BY <1>1, <1>2, TopFacts DEF n
    <3> QED BY <1>3, <1>4, <3>1
  <2>2. stack'[n] = x /\ \A i \in 1..n \ {n} : stack'[i] = stack[i]
    BY <1>2, <1>4
  <2> QED BY <1>2, <2>1, <2>2
<1> HIDE DEF x, n
<1>6. Len(stack') = n /\ stack' # <<>>
  BY <1>2, <1>5
<1>7. \A i \in 1..n - 1 : i \in 1..n \ {n}
  BY <1>2
<1> QED BY <1>1, <1>2, <1>3, <1>5, <1>6, <1>7 DEF n

LEMMA StoreShape ==
  ASSUME SignalsInv, Store
  PROVE  LET n == Len(stack) IN
         /\ n >= 1 /\ stack # <<>> /\ stack' # <<>>
         /\ Len(stack') = n /\ DOMAIN stack' = 1..n
         /\ stack[n].at = "store" /\ stack'[n].at = "signum" /\ count' = stack[n].loaded + 1
         /\ \A i \in 1..n - 1 : stack'[i] = stack[i]
<1> DEFINE n == Len(stack)
           x == [stack[n] EXCEPT !.at = "signum"]
<1>1. stack # <<>> /\ stack[n].at = "store" /\ count' = stack[n].loaded + 1
      /\ stack' = [stack EXCEPT ![n].at = "signum"]
  BY DEF Store, Running, Top
<1>2. stack \in Seq(Frame) /\ n \in Nat /\ n >= 1 /\ stack[n] \in Frame /\ DOMAIN stack = 1..n
  BY <1>1, StackFacts
<1>3. x \in Frame /\ x.at = "signum"
  BY <1>2 DEF Frame
<1>4. stack' = [stack EXCEPT ![n] = x]
  BY <1>1, <1>2
<1>5. stack' \in Seq(Frame) /\ DOMAIN stack' = 1..n /\ stack'[n] = x
      /\ \A i \in 1..n \ {n} : stack'[i] = stack[i]
  <2> HIDE DEF x, n
  <2>1. stack' \in Seq(Frame) /\ DOMAIN stack' = DOMAIN stack
    <3>1. \A y \in Frame : [stack EXCEPT ![n] = y] \in Seq(Frame)
                             /\ DOMAIN [stack EXCEPT ![n] = y] = DOMAIN stack
      BY <1>1, <1>2, TopFacts DEF n
    <3> QED BY <1>3, <1>4, <3>1
  <2>2. stack'[n] = x /\ \A i \in 1..n \ {n} : stack'[i] = stack[i]
    BY <1>2, <1>4
  <2> QED BY <1>2, <2>1, <2>2
<1> HIDE DEF x, n
<1>6. Len(stack') = n /\ stack' # <<>>
  BY <1>2, <1>5
<1>7. \A i \in 1..n - 1 : i \in 1..n \ {n}
  BY <1>2
<1> QED BY <1>1, <1>2, <1>3, <1>5, <1>6, <1>7 DEF n

LEMMA SignumShape ==
  ASSUME SignalsInv, Signum
  PROVE  LET n == Len(stack) IN
         /\ n >= 1 /\ stack # <<>> /\ stack[n].at = "signum"
         /\ Len(stack') = n - 1 /\ DOMAIN stack' = 1..n - 1
         /\ stack' = <<>> <=> n = 1
         /\ \A i \in 1..n - 1 : stack'[i] = stack[i]
<1> DEFINE n == Len(stack)
<1>1. stack # <<>> /\ stack[n].at = "signum" /\ stack' = Front(stack)
  BY DEF Signum, Running, Top
<1>2. stack \in Seq(Frame) /\ n \in Nat /\ n >= 1 /\ DOMAIN stack = 1..n
  BY <1>1, StackFacts
<1>3. stack' = SubSeq(stack, 1, n - 1)
  BY <1>1 DEF Front
<1>4. stack' \in Seq(Frame) /\ Len(stack') = n - 1 /\ \A i \in 1..n - 1 : stack'[i] = stack[i]
  BY <1>2, <1>3
<1>5. stack' = <<>> <=> n = 1
  BY <1>2, <1>4
<1> QED BY <1>1, <1>2, <1>4, <1>5

LEMMA DeliverShape ==
  ASSUME SignalsInv, NEW s \in Signal, Deliver(s)
  PROVE  LET n == Len(stack) IN
         /\ Len(stack') = n + 1 /\ DOMAIN stack' = 1..n + 1 /\ stack' # <<>>
         /\ stack'[n + 1].at = "load"
         /\ \A i \in 1..n : stack'[i] = stack[i]
<1> DEFINE n == Len(stack)
           x == [signum |-> s, at |-> "load", loaded |-> 0]
<1>1. stack' = Append(stack, x) /\ x.at = "load" /\ x \in Frame
  BY DEF Deliver, Frame
<1>2. stack \in Seq(Frame) /\ n \in Nat
  BY StackFacts
<1> HIDE DEF x
<1>3. /\ Len(stack') = n + 1 /\ DOMAIN stack' = 1..n + 1 /\ stack' # <<>> /\ stack'[n + 1] = x
      /\ \A i \in 1..n : stack'[i] = stack[i]
  BY <1>1, <1>2
<1> QED BY <1>1, <1>3

(* The first part of CountInv is kept by the handler. *)
LEMMA HandlerKeepsAbove ==
  ASSUME SignalsInv, Above, handled \in Nat, Handler
  PROVE  Above'
<1> DEFINE n == Len(stack)
           U(s, i) == Cardinality(Unstored(s, i))
<1>1. n \in Nat /\ handled' = handled
  BY StackFacts DEF Handler, Load, Store, Signum
<1>2. \A s, i : i \in Nat => U(s, i) \in Nat
  BY UnstoredFinite
<1>3. ASSUME \A i \in 1..n - 1 : stack'[i] = stack[i]
      PROVE  \A i \in 0..n - 1 : U(stack', i) = U(stack, i)
  <2> TAKE i \in 0..n - 1
  <2>1. i \in Nat /\ \A j \in 1..i : j \in 1..n - 1
    BY <1>1
  <2> QED BY <1>3, <2>1, UnstoredSame
<1>4. n >= 1 => U(stack, n) = U(stack, n - 1) + (IF stack[n].at # "signum" THEN 1 ELSE 0)
  <2>1. n >= 1 => n - 1 \in Nat /\ (n - 1) + 1 = n
    BY <1>1
  <2> QED BY <2>1, UnstoredMore
<1>5. n >= 1 => U(stack', n) = U(stack', n - 1) + (IF stack'[n].at # "signum" THEN 1 ELSE 0)
  <2>1. n >= 1 => n - 1 \in Nat /\ (n - 1) + 1 = n
    BY <1>1
  <2> QED BY <2>1, UnstoredMore
<1>6. /\ count + U(stack, n) <= handled
      /\ \A i \in 1..n : stack[i].at = "store" => stack[i].loaded + U(stack, i) <= handled
  BY StackFacts DEF Above
<1>7. count \in Int /\ \A i \in 1..n : stack[i].loaded \in Int
  BY StackFacts
<1>8. SUFFICES /\ count' + U(stack', Len(stack')) <= handled
               /\ \A i \in DOMAIN stack' :
                    stack'[i].at = "store" => stack'[i].loaded + U(stack', i) <= handled
  BY <1>1 DEF Above
<1> HIDE DEF U, n
<1>9. CASE Load
  <2>1. /\ n >= 1 /\ Len(stack') = n /\ DOMAIN stack' = 1..n /\ count' = count
        /\ stack[n].at = "load" /\ stack'[n].at = "store" /\ stack'[n].loaded = count
        /\ \A i \in 1..n - 1 : stack'[i] = stack[i]
    BY <1>9, LoadShape DEF n, Load, sigvars
  <2>2. U(stack', n) = U(stack, n)
    BY <1>1, <1>3, <1>4, <1>5, <2>1
  <2>3. ASSUME NEW i \in 1..n, stack'[i].at = "store"
        PROVE  stack'[i].loaded + U(stack', i) <= handled
    <3>1. CASE i = n
      BY <1>6, <2>1, <2>2, <3>1
    <3>2. CASE i # n
      <4>1. i \in 1..n - 1 /\ i \in 0..n - 1
        BY <1>1, <3>2
      <4> QED BY <1>3, <1>6, <2>1, <2>3, <4>1
    <3> QED BY <3>1, <3>2
  <2> QED BY <1>6, <2>1, <2>2, <2>3
<1>10. CASE Store
  <2>1. /\ n >= 1 /\ Len(stack') = n /\ DOMAIN stack' = 1..n
        /\ stack[n].at = "store" /\ stack'[n].at = "signum" /\ count' = stack[n].loaded + 1
        /\ \A i \in 1..n - 1 : stack'[i] = stack[i]
    BY <1>10, StoreShape DEF n
  <2>2. n - 1 \in 0..n - 1 /\ n \in 1..n /\ n - 1 \in Nat
    BY <1>1, <2>1
  <2>3. U(stack, n) = U(stack, n - 1) + 1 /\ U(stack', n) = U(stack, n - 1)
        /\ U(stack, n - 1) \in Nat
    BY <1>2, <1>3, <1>4, <1>5, <2>1, <2>2
  <2>4. stack[n].loaded + U(stack, n) <= handled /\ stack[n].loaded \in Int
    BY <1>6, <1>7, <2>1, <2>2
  <2>5. count' + U(stack', n) <= handled
    BY <2>1, <2>3, <2>4
  <2>6. ASSUME NEW i \in 1..n, stack'[i].at = "store"
        PROVE  stack'[i].loaded + U(stack', i) <= handled
    <3>1. i # n
      BY <2>1, <2>6
    <3>2. i \in 1..n - 1 /\ i \in 0..n - 1
      BY <1>1, <3>1
    <3> QED BY <1>3, <1>6, <2>1, <2>6, <3>2
  <2> QED BY <2>1, <2>5, <2>6
<1>11. CASE Signum
  <2>1. /\ n >= 1 /\ Len(stack') = n - 1 /\ DOMAIN stack' = 1..n - 1 /\ count' = count
        /\ stack[n].at = "signum" /\ \A i \in 1..n - 1 : stack'[i] = stack[i]
    BY <1>11, SignumShape DEF n, Signum
  <2>2. n - 1 \in 0..n - 1 /\ n - 1 \in Nat /\ \A i \in 1..n - 1 : i \in 0..n - 1 /\ i \in 1..n
    BY <1>1, <2>1
  <2>3. U(stack, n) = U(stack, n - 1) /\ U(stack', n - 1) = U(stack, n - 1)
    BY <1>2, <1>3, <1>4, <2>1, <2>2
  <2>4. ASSUME NEW i \in 1..n - 1, stack'[i].at = "store"
        PROVE  stack'[i].loaded + U(stack', i) <= handled
    BY <1>3, <1>6, <2>1, <2>2, <2>4
  <2> QED BY <1>6, <2>1, <2>3, <2>4
<1> QED BY <1>9, <1>10, <1>11 DEF Handler

LEMMA DeliverKeepsAbove ==
  ASSUME SignalsInv, Above, handled \in Nat, NEW s \in Signal, Deliver(s)
  PROVE  Above'
<1> DEFINE n == Len(stack)
           U(t, i) == Cardinality(Unstored(t, i))
<1>1. n \in Nat /\ handled' = handled + 1 /\ count' = count /\ count \in Int
      /\ \A i \in 1..n : stack[i].loaded \in Int
  BY StackFacts DEF Deliver, sigvars
<1>2. /\ Len(stack') = n + 1 /\ DOMAIN stack' = 1..n + 1 /\ stack'[n + 1].at = "load"
      /\ \A i \in 1..n : stack'[i] = stack[i]
  BY DeliverShape
<1>3. \A i \in 0..n : U(stack', i) = U(stack, i) /\ U(stack, i) \in Nat
  <2> TAKE i \in 0..n
  <2>1. i \in Nat /\ \A j \in 1..i : j \in 1..n
    BY <1>1
  <2> QED BY <1>2, <2>1, UnstoredSame, UnstoredFinite
<1>4. U(stack', n + 1) = U(stack', n) + 1
  BY <1>1, <1>2, UnstoredMore
<1>5. /\ count + U(stack, n) <= handled
      /\ \A i \in 1..n : stack[i].at = "store" => stack[i].loaded + U(stack, i) <= handled
  BY StackFacts DEF Above
<1>6. SUFFICES /\ count' + U(stack', n + 1) <= handled + 1
               /\ \A i \in 1..n + 1 :
                    stack'[i].at = "store" => stack'[i].loaded + U(stack', i) <= handled + 1
  BY <1>1, <1>2 DEF Above
<1> HIDE DEF U, n
<1>7. U(stack', n + 1) = U(stack, n) + 1 /\ U(stack, n) \in Nat
  BY <1>1, <1>3, <1>4
<1>8. ASSUME NEW i \in 1..n + 1, stack'[i].at = "store"
      PROVE  stack'[i].loaded + U(stack', i) <= handled + 1
  <2>1. i # n + 1
    BY <1>2, <1>8
  <2>2. i \in 1..n /\ i \in 0..n
    BY <1>1, <2>1
  <2>3. stack[i].loaded + U(stack, i) <= handled /\ stack[i].loaded \in Int /\ U(stack, i) \in Nat
    BY <1>1, <1>2, <1>3, <1>5, <1>8, <2>2
  <2> QED BY <1>2, <1>3, <2>2, <2>3
<1> QED BY <1>1, <1>5, <1>7, <1>8

(* And the second part. *)
LEMMA HandlerKeepsBelow ==
  ASSUME SignalsInv, Below, episodes \in Nat, Handler
  PROVE  Below'
<1> DEFINE n == Len(stack)
<1>1. /\ n \in Nat /\ episodes' = episodes /\ DOMAIN stack = 1..n /\ count \in Int
      /\ \A i \in 1..n : stack[i].loaded \in Int
  BY StackFacts DEF Handler, Load, Store, Signum
<1>2. /\ count >= Floor /\ Floor \in Int
      /\ \A i \in 1..n : stack[i].at = "store" => stack[i].loaded >= Floor
  BY <1>1 DEF Below, Floor
<1>3. CASE Load
  <2>1. /\ n >= 1 /\ stack # <<>> /\ stack' # <<>> /\ DOMAIN stack' = 1..n /\ count' = count
        /\ stack[n].at = "load" /\ stack'[n].at = "store" /\ stack'[n].loaded = count
        /\ \A i \in 1..n - 1 : stack'[i] = stack[i]
    BY <1>3, LoadShape DEF Load, sigvars
  <2> HIDE DEF n
  <2>2. Floor' = Floor
    <3>1. n = 1 \/ 1 \in 1..n - 1
      BY <1>1, <2>1
    <3> QED BY <1>1, <2>1, <3>1 DEF Floor
  <2>3. ASSUME NEW i \in 1..n, stack'[i].at = "store" PROVE stack'[i].loaded >= Floor
    <3>1. i = n \/ i \in 1..n - 1
      BY <1>1
    <3> QED BY <1>2, <2>1, <2>3, <3>1
  <2> QED BY <1>2, <2>1, <2>2, <2>3 DEF Below
<1>4. CASE Store
  <2>1. /\ n >= 1 /\ stack # <<>> /\ stack' # <<>> /\ DOMAIN stack' = 1..n
        /\ stack[n].at = "store" /\ stack'[n].at = "signum" /\ count' = stack[n].loaded + 1
        /\ \A i \in 1..n - 1 : stack'[i] = stack[i]
    BY <1>4, StoreShape
  <2> HIDE DEF n
  <2>2. n \in 1..n /\ stack[n].loaded >= Floor /\ stack[n].loaded \in Int
    BY <1>1, <1>2, <2>1
  <2>3. CASE n = 1
    <3>1. Floor' = episodes /\ Floor = episodes - 1
      BY <1>1, <2>1, <2>3 DEF Floor
    <3>2. \A i \in 1..n : stack'[i].at # "store"
      BY <2>1, <2>3
    <3>3. count' >= Floor'
      BY <2>1, <2>2, <3>1
    <3> QED BY <2>1, <3>2, <3>3 DEF Below
  <2>4. CASE n # 1
    <3>1. 1 \in 1..n - 1
      BY <1>1, <2>1, <2>4
    <3>2. Floor' = Floor
      BY <1>1, <2>1, <3>1 DEF Floor
    <3>3. ASSUME NEW i \in 1..n, stack'[i].at = "store" PROVE stack'[i].loaded >= Floor
      <4>1. i = n \/ i \in 1..n - 1
        BY <1>1
      <4> QED BY <1>2, <2>1, <3>3, <4>1
    <3>4. count' >= Floor'
      BY <1>2, <2>1, <2>2, <3>2
    <3> QED BY <2>1, <3>2, <3>3, <3>4 DEF Below
  <2> QED BY <2>3, <2>4
<1>5. CASE Signum
  <2>1. /\ n >= 1 /\ stack # <<>> /\ DOMAIN stack' = 1..n - 1 /\ count' = count
        /\ stack[n].at = "signum" /\ (stack' = <<>> <=> n = 1)
        /\ \A i \in 1..n - 1 : stack'[i] = stack[i]
    BY <1>5, SignumShape DEF Signum
  <2> HIDE DEF n
  <2>2. Floor' = Floor
    <3>1. n = 1 \/ 1 \in 1..n - 1
      BY <1>1, <2>1
    <3> QED BY <1>1, <2>1, <3>1 DEF Floor
  <2>3. ASSUME NEW i \in 1..n - 1, stack'[i].at = "store" PROVE stack'[i].loaded >= Floor
    <3>1. i \in 1..n
      BY <1>1
    <3> QED BY <1>2, <2>1, <2>3, <3>1
  <2> QED BY <1>2, <2>1, <2>2, <2>3 DEF Below
<1> QED BY <1>3, <1>4, <1>5 DEF Handler

LEMMA DeliverKeepsBelow ==
  ASSUME SignalsInv, Below, episodes \in Nat, NEW s \in Signal, Deliver(s)
  PROVE  Below'
<1> DEFINE n == Len(stack)
<1>1. /\ n \in Nat /\ count' = count /\ DOMAIN stack = 1..n /\ (stack = <<>> <=> n = 0)
      /\ episodes' = IF stack = <<>> THEN episodes + 1 ELSE episodes
  BY StackFacts DEF Deliver, sigvars
<1>2. /\ DOMAIN stack' = 1..n + 1 /\ stack' # <<>> /\ stack'[n + 1].at = "load"
      /\ \A i \in 1..n : stack'[i] = stack[i]
  BY DeliverShape
<1>3. /\ count >= Floor
      /\ \A i \in 1..n : stack[i].at = "store" => stack[i].loaded >= Floor
  BY <1>1 DEF Below
<1> HIDE DEF n
<1>4. Floor' = Floor
  <2>1. CASE n = 0
    <3>1. stack = <<>> /\ stack'[1].at = "load"
      BY <1>1, <1>2, <2>1
    <3> QED BY <1>1, <1>2, <3>1 DEF Floor
  <2>2. CASE n # 0
    <3>1. 1 \in 1..n
      BY <1>1, <2>2
    <3> QED BY <1>1, <1>2, <2>2, <3>1 DEF Floor
  <2> QED BY <2>1, <2>2
<1>5. ASSUME NEW i \in 1..n + 1, stack'[i].at = "store" PROVE stack'[i].loaded >= Floor
  <2>1. i = n + 1 \/ i \in 1..n
    BY <1>1
  <2> QED BY <1>2, <1>3, <1>5, <2>1
<1> QED BY <1>1, <1>2, <1>3, <1>4, <1>5 DEF Below

LEMMA CountStep ==
  ASSUME SignalsInv, CountInv, [Next]_vars
  PROVE  CountInv'
<1> USE DEF InMain, Alive
<1>1. CountInv /\ handled \in Nat /\ episodes \in Nat /\ count \in Int
  BY StackFacts DEF CountInv
<1>2. ASSUME UNCHANGED <<stack, count, last_signum, handled, episodes>>,
             pc' \in {"kill", "return", "exited"} => reported' \in 1..handled
      PROVE  CountInv'
  <2>1. Above' = Above /\ Below' = Below
    BY <1>2 DEF Above, Below, Floor
  <2> QED BY <1>1, <1>2, <2>1 DEF CountInv
<1>3. CASE TakeOver \/ EnterLoop \/ Sleep \/ PipeReady \/ Check
  <2>1. /\ UNCHANGED <<stack, count, last_signum, handled, episodes, reported>>
        /\ pc' \notin {"kill", "return", "exited"}
    BY <1>3 DEF TakeOver, EnterLoop, Sleep, PipeReady, Check, sigvars, mainvars
  <2> QED BY <1>2, <2>1
<1>4. CASE Report
  <2>1. /\ stack = <<>> /\ pc = "report" /\ reported' = count
        /\ UNCHANGED <<stack, count, last_signum, handled, episodes>>
    BY <1>4 DEF Report, sigvars
  <2>2. episodes >= 1 /\ count >= episodes
    BY <1>1, <2>1 DEF CountInv, SignalsInv, Below, Floor
  <2>3. count <= handled
    <3>1. Len(stack) = 0
      BY <2>1
    <3>2. Cardinality(Unstored(stack, 0)) \in Nat
      BY UnstoredFinite
    <3> QED BY <1>1, <3>1, <3>2 DEF CountInv, Above
  <2> QED BY <1>1, <1>2, <2>1, <2>2, <2>3
<1>5. CASE Kill \/ Return
  <2>1. /\ UNCHANGED <<stack, count, last_signum, handled, episodes, reported>>
        /\ pc \in {"kill", "return"}
    BY <1>5 DEF Kill, Return, sigvars, mainvars
  <2> QED BY <1>1, <1>2, <2>1 DEF CountInv
<1>6. ASSUME NEW s \in Signal, Send(s) PROVE CountInv'
  <2>1. /\ UNCHANGED <<stack, count, last_signum, handled, episodes, reported>>
        /\ pc' = pc \/ pc' = "killed"
    BY <1>6 DEF Send, Raise, sigvars, mainvars
  <2> QED BY <1>1, <1>2, <2>1 DEF CountInv
<1>7. ASSUME NEW s \in Signal, Deliver(s) PROVE CountInv'
  <2>1. /\ handled' = handled + 1 /\ UNCHANGED <<pc, count, last_signum, reported>>
        /\ episodes' = IF stack = <<>> THEN episodes + 1 ELSE episodes
    BY <1>7 DEF Deliver, sigvars, mainvars
  <2>2. Above' /\ Below'
    BY <1>1, <1>7, DeliverKeepsAbove, DeliverKeepsBelow DEF CountInv
  <2>3. episodes' \in Nat /\ episodes' >= 1
    BY <1>1, <2>1 DEF CountInv
  <2> QED BY <1>1, <2>1, <2>2, <2>3 DEF CountInv
<1>8. CASE Handler
  <2>1. /\ UNCHANGED <<handled, episodes, reported>> /\ stack # <<>>
        /\ pc' = pc \/ pc' = "check"
    BY <1>8 DEF Handler, Load, Store, Signum, Running, mainvars
  <2>2. Above' /\ Below'
    BY <1>1, <1>8, HandlerKeepsAbove, HandlerKeepsBelow DEF CountInv
  <2> QED BY <1>1, <2>1, <2>2 DEF CountInv
<1>9. CASE UNCHANGED vars
  <2>1. UNCHANGED <<pc, stack, count, last_signum, handled, episodes, reported>>
    BY <1>9 DEF vars, sigvars, mainvars
  <2> QED BY <1>1, <1>2, <2>1 DEF CountInv
<1> QED BY <1>3, <1>4, <1>5, <1>6, <1>7, <1>8, <1>9 DEF Next, Main

(* Signals that interrupt each other in the middle of count++ may be lost  *)
(* from the count, but one is counted each time main() is interrupted, and *)
(* none that did not happen (cpw.c:30, 219).                               *)
THEOREM SignalsCountIsInBounds == Spec => []CountIsInBounds
<1>1. Init => CountInv
  <2> SUFFICES ASSUME Init PROVE CountInv
    OBVIOUS
  <2>1. stack = <<>> /\ count = 0 /\ handled = 0 /\ episodes = 0 /\ last_signum = 0
        /\ pc = "cpw_init"
    BY DEF Init
  <2>2. Len(stack) = 0 /\ DOMAIN stack = {} /\ Unstored(stack, 0) = {}
    BY <2>1 DEF Unstored
  <2>3. Above
    BY <2>1, <2>2, FS_EmptySet DEF Above
  <2>4. Below
    BY <2>1, <2>2 DEF Below, Floor
  <2> QED BY <2>1, <2>3, <2>4 DEF CountInv
<1>2. SignalsInv /\ CountInv /\ [Next]_vars => CountInv'
  BY CountStep
<1>3. SignalsInv /\ CountInv => CountIsInBounds
  <2> SUFFICES ASSUME SignalsInv, CountInv, stack = <<>>
               PROVE  episodes <= count /\ count <= handled
    BY DEF CountIsInBounds, CountInv
  <2>1. Len(stack) = 0 /\ Cardinality(Unstored(stack, 0)) \in Nat /\ count \in Int
    BY UnstoredFinite, StackFacts
  <2> QED BY <2>1 DEF CountInv, Above, Below, Floor
<1> QED BY <1>1, <1>2, <1>3, SignalsInvariant, PTL DEF Spec
=============================================================================
