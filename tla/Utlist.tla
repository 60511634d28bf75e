------------------------------- MODULE Utlist -------------------------------
(***************************************************************************)
(* The linked lists of the program (utlist.h), pointer by pointer: the     *)
(* doubly-linked ones of buffers, sources and outputs, the singly-linked   *)
(* ones of commands, processes, arguments and errors.  The macros the      *)
(* program uses are the actions; a loop takes a step for each element.     *)
(*                                                                         *)
(* "lists" is what the callers mean the lists to be.  It is written beside *)
(* the pointers and never read by them.                                    *)
(***************************************************************************)
EXTENDS Integers, Sequences, SequencesExt

CONSTANTS Node,
          List,     \* the list heads
          Doubly,   \* those of doubly-linked lists
          NULL,
          Garbage   \* what is found in memory nobody wrote

ASSUME UtlistAssumption ==
  /\ NULL \notin Node
  /\ Doubly \subseteq List
  /\ Garbage \subseteq Node \cup {NULL} /\ Garbage # {}

VARIABLES
  head, next, prev,
  pc,        \* "idle", or the loop that runs
  on, arg,   \* its list and its element
  el, tmp,   \* where it is
  counter,   \* elements LL_COUNT or LL_SEARCH_SCALAR went past
  lists

pointers == <<head, next, prev, lists>>
loopvars == <<on, arg, el, tmp, counter>>
vars     == <<pointers, pc, loopvars>>

Members(l) == ToSet(lists[l])
Without(s, x) ==
  LET i == CHOOSE n \in DOMAIN s : s[n] = x
  IN  [n \in 1..Len(s) - 1 |-> IF n < i THEN s[n] ELSE s[n + 1]]

Init ==
  /\ head = [l \in List |-> NULL]
  /\ next \in [Node -> Garbage] /\ prev \in [Node -> Garbage]
  /\ pc = "idle"
  /\ on = NULL /\ arg = NULL /\ el = NULL /\ tmp = NULL /\ counter = 0
  /\ lists = [l \in List |-> <<>>]

Free(n) == \A l \in List : n \notin Members(l)
(* A loop begins on list l, with element n, at element e; and ends, its    *)
(* variables gone.                                                         *)
Begin(loop, l, n, e, t) ==
  pc' = loop /\ on' = l /\ arg' = n /\ el' = e /\ tmp' = t /\ counter' = 0
End ==
  pc' = "idle" /\ on' = NULL /\ arg' = NULL /\ el' = NULL /\ tmp' = NULL /\ counter' = 0

Append1(l, n) == lists' = [lists EXCEPT ![l] = Append(@, n)]
Delete1(l, n) == lists' = [lists EXCEPT ![l] = Without(@, n)]

-----------------------------------------------------------------------------
Fault_DL_APPEND(l, add) ==  \* the head does not learn of the new tail
  /\ l \in Doubly
  /\ \/ /\ head[l] # NULL
        /\ prev' = [prev EXCEPT ![add] = prev[head[l]]]
        /\ next' = [next EXCEPT ![prev[head[l]]] = add, ![add] = NULL]
        /\ UNCHANGED head
     \/ /\ head[l] = NULL
        /\ head' = [head EXCEPT ![l] = add]
        /\ prev' = [prev EXCEPT ![add] = add]
        /\ next' = [next EXCEPT ![add] = NULL]
  /\ Append1(l, add)

DL_APPEND(l, add) ==
  /\ l \in Doubly
  /\ \/ /\ head[l] # NULL
        /\ prev' = [prev EXCEPT ![add] = prev[head[l]], ![head[l]] = add]
        /\ next' = [next EXCEPT ![prev[head[l]]] = add, ![add] = NULL]
        /\ UNCHANGED head
     \/ /\ head[l] = NULL
        /\ head' = [head EXCEPT ![l] = add]
        /\ prev' = [prev EXCEPT ![add] = add]
        /\ next' = [next EXCEPT ![add] = NULL]
  /\ Append1(l, add)

DL_DELETE(l, del) ==
  /\ l \in Doubly
  /\ \/ /\ prev[del] = del
        /\ head' = [head EXCEPT ![l] = NULL]
        /\ UNCHANGED <<next, prev>>
     \/ /\ prev[del] # del /\ del = head[l]
        /\ prev' = [prev EXCEPT ![next[del]] = prev[del]]
        /\ head' = [head EXCEPT ![l] = next[del]]
        /\ UNCHANGED next
     \/ /\ prev[del] # del /\ del # head[l]
        /\ next' = [next EXCEPT ![prev[del]] = next[del]]
        /\ prev' = IF next[del] # NULL THEN [prev EXCEPT ![next[del]] = prev[del]]
                   ELSE [prev EXCEPT ![head[l]] = prev[del]]
        /\ UNCHANGED head
  /\ Delete1(l, del)

Add(l, n) ==
  /\ pc = "idle" /\ Free(n)
  /\ DL_APPEND(l, n)
  /\ UNCHANGED <<pc, loopvars>>

Delete(l, n) ==
  /\ pc = "idle" /\ n \in Members(l)
  /\ DL_DELETE(l, n)
  /\ UNCHANGED <<pc, loopvars>>

-----------------------------------------------------------------------------
Fault_LL_APPEND(l, add) ==  \* next of the new element is not cleared
  /\ pc = "idle" /\ l \notin Doubly /\ Free(add)
  /\ \/ /\ head[l] # NULL
        /\ Begin("append", l, add, NULL, head[l])
        /\ UNCHANGED <<head, lists>>
     \/ /\ head[l] = NULL
        /\ head' = [head EXCEPT ![l] = add]
        /\ Append1(l, add)
        /\ UNCHANGED <<pc, loopvars>>
  /\ UNCHANGED <<next, prev>>

LL_APPEND(l, add) ==
  /\ pc = "idle" /\ l \notin Doubly /\ Free(add)
  /\ next' = [next EXCEPT ![add] = NULL]
  /\ \/ /\ head[l] # NULL
        /\ Begin("append", l, add, NULL, head[l])
        /\ UNCHANGED <<head, lists>>
     \/ /\ head[l] = NULL
        /\ head' = [head EXCEPT ![l] = add]
        /\ Append1(l, add)
        /\ UNCHANGED <<pc, loopvars>>
  /\ UNCHANGED prev

AppendStep ==
  /\ pc = "append"
  /\ \/ /\ next[tmp] # NULL
        /\ tmp' = next[tmp]
        /\ UNCHANGED <<next, lists, pc, on, arg, el, counter>>
     \/ /\ next[tmp] = NULL
        /\ next' = [next EXCEPT ![tmp] = arg]
        /\ Append1(on, arg)
        /\ End
  /\ UNCHANGED <<head, prev>>

LL_DELETE(l, del) ==
  /\ pc = "idle" /\ l \notin Doubly /\ del \in Members(l)
  /\ \/ /\ head[l] = del
        /\ head' = [head EXCEPT ![l] = next[del]]
        /\ Delete1(l, del)
        /\ UNCHANGED <<pc, loopvars>>
     \/ /\ head[l] # del
        /\ Begin("delete", l, del, NULL, head[l])
        /\ UNCHANGED <<head, lists>>
  /\ UNCHANGED <<next, prev>>

DeleteStep ==
  /\ pc = "delete"
  /\ \/ /\ next[tmp] \notin {NULL, arg}
        /\ tmp' = next[tmp]
        /\ UNCHANGED <<next, lists, pc, on, arg, el, counter>>
     \/ /\ next[tmp] \in {NULL, arg}
        /\ next' = IF next[tmp] # NULL THEN [next EXCEPT ![tmp] = next[arg]] ELSE next
        /\ Delete1(on, arg)
        /\ End
  /\ UNCHANGED <<head, prev>>

-----------------------------------------------------------------------------
(* FOREACH_SAFE with DELETE and free() of every element, which ends every  *)
(* list of the program.                                                    *)
FOREACH_SAFE(l) ==
  /\ pc = "idle"
  /\ Begin("foreach", l, NULL, head[l], IF head[l] # NULL THEN next[head[l]] ELSE NULL)
  /\ UNCHANGED pointers

(* DELETE finds the element at the head; the loop goes on to tmp. *)
ForeachStep ==
  /\ pc = "foreach" /\ el # NULL
  /\ \/ on \in Doubly /\ DL_DELETE(on, el)
     \/ /\ on \notin Doubly /\ head[on] = el
        /\ head' = [head EXCEPT ![on] = next[el]]
        /\ Delete1(on, el) /\ UNCHANGED <<next, prev>>
  /\ el' = tmp
  /\ tmp' = IF tmp # NULL THEN next'[tmp] ELSE NULL
  /\ UNCHANGED <<pc, on, arg, counter>>

ForeachDone ==
  /\ pc = "foreach" /\ el = NULL
  /\ End
  /\ UNCHANGED pointers

(* An element in no list may have been freed, and its memory be used for   *)
(* something else.  The one LL_APPEND is about to link has not.            *)
Reuse(n) ==
  /\ Free(n) /\ n # arg
  /\ \E g, h \in Garbage : next' = [next EXCEPT ![n] = g] /\ prev' = [prev EXCEPT ![n] = h]
  /\ UNCHANGED <<head, lists, pc, loopvars>>

(* LL_SEARCH_SCALAR for the element arg, and LL_COUNT, which looks for     *)
(* none.  Doubly-linked lists are searched by it too.                      *)
LL_FOREACH(l, n) ==
  /\ pc = "idle"
  /\ Begin("search", l, n, head[l], NULL)
  /\ UNCHANGED pointers

Fault_SearchStep ==  \* the last element is not looked at
  /\ pc = "search"
  /\ \/ /\ el # NULL /\ el # arg /\ next[el] # NULL
        /\ el' = next[el] /\ counter' = counter + 1
        /\ UNCHANGED pc
     \/ /\ el = NULL \/ (el # NULL /\ (el = arg \/ next[el] = NULL))
        /\ pc' = "found"
        /\ UNCHANGED <<el, counter>>
  /\ UNCHANGED <<pointers, on, arg, tmp>>

SearchStep ==
  /\ pc = "search"
  /\ \/ /\ el \notin {NULL, arg}
        /\ el' = next[el] /\ counter' = counter + 1
        /\ UNCHANGED pc
     \/ /\ el \in {NULL, arg}
        /\ pc' = "found"
        /\ UNCHANGED <<el, counter>>
  /\ UNCHANGED <<pointers, on, arg, tmp>>

SearchDone ==
  /\ pc = "found"
  /\ End
  /\ UNCHANGED pointers

Next ==
  \/ \E l \in List, n \in Node : Add(l, n) \/ Delete(l, n) \/ LL_APPEND(l, n) \/ LL_DELETE(l, n)
  \/ AppendStep \/ DeleteStep
  \/ \E n \in Node : Reuse(n)
  \/ \E l \in List : FOREACH_SAFE(l)
  \/ ForeachStep \/ ForeachDone
  \/ \E l \in List, n \in Node \cup {NULL} : LL_FOREACH(l, n)
  \/ SearchStep \/ SearchDone

Spec == Init /\ [][Next]_vars

(* A loop once begun is run to its end. *)
Fairness == WF_vars(AppendStep \/ DeleteStep \/ ForeachStep \/ ForeachDone
                      \/ SearchStep \/ SearchDone)
FairSpec == Spec /\ Fairness

-----------------------------------------------------------------------------
(* The pointers are the lists: next leads from the head through every      *)
(* element in order to NULL, prev leads back, and prev of the head is the  *)
(* tail, on which DL_APPEND relies (utlist.h:522-534); also while a list   *)
(* is freed by a loop that walks it (utlist.h:591-595).                    *)
LinkedForth(l) ==
  LET s == lists[l] IN
  /\ head[l] = IF s = <<>> THEN NULL ELSE s[1]
  /\ \A i \in DOMAIN s : next[s[i]] = IF i = Len(s) THEN NULL ELSE s[i + 1]
LinkedBack(l) ==
  LET s == lists[l] IN
  \A i \in DOMAIN s : prev[s[i]] = IF i = 1 THEN s[Len(s)] ELSE s[i - 1]

PointersAreLists ==
  /\ \A l \in List : LinkedForth(l)
  /\ \A l \in Doubly : LinkedBack(l)

(* No element is in a list twice or in two lists. *)
InOneList ==
  \A l, m \in List : \A i \in DOMAIN lists[l], j \in DOMAIN lists[m] :
    lists[l][i] = lists[m][j] => l = m /\ i = j

(* A search ends at the element if it is in the list and at NULL if not,   *)
(* and a count counts them all (utlist.h:419-448).                         *)
SearchFinds ==
  pc = "found" => /\ el = IF arg \in Members(on) THEN arg ELSE NULL
                  /\ el = NULL => counter = Len(lists[on])

(* Every loop over a list ends. *)
LoopsEnd == pc # "idle" ~> pc = "idle"
=============================================================================
