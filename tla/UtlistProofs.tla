---------------------------- MODULE UtlistProofs ----------------------------
(***************************************************************************)
(* The pointers are the lists, for any number of elements and of list      *)
(* heads and whatever fresh memory holds, and a loop stands where it       *)
(* should.                                                                 *)
(*                                                                         *)
(* The inductive invariant UtlistInv has two halves.  ListsInv speaks of   *)
(* the pointers: an element is in one list at most (InOneList), so that    *)
(* what an operation on one list writes is in no other.  LoopInv says      *)
(* where each loop stands.                                                 *)
(***************************************************************************)
EXTENDS Utlist, TLAPS

Pointer == Node \cup {NULL}

ListsTypeOK == /\ head \in [List -> Pointer]
               /\ next \in [Node -> Pointer] /\ prev \in [Node -> Pointer]
               /\ lists \in [List -> Seq(Node)]

ListsInv == ListsTypeOK /\ InOneList /\ PointersAreLists

AppendInv == /\ on \in List \ Doubly /\ arg \in Node
             /\ Free(arg) /\ next[arg] = NULL
             /\ \E i \in DOMAIN lists[on] : tmp = lists[on][i]

DeleteInv == /\ on \in List \ Doubly
             /\ \E i, j \in DOMAIN lists[on] : i < j /\ tmp = lists[on][i] /\ arg = lists[on][j]

ForeachInv == /\ on \in List
              /\ el = head[on]
              /\ tmp = IF el = NULL THEN NULL ELSE next[el]

SearchInv == /\ on \in List /\ arg \in Pointer
             /\ counter \in 0..Len(lists[on])
             /\ el = IF counter = Len(lists[on]) THEN NULL ELSE lists[on][counter + 1]
             /\ \A i \in 1..counter : lists[on][i] # arg

LoopInv == /\ pc = "append" => AppendInv
           /\ pc = "delete" => DeleteInv
           /\ pc = "foreach" => ForeachInv
           /\ pc \in {"search", "found"} => SearchInv
           /\ pc = "found" => el \in {NULL, arg}

UtlistInv == ListsInv /\ LoopInv

-----------------------------------------------------------------------------
(* A list that reads s along next, and back along prev.                    *)
Forth(h, nx, s) ==
  /\ h = IF s = <<>> THEN NULL ELSE s[1]
  /\ \A i \in DOMAIN s : nx[s[i]] = IF i = Len(s) THEN NULL ELSE s[i + 1]
Back(pv, s) ==
  \A i \in DOMAIN s : pv[s[i]] = IF i = 1 THEN s[Len(s)] ELSE s[i - 1]

Distinct(s) == \A i, j \in DOMAIN s : s[i] = s[j] => i = j

LEMMA ListFacts ==
  ASSUME ListsInv, NEW l \in List
  PROVE  /\ lists[l] \in Seq(Node) /\ Distinct(lists[l])
         /\ Forth(head[l], next, lists[l])
         /\ l \in Doubly => Back(prev, lists[l])
<1>1. lists[l] \in Seq(Node)
  BY DEF ListsInv, ListsTypeOK
<1>2. Distinct(lists[l])
  BY DEF ListsInv, InOneList, Distinct
<1>3. Forth(head[l], next, lists[l])
  BY DEF ListsInv, PointersAreLists, LinkedForth, Forth
<1>4. l \in Doubly => Back(prev, lists[l])
  BY DEF ListsInv, PointersAreLists, LinkedBack, Back
<1> QED BY <1>1, <1>2, <1>3, <1>4

(* Membership, and what it means to be in no list, in terms of positions.  *)
LEMMA MemberPlace ==
  ASSUME ListsInv, NEW l \in List, NEW n
  PROVE  n \in Members(l) <=> \E i \in DOMAIN lists[l] : n = lists[l][i]
BY DEF Members, ToSet

LEMMA FreeFacts ==
  ASSUME ListsInv, NEW n, Free(n)
  PROVE  \A l \in List : \A i \in DOMAIN lists[l] : lists[l][i] # n
BY MemberPlace DEF Free

(* What is written to elements in S only, S being apart from the other     *)
(* lists, leaves those as they are.                                        *)
LEMMA ListChanged ==
  ASSUME ListsInv, NEW l \in List, NEW s \in Seq(Node), NEW S \in SUBSET Node,
         \A m \in List \ {l} : \A i \in DOMAIN lists[m] : lists[m][i] \notin S,
         \A i \in DOMAIN s : s[i] \in S,
         ListsTypeOK',
         \A m \in List \ {l} : head'[m] = head[m],
         \A n \in Node \ S : next'[n] = next[n] /\ prev'[n] = prev[n],
         lists' = [lists EXCEPT ![l] = s],
         Distinct(s), Forth(head'[l], next', s), l \in Doubly => Back(prev', s)
  PROVE  ListsInv'
<1>1. lists'[l] = s /\ \A m \in List \ {l} : lists'[m] = lists[m]
  BY DEF ListsInv, ListsTypeOK
<1>2. InOneList'
  <2> SUFFICES ASSUME NEW k \in List, NEW m \in List,
                      NEW i \in DOMAIN lists'[k], NEW j \in DOMAIN lists'[m],
                      lists'[k][i] = lists'[m][j]
               PROVE  k = m /\ i = j
    BY DEF InOneList
  <2>1. CASE k = l /\ m = l
    BY <1>1, <2>1 DEF Distinct
  <2>2. CASE k = l /\ m # l
    BY <1>1, <2>2
  <2>3. CASE k # l /\ m = l
    BY <1>1, <2>3
  <2>4. CASE k # l /\ m # l
    BY <1>1, <2>4 DEF ListsInv, InOneList
  <2> QED BY <2>1, <2>2, <2>3, <2>4
<1>3. ASSUME NEW m \in List \ {l}, NEW i \in DOMAIN lists[m]
      PROVE  /\ next'[lists[m][i]] = next[lists[m][i]]
             /\ prev'[lists[m][i]] = prev[lists[m][i]]
  <2>1. lists[m] \in Seq(Node)
    BY DEF ListsInv, ListsTypeOK
  <2>2. lists[m][i] \in Node \ S
    BY <2>1
  <2> QED BY <2>2
<1>4. ASSUME NEW m \in List PROVE LinkedForth(m)'
  <2>1. CASE m = l
    BY <1>1, <2>1 DEF LinkedForth, Forth
  <2>2. CASE m # l
    BY <1>1, <1>3, <2>2 DEF LinkedForth, ListsInv, PointersAreLists
  <2> QED BY <2>1, <2>2
<1>5. ASSUME NEW m \in Doubly PROVE LinkedBack(m)'
  <2>0. m \in List
    BY UtlistAssumption
  <2>1. CASE m = l
    BY <1>1, <2>1 DEF LinkedBack, Back
  <2>2. CASE m # l
    BY <1>1, <1>3, <2>0, <2>2 DEF LinkedBack, ListsInv, PointersAreLists
  <2> QED BY <2>1, <2>2
<1> QED BY <1>2, <1>4, <1>5 DEF ListsInv, PointersAreLists

(* The elements of one list, and one that is in none, are apart from the   *)
(* other lists.                                                            *)
Own(l) == {n \in Node : Free(n) \/ n \in Members(l)}

LEMMA OwnIsApart ==
  ASSUME ListsInv, NEW l \in List
  PROVE  /\ Own(l) \in SUBSET Node
         /\ \A m \in List \ {l} : \A i \in DOMAIN lists[m] : lists[m][i] \notin Own(l)
         /\ \A i \in DOMAIN lists[l] : lists[l][i] \in Own(l)
<1>1. Own(l) \in SUBSET Node
  BY DEF Own
<1>2. ASSUME NEW m \in List \ {l}, NEW i \in DOMAIN lists[m] PROVE lists[m][i] \notin Own(l)
  <2>1. ~ Free(lists[m][i])
    BY FreeFacts
  <2>2. lists[m][i] \notin Members(l)
    BY MemberPlace DEF ListsInv, InOneList
  <2> QED BY <2>1, <2>2 DEF Own
<1>3. ASSUME NEW i \in DOMAIN lists[l] PROVE lists[l][i] \in Own(l)
  <2>1. lists[l] \in Seq(Node)
    BY DEF ListsInv, ListsTypeOK
  <2> QED BY <2>1, MemberPlace DEF Own
<1> QED BY <1>1, <1>2, <1>3

(* Append and Without on sequences without repetition.                     *)
LEMMA AppendFacts ==
  ASSUME NEW s \in Seq(Node), NEW x \in Node
  PROVE  /\ Append(s, x) \in Seq(Node) /\ Len(Append(s, x)) = Len(s) + 1
         /\ Append(s, x) # <<>>
         /\ DOMAIN Append(s, x) = 1..Len(s) + 1
         /\ Append(s, x)[Len(s) + 1] = x
         /\ \A i \in 1..Len(s) : Append(s, x)[i] = s[i]
OBVIOUS

LEMMA WithoutFacts ==
  ASSUME NEW s \in Seq(Node), Distinct(s), NEW p \in DOMAIN s
  PROVE  LET w == Without(s, s[p]) IN
         /\ w \in Seq(Node) /\ Len(w) = Len(s) - 1 /\ DOMAIN w = 1..Len(s) - 1
         /\ \A i \in 1..Len(s) - 1 : w[i] = IF i < p THEN s[i] ELSE s[i + 1]
         /\ Distinct(w)
<1> DEFINE w == Without(s, s[p])
<1>1. Len(s) \in Nat /\ p \in 1..Len(s) /\ DOMAIN s = 1..Len(s) /\ \A i \in 1..Len(s) : s[i] \in Node
  OBVIOUS
<1>2. (CHOOSE n \in DOMAIN s : s[n] = s[p]) = p
  BY DEF Distinct
<1>3. w = [n \in 1..Len(s) - 1 |-> IF n < p THEN s[n] ELSE s[n + 1]]
  BY <1>2 DEF Without
<1> HIDE DEF w
<1>4. \A i \in 1..Len(s) - 1 : w[i] = IF i < p THEN s[i] ELSE s[i + 1]
  BY <1>3
<1>5. DOMAIN w = 1..Len(s) - 1
  BY <1>3
<1>6. w \in Seq(Node) /\ Len(w) = Len(s) - 1
  <2>1. Len(s) - 1 \in Nat
    BY <1>1
  <2>2. w \in [1..Len(s) - 1 -> Node]
    BY <1>1, <1>3
  <2> QED BY <2>1, <2>2
<1>7. Distinct(w)
  <2> SUFFICES ASSUME NEW i \in 1..Len(s) - 1, NEW j \in 1..Len(s) - 1, w[i] = w[j] PROVE i = j
    BY <1>5 DEF Distinct
  <2>1. \A a, b \in 1..Len(s) : s[a] = s[b] => a = b
    BY <1>1 DEF Distinct
  <2>2. CASE i < p /\ j < p
    BY <1>1, <1>4, <2>1, <2>2
  <2>3. CASE i < p /\ ~ (j < p)
    <3>1. s[i] = s[j + 1]
      BY <1>4, <2>3
    <3> QED BY <1>1, <2>1, <2>3, <3>1
  <2>4. CASE ~ (i < p) /\ j < p
    <3>1. s[i + 1] = s[j]
      BY <1>4, <2>4
    <3> QED BY <1>1, <2>1, <2>4, <3>1
  <2>5. CASE ~ (i < p) /\ ~ (j < p)
    <3>1. s[i + 1] = s[j + 1]
      BY <1>4, <2>5
    <3> QED BY <1>1, <2>1, <2>5, <3>1
  <2> QED BY <2>2, <2>3, <2>4, <2>5
<1> QED BY <1>4, <1>5, <1>6, <1>7 DEF w

-----------------------------------------------------------------------------
(* The macros: what each makes of the list it works on. *)

LEMMA DLAppendStep ==
  ASSUME ListsInv, NEW l \in List, NEW add \in Node, Free(add), DL_APPEND(l, add)
  PROVE  ListsInv'
<1> DEFINE s == lists[l]
           t == Append(s, add)
<1>1. /\ s \in Seq(Node) /\ Distinct(s) /\ Forth(head[l], next, s) /\ Back(prev, s)
      /\ l \in Doubly /\ lists' = [lists EXCEPT ![l] = t]
  BY ListFacts DEF DL_APPEND, Append1
<1>2. /\ t \in Seq(Node) /\ Len(t) = Len(s) + 1 /\ DOMAIN t = 1..Len(s) + 1 /\ t # <<>>
      /\ t[Len(s) + 1] = add /\ \A i \in 1..Len(s) : t[i] = s[i]
  BY <1>1, AppendFacts
<1>3. /\ Len(s) \in Nat /\ DOMAIN s = 1..Len(s)
      /\ \A i \in 1..Len(s) : s[i] \in Node /\ s[i] # add
  BY <1>1, FreeFacts
<1>4. NULL \notin Node
  BY UtlistAssumption
<1>5. head \in [List -> Pointer] /\ next \in [Node -> Pointer] /\ prev \in [Node -> Pointer]
        /\ lists \in [List -> Seq(Node)]
  BY DEF ListsInv, ListsTypeOK
<1>6. Own(l) \in SUBSET Node /\ add \in Own(l) /\ \A i \in 1..Len(s) : s[i] \in Own(l)
  BY <1>3, OwnIsApart DEF Own
<1> HIDE DEF t, s
<1>7. lists' \in [List -> Seq(Node)]
  BY <1>1, <1>2, <1>5
<1>8. Distinct(t)
  <2>1. \A i, j \in 1..Len(s) : s[i] = s[j] => i = j
    BY <1>1, <1>3 DEF Distinct
  <2> QED BY <1>2, <1>3, <2>1 DEF Distinct
<1>9. \A i \in DOMAIN t : t[i] \in Own(l)
  BY <1>2, <1>3, <1>6
<1>10. CASE head[l] # NULL
  <2>1. s # <<>> /\ head[l] = s[1] /\ Len(s) >= 1
    BY <1>1, <1>10 DEF Forth
  <2>2. prev[head[l]] = s[Len(s)]
    BY <1>1, <1>3, <2>1 DEF Back
  <2>3. /\ prev' = [prev EXCEPT ![add] = s[Len(s)], ![s[1]] = add]
        /\ next' = [next EXCEPT ![s[Len(s)]] = add, ![add] = NULL]
        /\ head' = head
    BY <1>10, <2>1, <2>2 DEF DL_APPEND
  <2>4. s[1] \in Node /\ s[Len(s)] \in Node /\ s[1] # add /\ s[Len(s)] # add
    BY <1>3, <2>1
  <2>5. ListsTypeOK'
    BY <1>5, <1>7, <2>3, <2>4 DEF ListsTypeOK, Pointer
  <2>6. \A i, j \in 1..Len(s) : s[i] = s[j] => i = j
    BY <1>1, <1>3 DEF Distinct
  <2>7. Forth(head'[l], next', t)
    <3>1. head'[l] = t[1]
      BY <1>2, <2>1, <2>3
    <3>2. ASSUME NEW i \in 1..Len(s) + 1
          PROVE  next'[t[i]] = IF i = Len(t) THEN NULL ELSE t[i + 1]
      <4>1. CASE i = Len(s) + 1
        BY <1>2, <1>5, <2>3, <4>1
      <4>2. CASE i = Len(s)
        <5>1. next'[s[i]] = add
          BY <1>5, <2>3, <2>4, <4>2
        <5>2. i \in 1..Len(s) /\ i + 1 = Len(s) + 1 /\ i # Len(t)
          BY <1>2, <2>1, <4>2
        <5>3. t[i] = s[i] /\ t[i + 1] = add
          BY <1>2, <5>2
        <5> QED BY <5>1, <5>2, <5>3
      <4>3. CASE i < Len(s)
        <5>1. s[i] # s[Len(s)] /\ s[i] # add /\ s[i] \in Node
          BY <1>3, <2>1, <2>6, <4>3
        <5>2. next'[s[i]] = next[s[i]]
          BY <1>5, <2>3, <5>1
        <5>3. next[s[i]] = s[i + 1]
          BY <1>1, <1>3, <4>3 DEF Forth
        <5> QED BY <1>2, <1>3, <4>3, <5>2, <5>3
      <4>4. i = Len(s) + 1 \/ i = Len(s) \/ i < Len(s)
        <5>1. Len(s) \in Nat
          BY <1>3
        <5> QED BY <5>1
      <4> QED BY <4>1, <4>2, <4>3, <4>4
    <3> QED BY <1>2, <3>1, <3>2 DEF Forth
  <2>8. Back(prev', t)
    <3>1. ASSUME NEW i \in 1..Len(s) + 1
          PROVE  prev'[t[i]] = IF i = 1 THEN t[Len(t)] ELSE t[i - 1]
      <4>1. CASE i = Len(s) + 1
        <5>1. prev'[add] = s[Len(s)]
          BY <1>5, <2>3, <2>4
        <5> QED BY <1>2, <1>3, <2>1, <4>1, <5>1
      <4>2. CASE i = 1
        <5>1. prev'[s[1]] = add
          BY <1>5, <2>3, <2>4
        <5> QED BY <1>2, <1>3, <2>1, <4>2, <5>1
      <4>3. CASE i # 1 /\ i # Len(s) + 1
        <5>1. s[i] # s[1] /\ s[i] # add /\ s[i] \in Node
          BY <1>3, <2>1, <2>6, <4>3
        <5>2. prev'[s[i]] = prev[s[i]]
          BY <1>5, <2>3, <5>1
        <5>3. prev[s[i]] = s[i - 1]
          <6>1. i \in DOMAIN s /\ i # 1
            BY <1>3, <4>3
          <6> QED BY <1>1, <6>1 DEF Back
        <5> QED BY <1>2, <1>3, <4>3, <5>2, <5>3
      <4> QED BY <4>1, <4>2, <4>3
    <3> QED BY <1>2, <3>1 DEF Back
  <2>9. \A n \in Node \ Own(l) : next'[n] = next[n] /\ prev'[n] = prev[n]
    <3>1. s[1] \in Own(l) /\ s[Len(s)] \in Own(l)
      BY <1>3, <1>6, <2>1
    <3> QED BY <1>5, <1>6, <2>3, <3>1
  <2>10. \A m \in List \ {l} : head'[m] = head[m]
    BY <2>3
  <2> QED BY <1>1, <1>2, <1>6, <1>8, <1>9, <2>5, <2>7, <2>8, <2>9, <2>10, ListChanged, OwnIsApart
<1>11. CASE head[l] = NULL
  <2>1. s = <<>>
    <3>1. s # <<>> => head[l] = s[1] /\ s[1] \in Node
      BY <1>1 DEF Forth
    <3> QED BY <1>4, <1>11, <3>1
  <2>2. /\ head' = [head EXCEPT ![l] = add]
        /\ prev' = [prev EXCEPT ![add] = add]
        /\ next' = [next EXCEPT ![add] = NULL]
    BY <1>11 DEF DL_APPEND
  <2>3. ListsTypeOK'
    BY <1>5, <1>7, <2>2 DEF ListsTypeOK, Pointer
  <2>4. Len(s) = 0 /\ DOMAIN t = {1} /\ t[1] = add /\ Len(t) = 1
    BY <1>2, <2>1
  <2>5. Forth(head'[l], next', t) /\ Back(prev', t)
    BY <1>2, <1>5, <2>2, <2>4 DEF Forth, Back
  <2>6. \A n \in Node \ Own(l) : next'[n] = next[n] /\ prev'[n] = prev[n]
    BY <1>5, <1>6, <2>2
  <2>7. \A m \in List \ {l} : head'[m] = head[m]
    BY <1>5, <2>2
  <2> QED BY <1>1, <1>2, <1>6, <1>8, <1>9, <2>3, <2>5, <2>6, <2>7, ListChanged, OwnIsApart
<1> QED BY <1>10, <1>11

LEMMA DLDeleteStep ==
  ASSUME ListsInv, NEW l \in List, NEW p \in DOMAIN lists[l], DL_DELETE(l, lists[l][p])
  PROVE  ListsInv'
<1> DEFINE s == lists[l]
           n == Len(s)
           del == s[p]
           w == Without(s, del)
<1>1. /\ s \in Seq(Node) /\ Distinct(s) /\ Forth(head[l], next, s) /\ Back(prev, s)
      /\ l \in Doubly /\ lists' = [lists EXCEPT ![l] = w]
  BY ListFacts DEF DL_DELETE, Delete1
<1>2. /\ w \in Seq(Node) /\ Len(w) = n - 1 /\ DOMAIN w = 1..n - 1 /\ Distinct(w)
      /\ \A i \in 1..n - 1 : w[i] = IF i < p THEN s[i] ELSE s[i + 1]
  BY <1>1, WithoutFacts
<1>3. n \in Nat /\ p \in 1..n /\ DOMAIN s = 1..n /\ \A i \in 1..n : s[i] \in Node
  BY <1>1
<1>4. NULL \notin Node
  BY UtlistAssumption
<1>5. head \in [List -> Pointer] /\ next \in [Node -> Pointer] /\ prev \in [Node -> Pointer]
        /\ lists \in [List -> Seq(Node)]
  BY DEF ListsInv, ListsTypeOK
<1>6. Own(l) \in SUBSET Node /\ \A i \in 1..n : s[i] \in Own(l)
  BY <1>3, OwnIsApart
<1>7. \A i, j \in 1..n : s[i] = s[j] => i = j
  BY <1>1, <1>3 DEF Distinct
<1>8. /\ head[l] = s[1]
      /\ \A i \in 1..n : next[s[i]] = IF i = n THEN NULL ELSE s[i + 1]
      /\ \A i \in 1..n : prev[s[i]] = IF i = 1 THEN s[n] ELSE s[i - 1]
  <2>1. s # <<>>
    BY <1>3
  <2> QED BY <1>1, <1>3, <2>1 DEF Forth, Back
<1>9. \/ prev[del] = del /\ head' = [head EXCEPT ![l] = NULL] /\ next' = next /\ prev' = prev
      \/ /\ prev[del] # del /\ del = head[l] /\ prev' = [prev EXCEPT ![next[del]] = prev[del]]
         /\ head' = [head EXCEPT ![l] = next[del]] /\ next' = next
      \/ /\ prev[del] # del /\ del # head[l] /\ next' = [next EXCEPT ![prev[del]] = next[del]]
         /\ prev' = IF next[del] # NULL THEN [prev EXCEPT ![next[del]] = prev[del]]
                    ELSE [prev EXCEPT ![head[l]] = prev[del]]
         /\ head' = head
  BY DEF DL_DELETE
<1>10. lists' \in [List -> Seq(Node)]
  BY <1>1, <1>2, <1>5
<1> HIDE DEF n, del, w, s
<1>11. del = s[p] /\ del \in Node
  BY <1>3 DEF del
<1>12. \A i \in DOMAIN w : w[i] \in Own(l)
  BY <1>2, <1>3, <1>6
<1>13. SUFFICES ASSUME TRUE
                PROVE  /\ ListsTypeOK'
                       /\ \A m \in List \ {l} : head'[m] = head[m]
                       /\ \A x \in Node \ Own(l) : next'[x] = next[x] /\ prev'[x] = prev[x]
                       /\ Forth(head'[l], next', w) /\ Back(prev', w)
  BY <1>1, <1>2, <1>6, <1>12, ListChanged, OwnIsApart
<1>14. CASE prev[del] = del
  <2>1. n = 1
    <3>1. p = 1 => s[n] = s[p]
      BY <1>3, <1>8, <1>11, <1>14
    <3>2. p # 1 => s[p - 1] = s[p]
      BY <1>3, <1>8, <1>11, <1>14
    <3> QED BY <1>3, <1>7, <3>1, <3>2
  <2>2. Len(w) = 0 /\ w = <<>> /\ DOMAIN w = {}
    BY <1>2, <2>1
  <2>3. head' = [head EXCEPT ![l] = NULL] /\ next' = next /\ prev' = prev
    BY <1>9, <1>14
  <2>4. Forth(head'[l], next', w) /\ Back(prev', w)
    BY <1>5, <2>2, <2>3 DEF Forth, Back
  <2>5. ListsTypeOK'
    BY <1>5, <1>10, <2>3 DEF ListsTypeOK, Pointer
  <2> QED BY <1>5, <2>3, <2>4, <2>5
<1>15. CASE prev[del] # del /\ del = head[l]
  <2>1. p = 1
    <3>1. 1 \in 1..n
      BY <1>3
    <3>2. s[1] = s[p]
      BY <1>8, <1>11, <1>15
    <3> QED BY <1>3, <1>7, <3>1, <3>2
  <2>2. n # 1
    BY <1>8, <1>11, <1>15, <2>1, <1>3
  <2>3. n >= 2 /\ 2 \in 1..n /\ 1 \in 1..n /\ n \in 1..n
    BY <1>3, <2>2
  <2>4. next[del] = s[2] /\ prev[del] = s[n] /\ s[2] \in Node /\ s[n] \in Node
    BY <1>3, <1>8, <1>11, <2>1, <2>3
  <2>5. head' = [head EXCEPT ![l] = s[2]] /\ next' = next /\ prev' = [prev EXCEPT ![s[2]] = s[n]]
    BY <1>9, <1>15, <2>4
  <2>6. ListsTypeOK'
    BY <1>5, <1>10, <2>4, <2>5 DEF ListsTypeOK, Pointer
  <2>7. \A i \in 1..n - 1 : w[i] = s[i + 1]
    BY <1>2, <1>3, <2>1
  <2>8. w # <<>> /\ w[1] = s[2] /\ w[n - 1] = s[n]
    BY <1>2, <1>3, <2>3, <2>7
  <2>9. ASSUME NEW i \in 1..n - 1
        PROVE  /\ next'[w[i]] = IF i = n - 1 THEN NULL ELSE w[i + 1]
               /\ prev'[w[i]] = IF i = 1 THEN w[n - 1] ELSE w[i - 1]
    <3>1. i + 1 \in 1..n /\ w[i] = s[i + 1] /\ (i + 1 = n <=> i = n - 1)
      BY <1>3, <2>7
    <3>2. next'[w[i]] = IF i + 1 = n THEN NULL ELSE s[(i + 1) + 1]
      BY <1>8, <2>5, <3>1
    <3>3. i # n - 1 => i + 1 \in 1..n - 1 /\ w[i + 1] = s[(i + 1) + 1]
      <4>1. i # n - 1 => i + 1 \in 1..n - 1
        BY <1>3
      <4> QED BY <2>7, <4>1
    <3>4. CASE i = 1
      <4>1. prev'[s[2]] = s[n]
        BY <1>5, <2>4, <2>5
      <4> QED BY <2>8, <3>1, <3>2, <3>3, <3>4, <4>1
    <3>5. CASE i # 1
      <4>1. s[i + 1] # s[2] /\ s[i + 1] \in Node
        BY <1>3, <1>7, <2>3, <3>1, <3>5
      <4>2. prev'[s[i + 1]] = s[i]
        <5>1. prev'[s[i + 1]] = prev[s[i + 1]]
          BY <1>5, <2>5, <4>1
        <5>2. (i + 1) - 1 = i /\ i + 1 # 1
          BY <1>3
        <5> QED BY <1>8, <3>1, <5>1, <5>2
      <4>3. i - 1 \in 1..n - 1 /\ w[i - 1] = s[i]
        <5>1. i - 1 \in 1..n - 1 /\ (i - 1) + 1 = i
          BY <1>3, <3>5
        <5> QED BY <2>7, <5>1
      <4> QED BY <3>1, <3>2, <3>3, <3>5, <4>2, <4>3
    <3> QED BY <3>4, <3>5
  <2>10. Forth(head'[l], next', w) /\ Back(prev', w)
    BY <1>2, <1>5, <2>5, <2>8, <2>9 DEF Forth, Back
  <2>11. \A x \in Node \ Own(l) : next'[x] = next[x] /\ prev'[x] = prev[x]
    BY <1>5, <1>6, <2>3, <2>5
  <2> QED BY <1>5, <2>5, <2>6, <2>10, <2>11
<1>16. CASE prev[del] # del /\ del # head[l]
  <2>1. p # 1
    BY <1>8, <1>11, <1>16
  <2>2. p - 1 \in 1..n /\ n >= 2 /\ 1 \in 1..n /\ p >= 2 /\ p <= n
    BY <1>3, <2>1
  <2>3. /\ prev[del] = s[p - 1] /\ s[p - 1] \in Node /\ s[1] \in Node
        /\ next[del] = IF p = n THEN NULL ELSE s[p + 1]
    BY <1>3, <1>8, <1>11, <2>1, <2>2
  <2>4. p # n => p + 1 \in 1..n /\ s[p + 1] \in Node /\ s[p + 1] # NULL
    <3>1. p # n => p + 1 \in 1..n
      BY <1>3
    <3> QED BY <1>3, <1>4, <3>1
  <2>5. /\ head' = head
        /\ next' = [next EXCEPT ![s[p - 1]] = IF p = n THEN NULL ELSE s[p + 1]]
        /\ prev' = [prev EXCEPT ![IF p = n THEN s[1] ELSE s[p + 1]] = s[p - 1]]
    BY <1>8, <1>9, <1>16, <2>3, <2>4
  <2>6. ListsTypeOK'
    BY <1>5, <1>10, <2>3, <2>4, <2>5 DEF ListsTypeOK, Pointer
  <2>7. w # <<>> /\ w[1] = s[1] /\ head'[l] = w[1]
    <3>1. 1 \in 1..n - 1 /\ 1 < p
      BY <1>3, <2>2
    <3> QED BY <1>2, <1>8, <2>5, <3>1
  <2>8. w[n - 1] = IF p = n THEN s[n - 1] ELSE s[n]
    <3>1. n - 1 \in 1..n - 1 /\ (n - 1 < p <=> p = n) /\ (n - 1) + 1 = n
      BY <1>3, <2>2
    <3> QED BY <1>2, <3>1
  <2>9. ASSUME NEW i \in 1..n - 1
        PROVE  next'[w[i]] = IF i = n - 1 THEN NULL ELSE w[i + 1]
    <3>0. i \in 1..n /\ i + 1 \in 1..n /\ i # n
      BY <1>3
    <3>00. w[i] = IF i < p THEN s[i] ELSE s[i + 1]
      BY <1>2
    <3>1. CASE i = p - 1
      <4>1. i < p /\ i + 1 = p /\ ~ (i + 1 < p) /\ (i = n - 1 <=> p = n)
        BY <1>3, <3>1
      <4>2. next'[s[p - 1]] = IF p = n THEN NULL ELSE s[p + 1]
        BY <1>5, <2>3, <2>5
      <4>3. i # n - 1 => i + 1 \in 1..n - 1
        BY <1>3
      <4>4. i # n - 1 => w[i + 1] = s[p + 1]
        BY <1>2, <4>1, <4>3
      <4> QED BY <3>00, <3>1, <4>1, <4>2, <4>4
    <3>2. CASE i < p - 1
      <4>1. i < p /\ i + 1 < p /\ i # n - 1 /\ i + 1 \in 1..n - 1 /\ i # p - 1
        BY <1>3, <3>2
      <4>2. s[i] # s[p - 1] /\ s[i] \in Node
        BY <1>3, <1>7, <2>2, <3>0, <4>1
      <4>3. next'[s[i]] = next[s[i]]
        BY <1>5, <2>5, <4>2
      <4>4. next[s[i]] = s[i + 1]
        BY <1>8, <3>0
      <4>5. w[i + 1] = s[i + 1]
        BY <1>2, <4>1
      <4> QED BY <3>00, <4>1, <4>3, <4>4, <4>5
    <3>3. CASE i > p - 1
      <4>1. ~ (i < p) /\ ~ (i + 1 < p) /\ i + 1 # p - 1 /\ (i + 1 = n <=> i = n - 1)
        BY <1>3, <3>3
      <4>2. s[i + 1] # s[p - 1] /\ s[i + 1] \in Node
        BY <1>3, <1>7, <2>2, <3>0, <4>1
      <4>3. next'[s[i + 1]] = next[s[i + 1]]
        BY <1>5, <2>5, <4>2
      <4>4. next[s[i + 1]] = IF i = n - 1 THEN NULL ELSE s[(i + 1) + 1]
        BY <1>8, <3>0, <4>1
      <4>5. i # n - 1 => w[i + 1] = s[(i + 1) + 1]
        <5>1. i # n - 1 => i + 1 \in 1..n - 1
          BY <1>3
        <5> QED BY <1>2, <4>1, <5>1
      <4> QED BY <3>00, <4>1, <4>3, <4>4, <4>5
    <3>4. i = p - 1 \/ i < p - 1 \/ i > p - 1
      BY <1>3
    <3> QED BY <3>1, <3>2, <3>3, <3>4
  <2>10. ASSUME NEW i \in 1..n - 1
         PROVE  prev'[w[i]] = IF i = 1 THEN w[n - 1] ELSE w[i - 1]
    <3>0. i \in 1..n /\ i + 1 \in 1..n
      BY <1>3
    <3>00. w[i] = IF i < p THEN s[i] ELSE s[i + 1]
      BY <1>2
    <3>1. CASE i < p /\ i = 1
      <4>1. w[i] = s[1]
        BY <3>00, <3>1
      <4>2. CASE p = n
        <5>1. prev'[s[1]] = s[p - 1]
          BY <1>5, <2>3, <2>5, <4>2
        <5> QED BY <2>8, <3>1, <4>1, <4>2, <5>1
      <4>3. CASE p # n
        <5>1. s[1] # s[p + 1]
          BY <1>3, <1>7, <2>2, <2>4, <4>3
        <5>2. prev'[s[1]] = prev[s[1]]
          BY <1>5, <2>3, <2>5, <4>3, <5>1
        <5> QED BY <1>8, <2>2, <2>8, <3>1, <4>1, <4>3, <5>2
      <4> QED BY <4>2, <4>3
    <3>2. CASE i < p /\ i # 1
      <4>1. i - 1 \in 1..n - 1 /\ i - 1 < p /\ i # p + 1
        BY <1>3, <3>2
      <4>2. w[i - 1] = s[i - 1]
        BY <1>2, <4>1
      <4>3. s[i] # s[1] /\ s[i] \in Node /\ (p # n => s[i] # s[p + 1])
        BY <1>3, <1>7, <2>2, <2>4, <3>0, <3>2, <4>1
      <4>4. prev'[s[i]] = prev[s[i]]
        BY <1>5, <2>3, <2>4, <2>5, <4>3
      <4>5. prev[s[i]] = s[i - 1]
        BY <1>8, <3>0, <3>2
      <4> QED BY <3>00, <3>2, <4>2, <4>4, <4>5
    <3>3. CASE i = p
      <4>1. ~ (i < p) /\ i # 1 /\ p # n /\ i - 1 \in 1..n - 1 /\ i - 1 < p
        BY <1>3, <2>1, <3>3
      <4>2. w[i - 1] = s[p - 1]
        BY <1>2, <3>3, <4>1
      <4>3. prev'[s[p + 1]] = s[p - 1]
        BY <1>5, <2>4, <2>5, <4>1
      <4> QED BY <3>00, <3>3, <4>1, <4>2, <4>3
    <3>4. CASE i > p
      <4>1. /\ ~ (i < p) /\ i # 1 /\ p # n /\ i - 1 \in 1..n - 1 /\ ~ (i - 1 < p)
            /\ i + 1 # p + 1 /\ (i - 1) + 1 = i /\ (i + 1) - 1 = i /\ i + 1 # 1
        BY <1>3, <3>4
      <4>2. w[i - 1] = s[i]
        <5>1. w[i - 1] = s[(i - 1) + 1]
          BY <1>2, <4>1
        <5> QED BY <4>1, <5>1
      <4>3. s[i + 1] # s[p + 1] /\ s[i + 1] \in Node
        BY <1>3, <1>7, <2>4, <3>0, <4>1
      <4>4. prev'[s[i + 1]] = prev[s[i + 1]]
        BY <1>5, <2>4, <2>5, <4>1, <4>3
      <4>5. prev[s[i + 1]] = s[i]
        <5>1. prev[s[i + 1]] = s[(i + 1) - 1]
          BY <1>8, <3>0, <4>1
        <5> QED BY <4>1, <5>1
      <4> QED BY <3>00, <4>1, <4>2, <4>4, <4>5
    <3>5. i < p \/ i = p \/ i > p
      BY <1>3
    <3> QED BY <3>1, <3>2, <3>3, <3>4, <3>5
  <2>11. Forth(head'[l], next', w)
    BY <1>2, <2>7, <2>9 DEF Forth
  <2>12. Back(prev', w)
    BY <1>2, <2>10 DEF Back
  <2>13. \A x \in Node \ Own(l) : next'[x] = next[x] /\ prev'[x] = prev[x]
    <3>1. s[1] \in Own(l) /\ s[p - 1] \in Own(l) /\ (p # n => s[p + 1] \in Own(l))
      BY <1>6, <2>2, <2>4
    <3> QED BY <1>5, <1>6, <2>5, <3>1
  <2> QED BY <2>5, <2>6, <2>11, <2>12, <2>13
<1> QED BY <1>14, <1>15, <1>16

(* What is written to an element that is in no list changes none.          *)
LEMMA FreeWritten ==
  ASSUME ListsInv, NEW x \in Node, Free(x), NEW g \in Pointer, NEW h \in Pointer,
         next' = [next EXCEPT ![x] = g], prev' = prev \/ prev' = [prev EXCEPT ![x] = h],
         UNCHANGED <<head, lists>>
  PROVE  ListsInv'
<1>1. ListsTypeOK'
  BY DEF ListsInv, ListsTypeOK
<1>2. InOneList'
  BY DEF ListsInv, InOneList
<1>3. ASSUME NEW l \in List, NEW i \in DOMAIN lists[l]
      PROVE  next'[lists[l][i]] = next[lists[l][i]] /\ prev'[lists[l][i]] = prev[lists[l][i]]
  <2>1. lists[l][i] # x /\ lists[l][i] \in Node
    BY FreeFacts DEF ListsInv, ListsTypeOK
  <2> QED BY <2>1 DEF ListsInv, ListsTypeOK
<1>4. ASSUME NEW l \in List PROVE LinkedForth(l)'
  BY <1>3 DEF LinkedForth, ListsInv, PointersAreLists
<1>5. ASSUME NEW l \in Doubly PROVE LinkedBack(l)'
  <2>1. l \in List
    BY UtlistAssumption
  <2> QED BY <1>3, <2>1 DEF LinkedBack, ListsInv, PointersAreLists
<1> QED BY <1>1, <1>2, <1>4, <1>5 DEF ListsInv, PointersAreLists

(* A list and the element it gets, for both ways LL_APPEND links it.       *)
LEMMA LLAppendFirst ==
  ASSUME ListsInv, NEW l \in List \ Doubly, NEW add \in Node, Free(add),
         head[l] = NULL, head' = [head EXCEPT ![l] = add],
         next' = [next EXCEPT ![add] = NULL], prev' = prev, Append1(l, add)
  PROVE  ListsInv'
<1> DEFINE t == <<add>>
<1>1. lists[l] \in Seq(Node) /\ Forth(head[l], next, lists[l])
  BY ListFacts
<1>2. lists[l] = <<>>
  <2>1. lists[l] # <<>> => head[l] \in Node
    BY <1>1 DEF Forth
  <2> QED BY <2>1, UtlistAssumption
<1>3. lists' = [lists EXCEPT ![l] = t]
  BY <1>2 DEF Append1
<1>4. t \in Seq(Node) /\ Len(t) = 1 /\ DOMAIN t = {1} /\ t[1] = add /\ t # <<>>
  OBVIOUS
<1> HIDE DEF t
<1>5. ListsTypeOK'
  BY <1>3, <1>4 DEF ListsInv, ListsTypeOK, Pointer
<1>6. add \in Own(l) /\ \A x \in Node \ Own(l) : next'[x] = next[x] /\ prev'[x] = prev[x]
  BY DEF Own, ListsInv, ListsTypeOK
<1>7. Distinct(t)
  BY <1>4 DEF Distinct
<1>8. Forth(head'[l], next', t)
  BY <1>4 DEF Forth, ListsInv, ListsTypeOK
<1>9. \A m \in List \ {l} : head'[m] = head[m]
  BY DEF ListsInv, ListsTypeOK
<1>10. \A i \in DOMAIN t : t[i] \in Own(l)
  BY <1>4, <1>6
<1> QED BY <1>3, <1>4, <1>5, <1>6, <1>7, <1>8, <1>9, <1>10, ListChanged, OwnIsApart

LEMMA LLAppendLast ==
  ASSUME ListsInv, NEW l \in List \ Doubly, NEW add \in Node, Free(add), next[add] = NULL,
         NEW p \in DOMAIN lists[l], next[lists[l][p]] = NULL,
         next' = [next EXCEPT ![lists[l][p]] = add],
         head' = head, prev' = prev, Append1(l, add)
  PROVE  ListsInv'
<1> DEFINE s == lists[l]
           t == Append(s, add)
           n == Len(s)
<1>1. s \in Seq(Node) /\ Distinct(s) /\ Forth(head[l], next, s)
  BY ListFacts
<1>2. /\ t \in Seq(Node) /\ Len(t) = n + 1 /\ t # <<>> /\ DOMAIN t = 1..n + 1
      /\ t[n + 1] = add /\ \A i \in 1..n : t[i] = s[i]
  BY <1>1, AppendFacts
<1>3. /\ n \in Nat /\ DOMAIN s = 1..n /\ p \in 1..n
      /\ \A i \in 1..n : s[i] \in Node /\ s[i] # add
  BY <1>1, FreeFacts
<1>4. NULL \notin Node
  BY UtlistAssumption
<1>5. next \in [Node -> Pointer] /\ prev \in [Node -> Pointer] /\ head \in [List -> Pointer]
        /\ lists \in [List -> Seq(Node)]
  BY DEF ListsInv, ListsTypeOK
<1>6. \A i \in 1..n : next[s[i]] = IF i = n THEN NULL ELSE s[i + 1]
  BY <1>1, <1>3 DEF Forth
<1>7. Own(l) \in SUBSET Node /\ add \in Own(l) /\ \A i \in 1..n : s[i] \in Own(l)
  BY <1>3, OwnIsApart DEF Own
<1>8. next' = [next EXCEPT ![s[p]] = add] /\ lists' = [lists EXCEPT ![l] = t]
      /\ next[s[p]] = NULL
  BY DEF Append1
<1>9. head[l] = IF s = <<>> THEN NULL ELSE s[1]
  BY <1>1 DEF Forth
<1>10. s # <<>>
  BY <1>3
<1>11. \A i, j \in 1..n : s[i] = s[j] => i = j
  BY <1>1, <1>3 DEF Distinct
<1> HIDE DEF s, t, n
<1>12. p = n
  <2>1. p # n => p + 1 \in 1..n
    BY <1>3
  <2> QED BY <1>3, <1>4, <1>6, <1>8, <2>1
<1>13. Distinct(t)
  BY <1>2, <1>3, <1>11 DEF Distinct
<1>14. ListsTypeOK'
  BY <1>2, <1>3, <1>5, <1>8 DEF ListsTypeOK, Pointer
<1>15. \A x \in Node \ Own(l) : next'[x] = next[x] /\ prev'[x] = prev[x]
  BY <1>3, <1>5, <1>7, <1>8
<1>16. ASSUME NEW i \in 1..n + 1
       PROVE  next'[t[i]] = IF i = n + 1 THEN NULL ELSE t[i + 1]
  <2>1. CASE i = n + 1
    BY <1>2, <1>3, <1>5, <1>8, <2>1
  <2>2. CASE i = n
    <3>1. next'[s[n]] = add
      BY <1>3, <1>5, <1>8, <1>12
    <3>2. i # n + 1 /\ i + 1 = n + 1
      BY <1>3, <2>2
    <3> QED BY <1>2, <1>3, <1>12, <2>2, <3>1, <3>2
  <2>3. CASE i # n /\ i # n + 1
    <3>1. i \in 1..n /\ i + 1 \in 1..n
      BY <1>3, <2>3
    <3>2. s[i] # s[p]
      BY <1>3, <1>11, <1>12, <2>3, <3>1
    <3>3. next'[s[i]] = s[i + 1]
      BY <1>3, <1>5, <1>6, <1>8, <2>3, <3>1, <3>2
    <3> QED BY <1>2, <2>3, <3>1, <3>3
  <2> QED BY <2>1, <2>2, <2>3
<1>17. Forth(head'[l], next', t)
  <2>1. head'[l] = t[1]
    <3>1. 1 \in 1..n
      BY <1>3
    <3> QED BY <1>2, <1>9, <1>10, <3>1
  <2> QED BY <1>2, <1>16, <2>1 DEF Forth
<1>18. \A i \in DOMAIN t : t[i] \in Own(l)
  <2>1. ASSUME NEW i \in 1..n + 1 PROVE i = n + 1 \/ i \in 1..n
    BY <1>3
  <2> QED BY <1>2, <1>7, <2>1
<1> QED BY <1>2, <1>7, <1>8, <1>13, <1>14, <1>15, <1>17, <1>18, ListChanged, OwnIsApart

(* LL_DELETE of the element at place p: the head, or the one before it,    *)
(* goes past it.                                                           *)
LEMMA LLDeleteStep ==
  ASSUME ListsInv, NEW l \in List \ Doubly, NEW p \in DOMAIN lists[l],
         \/ /\ p = 1 /\ head' = [head EXCEPT ![l] = next[lists[l][p]]] /\ next' = next
         \/ /\ p # 1 /\ head' = head
            /\ next' = [next EXCEPT ![lists[l][p - 1]] = next[lists[l][p]]],
         prev' = prev, Delete1(l, lists[l][p])
  PROVE  ListsInv'
<1> DEFINE s == lists[l]
           n == Len(s)
           del == s[p]
           w == Without(s, del)
<1>1. s \in Seq(Node) /\ Distinct(s) /\ Forth(head[l], next, s)
      /\ lists' = [lists EXCEPT ![l] = w]
  BY ListFacts DEF Delete1
<1>2. /\ w \in Seq(Node) /\ Len(w) = n - 1 /\ DOMAIN w = 1..n - 1 /\ Distinct(w)
      /\ \A i \in 1..n - 1 : w[i] = IF i < p THEN s[i] ELSE s[i + 1]
  BY <1>1, WithoutFacts
<1>3. n \in Nat /\ p \in 1..n /\ DOMAIN s = 1..n /\ \A i \in 1..n : s[i] \in Node
  BY <1>1
<1>5. next \in [Node -> Pointer] /\ prev \in [Node -> Pointer] /\ head \in [List -> Pointer]
        /\ lists \in [List -> Seq(Node)]
  BY DEF ListsInv, ListsTypeOK
<1>6. /\ head[l] = IF s = <<>> THEN NULL ELSE s[1]
      /\ \A i \in 1..n : next[s[i]] = IF i = n THEN NULL ELSE s[i + 1]
  BY <1>1, <1>3 DEF Forth
<1>7. Own(l) \in SUBSET Node /\ \A i \in 1..n : s[i] \in Own(l)
  BY <1>3, OwnIsApart DEF Own
<1>8. \A i, j \in 1..n : s[i] = s[j] => i = j
  BY <1>1, <1>3 DEF Distinct
<1>9. s # <<>>
  BY <1>3
<1>10. \/ p = 1 /\ head' = [head EXCEPT ![l] = next[s[p]]] /\ next' = next
       \/ p # 1 /\ head' = head /\ next' = [next EXCEPT ![s[p - 1]] = next[s[p]]]
  OBVIOUS
<1> HIDE DEF n, del, w, s
<1>11. w = <<>> <=> n = 1
  <2>1. w = <<>> <=> Len(w) = 0
    <3>1. w \in Seq(Node)
      BY <1>2
    <3> QED BY <3>1
  <2>2. Len(w) = n - 1 /\ n \in Nat
    BY <1>2, <1>3
  <2> QED BY <2>1, <2>2
<1>12. \A i \in DOMAIN w : w[i] \in Own(l)
  BY <1>2, <1>3, <1>7
<1>13. next[s[p]] = IF p = n THEN NULL ELSE s[p + 1]
  BY <1>3, <1>6
<1>14. p # n => p + 1 \in 1..n /\ s[p + 1] \in Node
  <2>1. p # n => p + 1 \in 1..n
    BY <1>3
  <2> QED BY <1>3, <2>1
<1>15. SUFFICES ASSUME TRUE
                PROVE  /\ ListsTypeOK'
                       /\ \A m \in List \ {l} : head'[m] = head[m]
                       /\ \A x \in Node \ Own(l) : next'[x] = next[x]
                       /\ Forth(head'[l], next', w)
  <2>1. \A x \in Node \ Own(l) : prev'[x] = prev[x]
    OBVIOUS
  <2>2. l \in List /\ l \notin Doubly
    OBVIOUS
  <2> QED BY <1>1, <1>2, <1>7, <1>12, <2>1, <2>2, ListChanged, OwnIsApart
<1>16. CASE p = 1
  <2>1. head' = [head EXCEPT ![l] = next[s[1]]] /\ next' = next
    BY <1>10, <1>16
  <2>2. ListsTypeOK'
    BY <1>1, <1>2, <1>5, <1>13, <1>14, <1>16, <2>1 DEF ListsTypeOK, Pointer
  <2>3. \A i \in 1..n - 1 : w[i] = s[i + 1]
    BY <1>2, <1>16
  <2>4. head'[l] = IF w = <<>> THEN NULL ELSE w[1]
    <3>1. n # 1 => 1 \in 1..n - 1
      BY <1>3
    <3>2. n # 1 => w[1] = s[1 + 1]
      BY <2>3, <3>1
    <3> QED BY <1>5, <1>11, <1>13, <1>16, <2>1, <3>2
  <2>5. ASSUME NEW i \in 1..n - 1
        PROVE  next'[w[i]] = IF i = n - 1 THEN NULL ELSE w[i + 1]
    <3>1. i + 1 \in 1..n /\ (i + 1 = n <=> i = n - 1) /\ (i # n - 1 => i + 1 \in 1..n - 1)
      BY <1>3
    <3>2. next[s[i + 1]] = IF i = n - 1 THEN NULL ELSE s[(i + 1) + 1]
      BY <1>6, <3>1
    <3> QED BY <2>1, <2>3, <3>1, <3>2
  <2> QED BY <1>2, <1>5, <2>1, <2>2, <2>4, <2>5 DEF Forth
<1>17. CASE p # 1
  <2>1. p - 1 \in 1..n /\ n >= 2 /\ 1 \in 1..n /\ 1 \in 1..n - 1 /\ 1 < p /\ n # 1
    BY <1>3, <1>17
  <2>2. /\ head' = head /\ s[p - 1] \in Node
        /\ next' = [next EXCEPT ![s[p - 1]] = IF p = n THEN NULL ELSE s[p + 1]]
    BY <1>3, <1>10, <1>13, <1>17, <2>1
  <2>3. ListsTypeOK'
    BY <1>1, <1>2, <1>5, <1>14, <2>2 DEF ListsTypeOK, Pointer
  <2>4. w # <<>> /\ head'[l] = w[1]
    BY <1>2, <1>6, <1>9, <1>11, <2>1, <2>2
  <2>5. ASSUME NEW i \in 1..n - 1
        PROVE  next'[w[i]] = IF i = n - 1 THEN NULL ELSE w[i + 1]
    <3>0. i \in 1..n /\ i + 1 \in 1..n /\ i # n
      BY <1>3
    <3>00. w[i] = IF i < p THEN s[i] ELSE s[i + 1]
      BY <1>2
    <3>1. CASE i = p - 1
      <4>1. i < p /\ i + 1 = p /\ ~ (i + 1 < p) /\ (i = n - 1 <=> p = n)
        BY <1>3, <3>1
      <4>2. next'[s[p - 1]] = IF p = n THEN NULL ELSE s[p + 1]
        BY <1>5, <2>2
      <4>3. i # n - 1 => i + 1 \in 1..n - 1
        BY <1>3
      <4>4. i # n - 1 => w[i + 1] = s[p + 1]
        BY <1>2, <4>1, <4>3
      <4> QED BY <3>00, <3>1, <4>1, <4>2, <4>4
    <3>2. CASE i < p - 1
      <4>1. i < p /\ i + 1 < p /\ i # n - 1 /\ i + 1 \in 1..n - 1 /\ i # p - 1
        BY <1>3, <3>2
      <4>2. s[i] # s[p - 1] /\ s[i] \in Node
        BY <1>3, <1>8, <2>1, <3>0, <4>1
      <4>3. next'[s[i]] = next[s[i]]
        BY <1>5, <2>2, <4>2
      <4>4. next[s[i]] = s[i + 1]
        BY <1>6, <3>0
      <4>5. w[i + 1] = s[i + 1]
        BY <1>2, <4>1
      <4> QED BY <3>00, <4>1, <4>3, <4>4, <4>5
    <3>3. CASE i > p - 1
      <4>1. ~ (i < p) /\ ~ (i + 1 < p) /\ i + 1 # p - 1 /\ (i + 1 = n <=> i = n - 1)
        BY <1>3, <3>3
      <4>2. s[i + 1] # s[p - 1] /\ s[i + 1] \in Node
        BY <1>3, <1>8, <2>1, <3>0, <4>1
      <4>3. next'[s[i + 1]] = next[s[i + 1]]
        BY <1>5, <2>2, <4>2
      <4>4. next[s[i + 1]] = IF i = n - 1 THEN NULL ELSE s[(i + 1) + 1]
        BY <1>6, <3>0, <4>1
      <4>5. i # n - 1 => w[i + 1] = s[(i + 1) + 1]
        <5>1. i # n - 1 => i + 1 \in 1..n - 1
          BY <1>3
        <5> QED BY <1>2, <4>1, <5>1
      <4> QED BY <3>00, <4>1, <4>3, <4>4, <4>5
    <3>4. i = p - 1 \/ i < p - 1 \/ i > p - 1
      BY <1>3
    <3> QED BY <3>1, <3>2, <3>3, <3>4
  <2> QED BY <1>2, <1>5, <1>7, <2>1, <2>2, <2>3, <2>4, <2>5 DEF Forth
<1> QED BY <1>16, <1>17

-----------------------------------------------------------------------------
(* The steps. *)

(* A list as a sequence and as pointers along next, position by position.  *)
LEMMA ForthFacts ==
  ASSUME ListsInv, NEW l \in List
  PROVE  LET s == lists[l] IN
         /\ s \in Seq(Node) /\ Len(s) \in Nat /\ DOMAIN s = 1..Len(s)
         /\ \A i \in 1..Len(s) : s[i] \in Node /\ s[i] # NULL
         /\ \A i, j \in 1..Len(s) : s[i] = s[j] => i = j
         /\ head[l] = IF s = <<>> THEN NULL ELSE s[1]
         /\ (s = <<>> <=> head[l] = NULL) /\ (s = <<>> <=> Len(s) = 0)
         /\ \A i \in 1..Len(s) : next[s[i]] = IF i = Len(s) THEN NULL ELSE s[i + 1]
<1> DEFINE s == lists[l]
<1>1. s \in Seq(Node) /\ Distinct(s) /\ Forth(head[l], next, s)
  BY ListFacts
<1> HIDE DEF s
<1>2. Len(s) \in Nat /\ DOMAIN s = 1..Len(s) /\ (s = <<>> <=> Len(s) = 0)
  BY <1>1
<1>3. \A i \in 1..Len(s) : s[i] \in Node /\ s[i] # NULL
  BY <1>1, UtlistAssumption
<1>4. s = <<>> <=> head[l] = NULL
  <2>1. s # <<>> => 1 \in 1..Len(s)
    BY <1>2
  <2> QED BY <1>1, <1>3, <2>1 DEF Forth
<1> QED BY <1>1, <1>2, <1>3, <1>4 DEF s, Forth, Distinct

LEMMA AddStep ==
  ASSUME UtlistInv, NEW l \in List, NEW n \in Node, Add(l, n)
  PROVE  UtlistInv'
BY DLAppendStep DEF UtlistInv, LoopInv, Add, loopvars

LEMMA DeletionStep ==
  ASSUME UtlistInv, NEW l \in List, NEW n \in Node, Delete(l, n)
  PROVE  UtlistInv'
<1>1. PICK p \in DOMAIN lists[l] : n = lists[l][p]
  BY MemberPlace DEF UtlistInv, Delete
<1>2. ListsInv'
  BY <1>1, DLDeleteStep DEF UtlistInv, Delete
<1> QED BY <1>2 DEF UtlistInv, LoopInv, Delete

LEMMA LLAppendStart ==
  ASSUME UtlistInv, NEW l \in List, NEW add \in Node, LL_APPEND(l, add)
  PROVE  UtlistInv'
<1>1. /\ ListsInv /\ l \notin Doubly /\ Free(add) /\ prev' = prev
      /\ next' = [next EXCEPT ![add] = NULL] /\ pc = "idle"
  BY DEF UtlistInv, LL_APPEND
<1>2. CASE head[l] # NULL
  <2>1. Begin("append", l, add, NULL, head[l]) /\ UNCHANGED <<head, lists>>
    BY <1>2 DEF LL_APPEND
  <2>2. ListsInv'
    BY <1>1, <2>1, FreeWritten DEF Pointer
  <2>3. Free(add)' /\ next'[add] = NULL
    BY <1>1, <2>1 DEF Free, Members, ListsInv, ListsTypeOK
  <2>4. 1 \in DOMAIN lists'[l] /\ tmp' = lists'[l][1]
    BY <1>1, <1>2, <2>1, ForthFacts DEF Begin
  <2>5. AppendInv'
    BY <1>1, <2>1, <2>3, <2>4 DEF AppendInv, Begin
  <2> QED BY <2>1, <2>2, <2>5 DEF UtlistInv, LoopInv, Begin
<1>3. CASE head[l] = NULL
  <2>1. head' = [head EXCEPT ![l] = add] /\ Append1(l, add) /\ UNCHANGED <<pc, loopvars>>
    BY <1>3 DEF LL_APPEND
  <2>2. ListsInv'
    BY <1>1, <1>3, <2>1, LLAppendFirst
  <2> QED BY <1>1, <2>1, <2>2 DEF UtlistInv, LoopInv
<1> QED BY <1>2, <1>3

LEMMA AppendLoopStep ==
  ASSUME UtlistInv, AppendStep
  PROVE  UtlistInv'
<1>1. ListsInv /\ AppendInv /\ on \in List /\ pc = "append"
  BY DEF UtlistInv, LoopInv, AppendStep, AppendInv
<1>2. PICK i \in DOMAIN lists[on] : tmp = lists[on][i]
  BY <1>1 DEF AppendInv
<1>3. CASE next[tmp] # NULL
  <2>1. /\ tmp' = next[tmp] /\ UNCHANGED <<head, next, prev, lists, pc, on, arg>>
    BY <1>3 DEF AppendStep
  <2>2. i + 1 \in DOMAIN lists[on] /\ next[tmp] = lists[on][i + 1]
    BY <1>1, <1>2, <1>3, ForthFacts
  <2>3. AppendInv'
    <3>1. Free(arg)'
      BY <1>1, <2>1 DEF AppendInv, Free, Members
    <3> QED BY <1>1, <2>1, <2>2, <3>1 DEF AppendInv
  <2>4. ListsInv'
    BY <1>1, <2>1 DEF ListsInv, ListsTypeOK, InOneList, PointersAreLists, LinkedForth, LinkedBack
  <2> QED BY <1>1, <2>1, <2>3, <2>4 DEF UtlistInv, LoopInv
<1>4. CASE next[tmp] = NULL
  <2>1. next' = [next EXCEPT ![tmp] = arg] /\ Append1(on, arg) /\ End /\ UNCHANGED <<head, prev>>
    BY <1>4 DEF AppendStep
  <2>2. ListsInv'
    BY <1>1, <1>2, <1>4, <2>1, LLAppendLast DEF AppendInv
  <2> QED BY <2>1, <2>2 DEF UtlistInv, LoopInv, End
<1> QED BY <1>3, <1>4

LEMMA LLDeleteStart ==
  ASSUME UtlistInv, NEW l \in List, NEW del \in Node, LL_DELETE(l, del)
  PROVE  UtlistInv'
<1>1. ListsInv /\ l \notin Doubly /\ pc = "idle" /\ next' = next /\ prev' = prev
  BY DEF UtlistInv, LL_DELETE
<1>2. PICK p \in DOMAIN lists[l] : del = lists[l][p]
  BY <1>1, MemberPlace DEF LL_DELETE
<1>3. 1 \in DOMAIN lists[l] /\ head[l] = lists[l][1] /\ p \in Nat /\ p >= 1
  BY <1>1, <1>2, ForthFacts
<1>4. CASE head[l] = del
  <2>1. head' = [head EXCEPT ![l] = next[del]] /\ Delete1(l, del) /\ UNCHANGED <<pc, loopvars>>
    BY <1>1, <1>4 DEF LL_DELETE
  <2>2. ListsInv'
    BY <1>1, <1>3, <1>4, <2>1, LLDeleteStep
  <2> QED BY <1>1, <2>1, <2>2 DEF UtlistInv, LoopInv
<1>5. CASE head[l] # del
  <2>1. Begin("delete", l, del, NULL, head[l]) /\ UNCHANGED <<head, lists>>
    BY <1>1, <1>5 DEF LL_DELETE
  <2>2. ListsInv'
    BY <1>1, <2>1 DEF ListsInv, ListsTypeOK, InOneList, PointersAreLists, LinkedForth, LinkedBack
  <2>3. 1 < p
    BY <1>2, <1>3, <1>5
  <2>4. DeleteInv'
    BY <1>1, <1>2, <1>3, <2>1, <2>3 DEF DeleteInv, Begin
  <2> QED BY <2>1, <2>2, <2>4 DEF UtlistInv, LoopInv, Begin
<1> QED BY <1>4, <1>5

LEMMA DeleteLoopStep ==
  ASSUME UtlistInv, DeleteStep
  PROVE  UtlistInv'
<1>1. ListsInv /\ DeleteInv /\ on \in List /\ on \notin Doubly /\ pc = "delete"
  BY DEF UtlistInv, LoopInv, DeleteStep, DeleteInv
<1>2. PICK i \in DOMAIN lists[on], j \in DOMAIN lists[on] :
        i < j /\ tmp = lists[on][i] /\ arg = lists[on][j]
  BY <1>1 DEF DeleteInv
<1>3. /\ i \in Nat /\ j \in Nat /\ i + 1 \in DOMAIN lists[on]
      /\ next[tmp] = lists[on][i + 1] /\ next[tmp] # NULL
  BY <1>1, <1>2, ForthFacts, SMTT(60)
<1>4. CASE next[tmp] # arg
  <2>1. tmp' = next[tmp] /\ UNCHANGED <<head, next, prev, lists, pc, on, arg>>
    BY <1>3, <1>4 DEF DeleteStep
  <2>2. i + 1 < j
    BY <1>2, <1>3, <1>4
  <2>3. DeleteInv'
    BY <1>1, <1>2, <1>3, <2>1, <2>2 DEF DeleteInv
  <2>4. ListsInv'
    BY <1>1, <2>1 DEF ListsInv, ListsTypeOK, InOneList, PointersAreLists, LinkedForth, LinkedBack
  <2> QED BY <1>1, <2>1, <2>3, <2>4 DEF UtlistInv, LoopInv
<1>5. CASE next[tmp] = arg
  <2>1. /\ next' = [next EXCEPT ![tmp] = next[arg]] /\ Delete1(on, arg) /\ End
        /\ UNCHANGED <<head, prev>>
    BY <1>3, <1>5 DEF DeleteStep
  <2>2. j = i + 1
    BY <1>1, <1>2, <1>3, <1>5, ForthFacts
  <2>3. j # 1 /\ j - 1 = i
    BY <1>1, <1>2, <1>3, <2>2, ForthFacts
  <2>4. ListsInv'
    BY <1>1, <1>2, <2>1, <2>3, LLDeleteStep
  <2> QED BY <2>1, <2>4 DEF UtlistInv, LoopInv, End
<1> QED BY <1>4, <1>5

LEMMA ForeachStart ==
  ASSUME UtlistInv, NEW l \in List, FOREACH_SAFE(l)
  PROVE  UtlistInv'
<1>1. ListsInv'
  BY DEF UtlistInv, FOREACH_SAFE, pointers, ListsInv, ListsTypeOK, InOneList, PointersAreLists,
         LinkedForth, LinkedBack
<1>2. ForeachInv' /\ pc' = "foreach"
  BY DEF ForeachInv, FOREACH_SAFE, Begin, pointers
<1> QED BY <1>1, <1>2 DEF UtlistInv, LoopInv

(* The loop has its next element in hand before the present one leaves     *)
(* the list, and that is the head of what is left.                         *)
LEMMA ForeachLoopStep ==
  ASSUME UtlistInv, ForeachStep
  PROVE  UtlistInv'
<1>1. ListsInv /\ ForeachInv /\ on \in List /\ pc = "foreach" /\ el # NULL /\ el = head[on]
        /\ tmp = next[el]
  BY DEF UtlistInv, LoopInv, ForeachStep, ForeachInv
<1>2. /\ el' = tmp /\ tmp' = (IF tmp # NULL THEN next'[tmp] ELSE NULL)
      /\ pc' = pc /\ on' = on
  BY DEF ForeachStep
<1>3. 1 \in DOMAIN lists[on] /\ el = lists[on][1]
  BY <1>1, ForthFacts
<1>4. ListsInv' /\ lists' = [lists EXCEPT ![on] = Without(@, el)]
  <2>1. CASE on \in Doubly /\ DL_DELETE(on, el)
    BY <1>1, <1>3, <2>1, DLDeleteStep DEF DL_DELETE, Delete1
  <2>2. CASE /\ on \notin Doubly /\ head' = [head EXCEPT ![on] = next[el]]
             /\ Delete1(on, el) /\ UNCHANGED <<next, prev>>
    BY <1>1, <1>3, <2>2, LLDeleteStep DEF Delete1
  <2> QED BY <2>1, <2>2 DEF ForeachStep
<1>5. el' = head'[on]
  <2> DEFINE s == lists[on]
             w == Without(s, el)
  <2>1. lists'[on] = w
    BY <1>1, <1>4 DEF ListsInv, ListsTypeOK
  <2>2. s \in Seq(Node) /\ Distinct(s)
    BY <1>1, ListFacts
  <2>3. Len(w) = Len(s) - 1 /\ w \in Seq(Node)
        /\ \A i \in 1..Len(s) - 1 : w[i] = IF i < 1 THEN s[i] ELSE s[i + 1]
    BY <1>3, <2>2, WithoutFacts
  <2>4. tmp = IF Len(s) = 1 THEN NULL ELSE s[1 + 1]
    <3>1. \A i \in 1..Len(s) : next[s[i]] = IF i = Len(s) THEN NULL ELSE s[i + 1]
      BY <1>1, ForthFacts
    <3>2. tmp = next[s[1]] /\ 1 \in 1..Len(s)
      BY <1>1, <1>3, <2>2
    <3> QED BY <3>1, <3>2
  <2>5. Len(s) \in Nat /\ Len(s) >= 1
    BY <1>3, <2>2
  <2>6. head'[on] = IF w = <<>> THEN NULL ELSE w[1]
    BY <1>1, <1>4, <2>1 DEF ListsInv, PointersAreLists, LinkedForth
  <2> HIDE DEF w, s
  <2>7. CASE Len(s) = 1
    <3>1. w = <<>>
      BY <2>3, <2>7
    <3> QED BY <1>2, <2>4, <2>6, <2>7, <3>1
  <2>8. CASE Len(s) # 1
    <3>1. 1 \in 1..Len(s) - 1 /\ Len(w) # 0
      BY <2>3, <2>5, <2>8
    <3>2. w # <<>>
      BY <3>1
    <3>3. w[1] = s[1 + 1]
      BY <2>3, <3>1
    <3> QED BY <1>2, <2>4, <2>6, <2>8, <3>2, <3>3
  <2> QED BY <2>7, <2>8
<1> QED BY <1>1, <1>2, <1>4, <1>5 DEF UtlistInv, LoopInv, ForeachInv

LEMMA ReuseStep ==
  ASSUME UtlistInv, NEW n \in Node, Reuse(n)
  PROVE  UtlistInv'
<1>1. PICK g \in Pointer, h \in Pointer :
        /\ next' = [next EXCEPT ![n] = g] /\ prev' = [prev EXCEPT ![n] = h]
  BY UtlistAssumption DEF Reuse, Pointer
<1>2. ListsInv /\ Free(n) /\ n # arg /\ UNCHANGED <<head, lists, pc, on, arg, el, tmp, counter>>
  BY DEF UtlistInv, Reuse, loopvars
<1>3. ListsInv'
  BY <1>1, <1>2, FreeWritten
<1>4. ASSUME pc = "append" PROVE AppendInv'
  <2>1. AppendInv /\ next'[arg] = NULL
    BY <1>1, <1>2, <1>4 DEF UtlistInv, LoopInv, AppendInv, ListsInv, ListsTypeOK
  <2>2. Free(arg)'
    BY <1>2, <2>1 DEF AppendInv, Free, Members
  <2> QED BY <1>2, <2>1, <2>2 DEF AppendInv
<1>5. ASSUME pc = "delete" PROVE DeleteInv'
  <2>1. DeleteInv
    BY <1>5 DEF UtlistInv, LoopInv
  <2> QED BY <1>2, <2>1 DEF DeleteInv
<1>6. ASSUME pc = "foreach" PROVE ForeachInv'
  <2>1. ForeachInv /\ on \in List
    BY <1>6 DEF UtlistInv, LoopInv, ForeachInv
  <2>2. el # NULL => 1 \in DOMAIN lists[on] /\ el = lists[on][1] /\ el \in Node
    BY <1>2, <2>1, ForthFacts DEF ForeachInv
  <2>3. el # NULL => el # n
    BY <1>2, <2>1, <2>2, FreeFacts
  <2>4. el # NULL => next'[el] = next[el]
    BY <1>1, <1>2, <2>2, <2>3 DEF ListsInv, ListsTypeOK
  <2> QED BY <1>2, <2>1, <2>4 DEF ForeachInv
<1>7. ASSUME pc \in {"search", "found"} PROVE SearchInv'
  <2>1. SearchInv
    BY <1>7 DEF UtlistInv, LoopInv
  <2> QED BY <1>2, <2>1 DEF SearchInv
<1> QED BY <1>2, <1>3, <1>4, <1>5, <1>6, <1>7 DEF UtlistInv, LoopInv

LEMMA SearchStart ==
  ASSUME UtlistInv, NEW l \in List, NEW n \in Node \cup {NULL}, LL_FOREACH(l, n)
  PROVE  UtlistInv'
<1>1. /\ ListsInv /\ UNCHANGED <<head, next, prev, lists>> /\ pc' = "search"
      /\ on' = l /\ arg' = n /\ el' = head[l] /\ counter' = 0
  BY DEF UtlistInv, LL_FOREACH, Begin, pointers
<1>2. ListsInv'
  BY <1>1 DEF ListsInv, ListsTypeOK, InOneList, PointersAreLists, LinkedForth, LinkedBack
<1>3. SearchInv'
  <2>1. Len(lists[l]) \in Nat
        /\ head[l] = IF Len(lists[l]) = 0 THEN NULL ELSE lists[l][0 + 1]
    BY <1>1, ForthFacts
  <2> QED BY <1>1, <2>1 DEF SearchInv, Pointer
<1> QED BY <1>1, <1>2, <1>3 DEF UtlistInv, LoopInv

LEMMA SearchLoopStep ==
  ASSUME UtlistInv, SearchStep
  PROVE  UtlistInv'
<1>1. /\ ListsInv /\ SearchInv /\ on \in List /\ pc = "search"
      /\ UNCHANGED <<head, next, prev, lists, on, arg>>
  BY DEF UtlistInv, LoopInv, SearchStep, SearchInv, pointers
<1>2. ListsInv'
  BY <1>1 DEF ListsInv, ListsTypeOK, InOneList, PointersAreLists, LinkedForth, LinkedBack
<1>3. CASE el \notin {NULL, arg}
  <2>1. el' = next[el] /\ counter' = counter + 1 /\ pc' = pc
    BY <1>3 DEF SearchStep
  <2>2. /\ counter \in Nat /\ Len(lists[on]) \in Nat /\ counter + 1 \in 1..Len(lists[on])
        /\ el = lists[on][counter + 1]
    BY <1>1, <1>3, ForthFacts DEF SearchInv
  <2>3. el' = IF counter + 1 = Len(lists[on]) THEN NULL ELSE lists[on][(counter + 1) + 1]
    BY <1>1, <2>1, <2>2, ForthFacts
  <2>4. \A i \in 1..counter + 1 : i = counter + 1 \/ i \in 1..counter
    BY <2>2
  <2>5. \A i \in 1..counter + 1 : lists[on][i] # arg
    BY <1>1, <1>3, <2>2, <2>4 DEF SearchInv
  <2>6. counter + 1 \in 0..Len(lists[on])
    BY <2>2
  <2>7. SearchInv'
    BY <1>1, <2>1, <2>3, <2>5, <2>6 DEF SearchInv
  <2> QED BY <1>1, <1>2, <2>1, <2>7 DEF UtlistInv, LoopInv
<1>4. CASE el \in {NULL, arg}
  <2>1. pc' = "found" /\ UNCHANGED <<el, counter>>
    BY <1>4 DEF SearchStep
  <2>2. SearchInv' /\ el' \in {NULL, arg'}
    BY <1>1, <1>4, <2>1 DEF SearchInv
  <2> QED BY <1>2, <2>1, <2>2 DEF UtlistInv, LoopInv
<1> QED BY <1>3, <1>4

LEMMA DoneStep ==
  ASSUME UtlistInv, ForeachDone \/ SearchDone
  PROVE  UtlistInv'
<1>1. pc' = "idle" /\ UNCHANGED <<head, next, prev, lists>>
  BY DEF ForeachDone, SearchDone, End, pointers
<1>2. ListsInv'
  BY <1>1 DEF UtlistInv, ListsInv, ListsTypeOK, InOneList, PointersAreLists, LinkedForth, LinkedBack
<1> QED BY <1>1, <1>2 DEF UtlistInv, LoopInv

LEMMA StutterStep ==
  ASSUME UtlistInv, UNCHANGED vars
  PROVE  UtlistInv'
<1>1. UNCHANGED <<head, next, prev, lists, pc, on, arg, el, tmp, counter>>
  BY DEF vars, pointers, loopvars
<1>2. ListsInv'
  BY <1>1 DEF UtlistInv, ListsInv, ListsTypeOK, InOneList, PointersAreLists, LinkedForth, LinkedBack
<1>3. AppendInv' <=> AppendInv
  BY <1>1 DEF AppendInv, Free, Members
<1>4. (DeleteInv' <=> DeleteInv) /\ (ForeachInv' <=> ForeachInv) /\ (SearchInv' <=> SearchInv)
  BY <1>1 DEF DeleteInv, ForeachInv, SearchInv
<1> QED BY <1>1, <1>2, <1>3, <1>4 DEF UtlistInv, LoopInv

-----------------------------------------------------------------------------
(* UtlistInv is an invariant of the lists and the loops over them          *)
(* (utlist.h).                                                             *)
THEOREM UtlistInvariant == Spec => []UtlistInv
<1>1. Init => UtlistInv
  <2> SUFFICES ASSUME Init PROVE UtlistInv
    OBVIOUS
  <2>1. ListsTypeOK
    BY UtlistAssumption DEF Init, ListsTypeOK, Pointer
  <2>2. \A l \in List : lists[l] = <<>> /\ head[l] = NULL
    BY DEF Init
  <2>3. InOneList
    BY <2>2 DEF InOneList
  <2>4. PointersAreLists
    BY <2>2, UtlistAssumption DEF PointersAreLists, LinkedForth, LinkedBack
  <2>5. LoopInv
    BY DEF Init, LoopInv
  <2> QED BY <2>1, <2>3, <2>4, <2>5 DEF UtlistInv, ListsInv
<1>2. UtlistInv /\ [Next]_vars => UtlistInv'
  BY AddStep, DeletionStep, LLAppendStart, AppendLoopStep, LLDeleteStart, DeleteLoopStep,
     ForeachStart, ForeachLoopStep, ReuseStep, SearchStart, SearchLoopStep, DoneStep,
     StutterStep DEF Next
<1> QED BY <1>1, <1>2, PTL DEF Spec

(* However the elements are linked and unlinked, and whatever is in the    *)
(* memory they come from, the pointers are the lists the callers mean,     *)
(* also between the steps of a loop that frees one (utlist.h:522-620).     *)
THEOREM UtlistPointersAreLists == Spec => []PointersAreLists
<1>1. UtlistInv => PointersAreLists
  BY DEF UtlistInv, ListsInv
<1> QED BY <1>1, UtlistInvariant, PTL

(* No element is in two lists, or twice in one.                            *)
THEOREM UtlistInOneList == Spec => []InOneList
<1>1. UtlistInv => InOneList
  BY DEF UtlistInv, ListsInv
<1> QED BY <1>1, UtlistInvariant, PTL

(* A search finds what is in the list and nothing else, and a count counts *)
(* every element once (utlist.h:419-448).                                  *)
THEOREM UtlistSearchFinds == Spec => []SearchFinds
<1>1. UtlistInv => SearchFinds
  <2> SUFFICES ASSUME UtlistInv, pc = "found"
               PROVE  /\ el = IF arg \in Members(on) THEN arg ELSE NULL
                      /\ el = NULL => counter = Len(lists[on])
    BY DEF SearchFinds
  <2>1. ListsInv /\ SearchInv /\ el \in {NULL, arg} /\ on \in List
    BY DEF UtlistInv, LoopInv, SearchInv
  <2>2. arg \in Members(on) <=> \E i \in DOMAIN lists[on] : arg = lists[on][i]
    BY <2>1, MemberPlace
  <2>3. CASE counter = Len(lists[on])
    <3>1. el = NULL /\ arg \notin Members(on)
      BY <2>1, <2>2, <2>3, ForthFacts DEF SearchInv
    <3> QED BY <2>3, <3>1
  <2>4. CASE counter # Len(lists[on])
    <3>1. counter + 1 \in DOMAIN lists[on] /\ el = lists[on][counter + 1]
      BY <2>1, <2>4, ForthFacts DEF SearchInv
    <3>2. el # NULL
      BY <2>1, <3>1, ForthFacts
    <3> QED BY <2>1, <2>2, <3>1, <3>2
  <2> QED BY <2>3, <2>4
<1> QED BY <1>1, UtlistInvariant, PTL
=============================================================================
