----------------------------- MODULE RelayProofs -----------------------------
(***************************************************************************)
(* Proofs about the pool and about the program that uses it, for every     *)
(* number of buffers, every frame size and every bound on the bytes read.  *)
(*                                                                         *)
(* First the pool (BufList), left to callers who may call it in any order. *)
(* Its inductive invariant PoolInv is InOrder together with what makes it  *)
(* inductive: which buffers are where (Partition, AlwaysRoom), and what    *)
(* they hold (FrameChain).                                                 *)
(*                                                                         *)
(* Then the program (Relay), which uses the pool as a caller may: every    *)
(* step of main(), of the handler and of the processes around it is a step *)
(* of the pool or leaves it alone.  What is proved of the pool then holds  *)
(* of the program, whatever the FIFOs, the signals and the failures.       *)
(***************************************************************************)
EXTENDS Relay, TLAPS

PoolInv == /\ TypeOK
           /\ Partition
           /\ AlwaysRoom
           /\ NothingAfterFree
           /\ FrameChain
           /\ InOrder

(* The code only ever takes the head of a list away: DL_DELETE is then     *)
(* Tail, whatever the list holds, provided it holds no buffer twice.       *)
LEMMA DeleteHead ==
  ASSUME NEW list \in Seq(Buffer), list # <<>>, NoDup(list)
  PROVE  DL_DELETE(list, Head(list)) = Tail(list)
<1>1. /\ 1 \in DOMAIN list
      /\ list[1] = Head(list)
      /\ Len(list) \in Nat \ {0}
      /\ DOMAIN list = 1..Len(list)
  OBVIOUS
<1>2. (CHOOSE i \in DOMAIN list : list[i] = Head(list)) = 1
  BY <1>1 DEF NoDup
<1>3. DL_DELETE(list, Head(list)) = RemoveAt(list, 1)
  BY <1>2 DEF DL_DELETE
<1>4. RemoveAt(list, 1) = Tail(list)
  <2>1. SubSeq(list, 1, 0) = <<>>
    OBVIOUS
  <2>2. SubSeq(list, 2, Len(list)) = Tail(list)
    BY <1>1
  <2>3. <<>> \o Tail(list) = Tail(list)
    BY <1>1
  <2> QED BY <2>1, <2>2, <2>3 DEF RemoveAt
<1> QED BY <1>3, <1>4

-----------------------------------------------------------------------------
(* The steps of the pool, with the tests that always succeed decided: a    *)
(* read or a write either finishes the head of its list, which moves, or   *)
(* only advances its position.                                             *)

Written(b, r) ==
  [data EXCEPT ![b] = [i \in Offset |-> IF i \in pos[b]..(pos[b] + r - 1)
                                        THEN nread + 1 + (i - pos[b])
                                        ELSE data[b][i]]]

Taken(b, w) == [k \in 1..w |-> data[b][pos[b] + k - 1]]

ReadStep(b, r) ==
  /\ empty # <<>> /\ b = empty[1]
  /\ r \in Nat \ {0}
  /\ data' = Written(b, r)
  /\ nread' = nread + r
  /\ UNCHANGED <<freed, out>>

ReadFull(b, r) ==
  /\ ReadStep(b, r)
  /\ pos[b] + r = FrameSize
  /\ empty' = Tail(empty)
  /\ inuse' = Append(inuse, b)
  /\ pos' = [pos EXCEPT ![b] = 0]

ReadPart(b, r) ==
  /\ ReadStep(b, r)
  /\ pos[b] + r < FrameSize
  /\ pos' = [pos EXCEPT ![b] = pos[b] + r]
  /\ UNCHANGED <<empty, inuse>>

WriteStep(b, w) ==
  /\ inuse # <<>> /\ b = inuse[1]
  /\ w \in Nat \ {0}
  /\ out' = out \o Taken(b, w)
  /\ UNCHANGED <<data, freed, nread>>

WriteFull(b, w) ==
  /\ WriteStep(b, w)
  /\ pos[b] + w = FrameSize
  /\ inuse' = Tail(inuse)
  /\ empty' = Append(empty, b)
  /\ pos' = [pos EXCEPT ![b] = 0]

WritePart(b, w) ==
  /\ WriteStep(b, w)
  /\ pos[b] + w < FrameSize
  /\ pos' = [pos EXCEPT ![b] = pos[b] + w]
  /\ UNCHANGED <<empty, inuse>>

(* cpw_pipe_read is one of these steps or changes nothing. *)
LEMMA ReadCases ==
  ASSUME PoolInv, NEW r \in -1..FrameSize, cpw_pipe_read(r)
  PROVE  \/ UNCHANGED poolvars
         \/ ReadFull(empty[1], r)
         \/ ReadPart(empty[1], r)
<1> DEFINE b == empty[1]
<1>1. CASE ~(r > 0)
  BY <1>1 DEF cpw_pipe_read
<1>2. CASE r > 0
  <2>1. /\ empty # <<>> /\ empty \in Seq(Buffer) /\ NoDup(empty)
        /\ pos \in [Buffer -> 0..FrameSize]
        /\ r <= FrameSize - pos[Head(empty)]
        /\ Fill(Head(empty), r)
    BY <1>2 DEF cpw_pipe_read, CanRead, readbytes, PoolInv, TypeOK, Partition
  <2>2. b = Head(empty) /\ b \in Buffer
    BY <2>1
  <2>3. ReadStep(b, r)
    BY <1>2, <2>1, <2>2, FrameSizeAssumption DEF Fill, ReadStep, Written
  <2>4. CASE r = FrameSize - pos[b]
    <3> DEFINE p == [pos EXCEPT ![b] = @ + r]
    <3>1. cpw_buflist_buffer_full(b, p)
      BY <2>1, <2>2, <2>4 DEF Fill
    <3>2. p[b] = FrameSize
      BY <2>1, <2>2, <2>4, FrameSizeAssumption
    <3>3. Contains(empty, b)
      BY <2>1, <2>2 DEF Contains
    <3>4. /\ empty' = DL_DELETE(empty, b)
          /\ pos' = [p EXCEPT ![b] = 0]
          /\ inuse' = Append(inuse, b)
      BY <3>1, <3>2, <3>3 DEF cpw_buflist_buffer_full, DL_APPEND
    <3>5. empty' = Tail(empty)
      BY <2>1, <2>2, <3>4, DeleteHead
    <3>6. [p EXCEPT ![b] = 0] = [pos EXCEPT ![b] = 0]
      BY <2>1, <2>2
    <3> QED
      BY <2>1, <2>2, <2>3, <2>4, <3>4, <3>5, <3>6, FrameSizeAssumption
      DEF ReadFull
  <2>5. CASE r # FrameSize - pos[b]
    <3>1. pos' = [pos EXCEPT ![b] = pos[b] + r] /\ UNCHANGED <<empty, inuse>>
      BY <2>1, <2>2, <2>5 DEF Fill
    <3> QED
      BY <2>1, <2>2, <2>3, <2>5, <3>1, FrameSizeAssumption DEF ReadPart
  <2> QED BY <2>4, <2>5
<1> QED BY <1>1, <1>2

(* cpw_pipe_write likewise. *)
LEMMA WriteCases ==
  ASSUME PoolInv, NEW w \in -1..FrameSize, cpw_pipe_write(w)
  PROVE  \/ UNCHANGED poolvars
         \/ WriteFull(inuse[1], w)
         \/ WritePart(inuse[1], w)
<1> DEFINE b == inuse[1]
<1>1. CASE ~(w > 0)
  BY <1>1 DEF cpw_pipe_write
<1>2. CASE w > 0
  <2>1. /\ inuse # <<>> /\ inuse \in Seq(Buffer) /\ NoDup(inuse)
        /\ pos \in [Buffer -> 0..FrameSize]
        /\ w <= FrameSize - pos[Head(inuse)]
        /\ Drain(Head(inuse), w)
    BY <1>2 DEF cpw_pipe_write, CanWrite, writebytes, PoolInv, TypeOK, Partition
  <2>2. b = Head(inuse) /\ b \in Buffer
    BY <2>1
  <2>3. WriteStep(b, w)
    BY <1>2, <2>1, <2>2, FrameSizeAssumption DEF Drain, WriteStep, Taken
  <2>4. CASE w = FrameSize - pos[b]
    <3> DEFINE p == [pos EXCEPT ![b] = @ + w]
    <3>1. cpw_buflist_buffer_empty(b, p)
      BY <2>1, <2>2, <2>4 DEF Drain
    <3>2. p[b] = FrameSize
      BY <2>1, <2>2, <2>4, FrameSizeAssumption
    <3>3. Contains(inuse, b)
      BY <2>1, <2>2 DEF Contains
    <3>4. /\ inuse' = DL_DELETE(inuse, b)
          /\ pos' = [p EXCEPT ![b] = 0]
          /\ empty' = Append(empty, b)
      BY <3>1, <3>2, <3>3 DEF cpw_buflist_buffer_empty, DL_APPEND
    <3>5. inuse' = Tail(inuse)
      BY <2>1, <2>2, <3>4, DeleteHead
    <3>6. [p EXCEPT ![b] = 0] = [pos EXCEPT ![b] = 0]
      BY <2>1, <2>2
    <3> QED
      BY <2>1, <2>2, <2>3, <2>4, <3>4, <3>5, <3>6, FrameSizeAssumption
      DEF WriteFull
  <2>5. CASE w # FrameSize - pos[b]
    <3>1. pos' = [pos EXCEPT ![b] = pos[b] + w] /\ UNCHANGED <<empty, inuse>>
      BY <2>1, <2>2, <2>5 DEF Drain
    <3> QED
      BY <2>1, <2>2, <2>3, <2>5, <3>1, FrameSizeAssumption DEF WritePart
  <2> QED BY <2>4, <2>5
<1> QED BY <1>1, <1>2

-----------------------------------------------------------------------------
(* Moving the head of one list to the tail of another keeps three lists    *)
(* free of duplicates and disjoint, and loses no element.                  *)
LEMMA MoveHead ==
  ASSUME NEW S, NEW l1 \in Seq(S), NEW l2 \in Seq(S), NEW l3 \in Seq(S),
         l1 # <<>>, NoDup(l1), NoDup(l2),
         Disjoint(l1, l2), Disjoint(l1, l3), Disjoint(l2, l3)
  PROVE  LET t == Tail(l1)
             a == Append(l2, l1[1])
         IN  /\ NoDup(t) /\ NoDup(a)
             /\ Disjoint(t, a) /\ Disjoint(t, l3) /\ Disjoint(a, l3)
             /\ \A x : Holds(l1, x) \/ Holds(l2, x) => Holds(t, x) \/ Holds(a, x)
<1> DEFINE t == Tail(l1)
           a == Append(l2, l1[1])
<1>1. /\ Len(l1) \in Nat \ {0} /\ Len(l2) \in Nat
      /\ DOMAIN l1 = 1..Len(l1) /\ DOMAIN l2 = 1..Len(l2)
      /\ l1[1] \in S
  OBVIOUS
<1>2. /\ t \in Seq(S) /\ DOMAIN t = 1..(Len(l1) - 1)
      /\ \A i \in 1..(Len(l1) - 1) : i + 1 \in DOMAIN l1 /\ t[i] = l1[i + 1]
  BY <1>1
<1>3. /\ a \in Seq(S) /\ DOMAIN a = 1..(Len(l2) + 1)
      /\ \A i \in DOMAIN l2 : a[i] = l2[i]
      /\ a[Len(l2) + 1] = l1[1]
  BY <1>1
<1> HIDE DEF t, a
<1>4. NoDup(t)
  <2>1. SUFFICES ASSUME NEW i \in DOMAIN t, NEW j \in DOMAIN t, t[i] = t[j]
                 PROVE  i = j
    BY DEF NoDup
  <2>2. i \in 1..(Len(l1) - 1) /\ j \in 1..(Len(l1) - 1)
    BY <1>2
  <2>3. i + 1 \in DOMAIN l1 /\ j + 1 \in DOMAIN l1 /\ l1[i + 1] = l1[j + 1]
    BY <1>2, <2>1, <2>2
  <2>4. i + 1 = j + 1
    BY <2>3 DEF NoDup
  <2> QED BY <2>2, <2>4
<1>5. NoDup(a)
  BY <1>1, <1>3 DEF NoDup, Disjoint
<1>6. Disjoint(t, a)
  <2>1. SUFFICES ASSUME NEW i \in DOMAIN t, NEW j \in DOMAIN a
                 PROVE  t[i] # a[j]
    BY DEF Disjoint
  <2>2. i \in 1..(Len(l1) - 1) /\ j \in 1..(Len(l2) + 1)
    BY <1>2, <1>3
  <2>3. i + 1 \in DOMAIN l1 /\ t[i] = l1[i + 1] /\ i + 1 # 1
    BY <1>2, <2>2
  <2>4. CASE j = Len(l2) + 1
    <3>1. l1[i + 1] # l1[1]
      BY <1>1, <2>3 DEF NoDup
    <3> QED BY <1>3, <2>3, <2>4, <3>1
  <2>5. CASE j # Len(l2) + 1
    <3>1. j \in DOMAIN l2 /\ a[j] = l2[j]
      BY <1>1, <1>3, <2>2, <2>5
    <3> QED BY <2>3, <3>1 DEF Disjoint
  <2> QED BY <2>4, <2>5
<1>7. Disjoint(t, l3)
  <2>1. SUFFICES ASSUME NEW i \in DOMAIN t, NEW j \in DOMAIN l3
                 PROVE  t[i] # l3[j]
    BY DEF Disjoint
  <2>2. i \in 1..(Len(l1) - 1)
    BY <1>2
  <2>3. i + 1 \in DOMAIN l1 /\ t[i] = l1[i + 1]
    BY <1>2, <2>2
  <2> QED BY <2>3 DEF Disjoint
<1>8. Disjoint(a, l3)
  BY <1>1, <1>3, SMTT(30) DEF Disjoint
<1>9. ASSUME NEW x, Holds(l1, x) \/ Holds(l2, x)
      PROVE  Holds(t, x) \/ Holds(a, x)
  <2>1. CASE Holds(l2, x)
    BY <1>1, <1>3, <2>1 DEF Holds
  <2>2. CASE Holds(l1, x)
    <3>1. PICK i \in DOMAIN l1 : l1[i] = x
      BY <2>2 DEF Holds
    <3>2. CASE i = 1
      <4>1. Len(l2) + 1 \in DOMAIN a
        BY <1>1, <1>3
      <4> QED BY <1>3, <3>1, <3>2, <4>1 DEF Holds
    <3>3. CASE i # 1
      <4>1. i \in 1..Len(l1)
        BY <1>1
      <4>2. i - 1 \in 1..(Len(l1) - 1) /\ (i - 1) + 1 = i
        BY <1>1, <3>3, <4>1
      <4>3. i - 1 \in DOMAIN t /\ t[i - 1] = x
        BY <1>2, <3>1, <4>2
      <4> QED BY <4>3 DEF Holds
    <3> QED BY <3>2, <3>3
  <2> QED BY <1>9, <2>1, <2>2
<1> QED BY <1>4, <1>5, <1>6, <1>7, <1>8, <1>9 DEF t, a

-----------------------------------------------------------------------------
(* Each step preserves the invariant.                                      *)

(* Joining two disjoint lists.                                             *)
LEMMA JoinLists ==
  ASSUME NEW S, NEW l1 \in Seq(S), NEW l2 \in Seq(S), NEW l3 \in Seq(S),
         NoDup(l1), NoDup(l2),
         \A i \in DOMAIN l1, j \in DOMAIN l2 : l1[i] # l2[j],
         Disjoint(l1, l3), Disjoint(l2, l3)
  PROVE  LET s == l1 \o l2
         IN  /\ NoDup(s) /\ Disjoint(s, l3)
             /\ \A x : Holds(l1, x) \/ Holds(l2, x) => Holds(s, x)
<1> DEFINE s == l1 \o l2
           m == Len(l1)
           n == Len(l2)
<1>1. /\ m \in Nat /\ n \in Nat /\ DOMAIN l1 = 1..m /\ DOMAIN l2 = 1..n
      /\ DOMAIN s = 1..(m + n)
  OBVIOUS
<1>2. \A i \in 1..(m + n) : s[i] = IF i <= m THEN l1[i] ELSE l2[i - m]
  OBVIOUS
<1> HIDE DEF s, m, n
<1>3. ASSUME NEW i \in DOMAIN s
      PROVE  \/ i <= m /\ i \in DOMAIN l1 /\ s[i] = l1[i]
             \/ i > m /\ i - m \in DOMAIN l2 /\ s[i] = l2[i - m]
  <2>1. i \in 1..(m + n)
    BY <1>1
  <2>2. CASE i <= m
    BY <1>1, <1>2, <2>1, <2>2
  <2>3. CASE ~(i <= m)
    <3>1. i > m /\ i - m \in 1..n
      BY <1>1, <2>1, <2>3
    <3> QED BY <1>1, <1>2, <2>1, <2>3, <3>1
  <2> QED BY <2>2, <2>3
<1>4. NoDup(s)
  <2>1. SUFFICES ASSUME NEW i \in DOMAIN s, NEW j \in DOMAIN s, s[i] = s[j]
                 PROVE  i = j
    BY DEF NoDup
  <2>2. i \in Int /\ j \in Int
    BY <1>1
  <2>3. CASE i <= m /\ j <= m
    BY <1>1, <1>3, <2>1, <2>2, <2>3 DEF NoDup
  <2>4. CASE i > m /\ j > m
    <3>1. i - m \in DOMAIN l2 /\ j - m \in DOMAIN l2 /\ l2[i - m] = l2[j - m]
      BY <1>1, <1>3, <2>1, <2>2, <2>4
    <3>2. i - m = j - m
      BY <3>1 DEF NoDup
    <3> QED BY <1>1, <2>2, <3>2
  <2>5. CASE i <= m /\ j > m
    BY <1>1, <1>3, <2>1, <2>2, <2>5
  <2>6. CASE i > m /\ j <= m
    BY <1>1, <1>3, <2>1, <2>2, <2>6
  <2> QED BY <1>1, <2>2, <2>3, <2>4, <2>5, <2>6
<1>5. Disjoint(s, l3)
  BY <1>3 DEF Disjoint
<1>6. ASSUME NEW x, Holds(l1, x) \/ Holds(l2, x)
      PROVE  Holds(s, x)
  <2>1. CASE Holds(l1, x)
    <3>1. PICK i \in DOMAIN l1 : l1[i] = x
      BY <2>1 DEF Holds
    <3>2. i \in 1..m /\ i \in 1..(m + n) /\ i <= m
      BY <1>1, <3>1
    <3> QED BY <1>1, <1>2, <3>1, <3>2 DEF Holds
  <2>2. CASE Holds(l2, x)
    <3>1. PICK i \in DOMAIN l2 : l2[i] = x
      BY <2>2 DEF Holds
    <3>2. i + m \in 1..(m + n) /\ ~(i + m <= m) /\ (i + m) - m = i
      BY <1>1, <3>1
    <3>3. s[i + m] = x /\ i + m \in DOMAIN s
      BY <1>1, <1>2, <3>1, <3>2
    <3> QED BY <3>3 DEF Holds
  <2> QED BY <1>6, <2>1, <2>2
<1> QED BY <1>4, <1>5, <1>6 DEF s

(* Facts about the head of empty that every case of a read needs.          *)
LEMMA EmptyHead ==
  ASSUME PoolInv, empty # <<>>
  PROVE  /\ empty[1] \in Buffer
         /\ pos[empty[1]] \in 0..(FrameSize - 1)
         /\ Len(empty) \in Nat \ {0} /\ DOMAIN empty = 1..Len(empty)
         /\ 1 \in DOMAIN empty
         /\ partial = pos[empty[1]]
         /\ ready = nread - pos[empty[1]]
         /\ running
<1>1. empty \in Seq(Buffer) /\ pos \in [Buffer -> 0..FrameSize]
  BY DEF PoolInv, TypeOK
<1>2. /\ Len(empty) \in Nat \ {0} /\ DOMAIN empty = 1..Len(empty)
      /\ 1 \in DOMAIN empty /\ empty[1] \in Buffer /\ empty[1] = Head(empty)
  BY <1>1
<1>3. pos[empty[1]] < FrameSize
  BY <1>2 DEF PoolInv, AlwaysRoom
<1>4. pos[empty[1]] \in 0..(FrameSize - 1)
  BY <1>1, <1>2, <1>3, FrameSizeAssumption
<1> QED BY <1>2, <1>4 DEF partial, ready, PoolInv, NothingAfterFree

LEMMA InuseHead ==
  ASSUME PoolInv, inuse # <<>>
  PROVE  /\ inuse[1] \in Buffer
         /\ pos[inuse[1]] \in 0..(FrameSize - 1)
         /\ Len(inuse) \in Nat \ {0} /\ DOMAIN inuse = 1..Len(inuse)
         /\ 1 \in DOMAIN inuse
         /\ running
<1>1. inuse \in Seq(Buffer) /\ pos \in [Buffer -> 0..FrameSize]
  BY DEF PoolInv, TypeOK
<1>2. /\ Len(inuse) \in Nat \ {0} /\ DOMAIN inuse = 1..Len(inuse)
      /\ 1 \in DOMAIN inuse /\ inuse[1] \in Buffer
  BY <1>1
<1>3. pos[inuse[1]] < FrameSize
  BY <1>2 DEF PoolInv, AlwaysRoom
<1>4. pos[inuse[1]] \in 0..(FrameSize - 1)
  BY <1>1, <1>2, <1>3, FrameSizeAssumption
<1> QED BY <1>2, <1>4 DEF PoolInv, NothingAfterFree

(* The bytes a read leaves in the buffers: the other buffers are as they   *)
(* were, and the buffer read into goes on counting where it stopped.       *)
LEMMA ReadData ==
  ASSUME PoolInv, NEW r, ReadStep(empty[1], r), pos[empty[1]] + r <= FrameSize
  PROVE  /\ data' \in [Buffer -> [Offset -> Nat]]
         /\ \A c \in Buffer : c # empty[1] => data'[c] = data[c]
         /\ \A k \in 0..(pos[empty[1]] + r - 1) :
              k \in Offset /\ data'[empty[1]][k] = ready + k + 1
<1> DEFINE b == empty[1]
<1>1. /\ b \in Buffer /\ pos[b] \in 0..(FrameSize - 1)
      /\ ready = nread - pos[b] /\ running
  BY EmptyHead DEF ReadStep
<1>2. /\ data \in [Buffer -> [Offset -> Nat]] /\ nread \in Nat
      /\ r \in Nat \ {0} /\ data' = Written(b, r)
  BY DEF PoolInv, TypeOK, ReadStep
<1>3. \A c \in Buffer : c # b => data'[c] = data[c]
  BY <1>2 DEF Written
<1>4. data'[b] = [i \in Offset |-> IF i \in pos[b]..(pos[b] + r - 1)
                                   THEN nread + 1 + (i - pos[b])
                                   ELSE data[b][i]]
  BY <1>1, <1>2 DEF Written
<1>5. data'[b] \in [Offset -> Nat]
  <2>1. ASSUME NEW i \in Offset, i \in pos[b]..(pos[b] + r - 1)
        PROVE  nread + 1 + (i - pos[b]) \in Nat
    <3>1. pos[b] \in Nat /\ i \in Int /\ i >= pos[b]
      BY <1>1, <1>2, <2>1, FrameSizeAssumption
    <3>2. nread \in Nat
      BY <1>2
    <3> HIDE DEF b
    <3> QED BY <3>1, <3>2
  <2>2. \A i \in Offset : data[b][i] \in Nat
    BY <1>1, <1>2
  <2> QED BY <1>4, <2>1, <2>2
<1>6. data' \in [Buffer -> [Offset -> Nat]]
  BY <1>1, <1>2, <1>4, <1>5 DEF Written
<1>7. ASSUME NEW k \in 0..(pos[b] + r - 1)
      PROVE  k \in Offset /\ data'[b][k] = ready + k + 1
  <2>1. k \in Offset
    BY <1>1, <1>2, FrameSizeAssumption DEF Offset
  <2>2. CASE k < pos[b]
    <3>1. data[b][k] = ready + k + 1
      <4>1. \A i \in 0..(pos[b] - 1) : data[b][i] = ready + i + 1
        BY <1>1 DEF PoolInv, FrameChain, Collecting, ReadStep
      <4>2. k \in 0..(pos[b] - 1)
        BY <1>1, <2>2
      <4> QED BY <4>1, <4>2
    <3>2. ~(k \in pos[b]..(pos[b] + r - 1))
      BY <1>1, <2>2
    <3>3. data'[b][k] = data[b][k]
      BY <1>4, <2>1, <3>2
    <3> QED BY <2>1, <3>1, <3>3
  <2>3. CASE ~(k < pos[b])
    <3>1. k \in pos[b]..(pos[b] + r - 1)
      BY <1>1, <1>2, <2>3
    <3>2. data'[b][k] = nread + 1 + (k - pos[b])
      BY <1>4, <2>1, <3>1
    <3>3. nread + 1 + (k - pos[b]) = ready + k + 1
      BY <1>1, <1>2
    <3> QED BY <2>1, <3>2, <3>3
  <2> QED BY <2>2, <2>3
<1> QED BY <1>3, <1>6, <1>7

LEMMA ReadPartInv ==
  ASSUME PoolInv, NEW r, ReadPart(empty[1], r)
  PROVE  PoolInv' /\ running' /\ ready' = ready
<1> DEFINE b == empty[1]
<1>0. ReadStep(b, r) /\ empty # <<>>
  BY DEF ReadPart, ReadStep
<1>1. /\ b \in Buffer /\ pos[b] \in 0..(FrameSize - 1)
      /\ Len(empty) \in Nat \ {0} /\ DOMAIN empty = 1..Len(empty)
      /\ 1 \in DOMAIN empty
      /\ ready = nread - pos[b] /\ running
  BY <1>0, EmptyHead
<1>2. /\ data' \in [Buffer -> [Offset -> Nat]]
      /\ \A c \in Buffer : c # b => data'[c] = data[c]
      /\ \A k \in 0..(pos[b] + r - 1) : k \in Offset /\ data'[b][k] = ready + k + 1
  <2>1. r \in Nat /\ pos[b] + r < FrameSize
    BY DEF ReadPart, ReadStep
  <2>2. pos[b] + r <= FrameSize
    BY <1>1, <2>1, FrameSizeAssumption
  <2> QED BY <1>0, <2>2, ReadData
<1>3. /\ r \in Nat \ {0} /\ pos[b] + r < FrameSize
      /\ pos' = [pos EXCEPT ![b] = pos[b] + r]
      /\ nread' = nread + r
      /\ UNCHANGED <<empty, inuse, freed, out>>
  BY DEF ReadPart, ReadStep
<1>4. TypeOK /\ Partition /\ AlwaysRoom /\ NothingAfterFree /\ FrameChain /\ InOrder
  BY DEF PoolInv
<1>5. pos' \in [Buffer -> 0..FrameSize] /\ pos'[b] = pos[b] + r
  <2>1. pos[b] + r \in 0..FrameSize
    BY <1>1, <1>3, FrameSizeAssumption
  <2>2. pos \in [Buffer -> 0..FrameSize]
    BY <1>4 DEF TypeOK
  <2> QED BY <1>1, <1>3, <2>1, <2>2
<1>6. TypeOK'
  BY <1>2, <1>3, <1>4, <1>5 DEF TypeOK
<1>7. Partition'
  BY <1>3, <1>4 DEF Partition, NoDup, Disjoint, Holds
<1>8. \A i \in DOMAIN inuse : inuse[i] \in Buffer /\ inuse[i] # b
  BY <1>1, <1>4, SMTT(30) DEF TypeOK, Partition, Disjoint
<1>9. \A i \in DOMAIN empty : i # 1 => empty[i] \in Buffer /\ empty[i] # b
  <2>1. NoDup(empty) /\ empty \in Seq(Buffer)
    BY <1>4 DEF TypeOK, Partition
  <2>2. \A i \in DOMAIN empty : empty[i] = empty[1] => i = 1
    BY <1>1, <2>1 DEF NoDup
  <2> QED BY <2>1, <2>2
<1>10. \A c \in Buffer : c # b => pos'[c] = pos[c]
  BY <1>3, <1>4 DEF TypeOK
<1>11. AlwaysRoom'
  <2>1. ASSUME NEW i \in DOMAIN empty
        PROVE  pos'[empty[i]] < FrameSize /\ (i # 1 => pos'[empty[i]] = 0)
    <3>1. CASE i = 1
      BY <1>3, <1>5, <3>1
    <3>2. CASE i # 1
      BY <1>4, <1>9, <1>10, <3>2 DEF AlwaysRoom
    <3> QED BY <3>1, <3>2
  <2>2. ASSUME NEW i \in DOMAIN inuse
        PROVE  pos'[inuse[i]] < FrameSize /\ (i # 1 => pos'[inuse[i]] = 0)
    BY <1>4, <1>8, <1>10 DEF AlwaysRoom
  <2> QED BY <1>3, <2>1, <2>2 DEF AlwaysRoom
<1>12. NothingAfterFree' /\ running'
  BY <1>1, <1>3, <1>4 DEF NothingAfterFree, running
<1>13. ready' = ready
  <2>1. partial' = pos[b] + r
    BY <1>0, <1>1, <1>3, <1>5 DEF partial
  <2>2. nread \in Nat /\ ready' = (nread + r) - (pos[b] + r)
    BY <1>3, <1>4, <2>1 DEF ready, TypeOK
  <2> HIDE DEF b
  <2> QED BY <1>1, <1>3, <2>2
<1>14. FrameChain'
  <2>1. \A i \in DOMAIN inuse : data'[inuse[i]] = data[inuse[i]] /\ pos'[inuse[i]] = pos[inuse[i]]
    BY <1>2, <1>8, <1>10
  <2>2. Consecutive /\ Successive /\ Joined /\ Complete
    BY <1>1, <1>4 DEF FrameChain
  <2>3. inuse \in Seq(Buffer)
    BY <1>4 DEF TypeOK
  <2>4. Consecutive'
    BY <1>3, <2>1, <2>2 DEF Consecutive
  <2>5. Successive'
    <3>1. \A i \in 1..(Len(inuse) - 1) : i \in DOMAIN inuse /\ i + 1 \in DOMAIN inuse
      BY <2>3
    <3> QED BY <1>3, <2>1, <2>2, <3>1 DEF Successive
  <2>6. Joined'
    <3>1. inuse # <<>> => 1 \in DOMAIN inuse /\ Len(inuse) \in DOMAIN inuse
      BY <2>3
    <3> QED BY <1>3, <1>13, <2>1, <2>2, <3>1 DEF Joined
  <2>7. Collecting'
    <3>1. empty'[1] = b /\ pos'[b] = pos[b] + r
      BY <1>3, <1>5
    <3>2. \A k \in 0..(pos[b] + r - 1) : data'[b][k] = ready' + k + 1
      BY <1>2, <1>13
    <3>3. pos'[empty'[1]] = pos[b] + r
      BY <3>1
    <3>4. \A k \in 0..(pos'[empty'[1]] - 1) : data'[empty'[1]][k] = ready' + k + 1
      <4>1. pos[b] \in Nat /\ r \in Nat
        BY <1>1, <1>3
      <4>2. SUFFICES ASSUME NEW k \in 0..(pos'[empty'[1]] - 1)
                     PROVE  data'[empty'[1]][k] = ready' + k + 1
        OBVIOUS
      <4>3. k \in 0..(pos[b] + r - 1)
        BY <3>3, <4>1
      <4> QED BY <3>1, <3>2, <4>3
    <3> QED BY <3>4 DEF Collecting
  <2>8. Complete'
    BY <1>3, <1>13, <2>1, <2>2 DEF Complete
  <2> QED BY <2>4, <2>5, <2>6, <2>7, <2>8 DEF FrameChain
<1>15. InOrder'
  BY <1>3, <1>4 DEF InOrder
<1> QED BY <1>6, <1>7, <1>11, <1>12, <1>13, <1>14, <1>15 DEF PoolInv

LEMMA ReadFullInv ==
  ASSUME PoolInv, NEW r, ReadFull(empty[1], r)
  PROVE  PoolInv' /\ running' /\ ready' = ready + FrameSize
<1> DEFINE b == empty[1]
<1>0. ReadStep(b, r) /\ empty # <<>>
  BY DEF ReadFull, ReadStep
<1>1. /\ b \in Buffer /\ pos[b] \in 0..(FrameSize - 1)
      /\ Len(empty) \in Nat \ {0} /\ DOMAIN empty = 1..Len(empty)
      /\ 1 \in DOMAIN empty
      /\ ready = nread - pos[b] /\ running
  BY <1>0, EmptyHead
<1>2. /\ data' \in [Buffer -> [Offset -> Nat]]
      /\ \A c \in Buffer : c # b => data'[c] = data[c]
      /\ \A k \in Offset : data'[b][k] = ready + k + 1
  <2>1. r \in Nat /\ pos[b] + r = FrameSize
    BY DEF ReadFull, ReadStep
  <2>2. pos[b] + r <= FrameSize
    BY <1>1, <2>1, FrameSizeAssumption
  <2>3. \A k \in Offset : k \in 0..(pos[b] + r - 1)
    BY <1>1, <2>1, FrameSizeAssumption DEF Offset
  <2>4. /\ data' \in [Buffer -> [Offset -> Nat]]
        /\ \A c \in Buffer : c # b => data'[c] = data[c]
        /\ \A k \in 0..(pos[b] + r - 1) : data'[b][k] = ready + k + 1
    BY <1>0, <2>2, ReadData
  <2> QED BY <2>3, <2>4
<1>3. /\ r \in Nat \ {0} /\ pos[b] + r = FrameSize
      /\ pos' = [pos EXCEPT ![b] = 0]
      /\ nread' = nread + r
      /\ empty' = Tail(empty)
      /\ inuse' = Append(inuse, b)
      /\ UNCHANGED <<freed, out>>
  BY DEF ReadFull, ReadStep
<1>4. TypeOK /\ Partition /\ AlwaysRoom /\ NothingAfterFree /\ FrameChain /\ InOrder
  BY DEF PoolInv
<1>5. /\ pos' \in [Buffer -> 0..FrameSize] /\ pos'[b] = 0
      /\ \A c \in Buffer : c # b => pos'[c] = pos[c]
  BY <1>1, <1>3, <1>4, FrameSizeAssumption DEF TypeOK
<1>6. /\ inuse \in Seq(Buffer) /\ Len(inuse) \in Nat /\ DOMAIN inuse = 1..Len(inuse)
      /\ empty \in Seq(Buffer) /\ freed \in Seq(Buffer)
  BY <1>4 DEF TypeOK
<1>7. /\ inuse' \in Seq(Buffer) /\ Len(inuse') = Len(inuse) + 1
      /\ DOMAIN inuse' = 1..(Len(inuse) + 1)
      /\ \A i \in DOMAIN inuse : inuse'[i] = inuse[i]
      /\ inuse'[Len(inuse) + 1] = b
  BY <1>1, <1>3, <1>6
<1>8. /\ empty' \in Seq(Buffer) /\ DOMAIN empty' = 1..(Len(empty) - 1)
      /\ \A i \in 1..(Len(empty) - 1) : i + 1 \in DOMAIN empty /\ empty'[i] = empty[i + 1]
  BY <1>0, <1>1, <1>3, <1>6
<1>9. TypeOK'
  BY <1>2, <1>3, <1>4, <1>5, <1>7, <1>8 DEF TypeOK
<1>10. Partition'
  <2>1. /\ NoDup(empty) /\ NoDup(inuse) /\ NoDup(freed)
        /\ Disjoint(empty, inuse) /\ Disjoint(empty, freed) /\ Disjoint(inuse, freed)
        /\ \A c \in Buffer : Holds(empty, c) \/ Holds(inuse, c) \/ Holds(freed, c)
    BY <1>4 DEF Partition
  <2>2. /\ NoDup(empty') /\ NoDup(inuse')
        /\ Disjoint(empty', inuse') /\ Disjoint(empty', freed) /\ Disjoint(inuse', freed)
        /\ \A c : Holds(empty, c) \/ Holds(inuse, c) => Holds(empty', c) \/ Holds(inuse', c)
    BY <1>0, <1>3, <1>6, <2>1, MoveHead
  <2>3. freed' = freed
    BY <1>3
  <2> QED BY <2>1, <2>2, <2>3 DEF Partition
<1>11. \A i \in DOMAIN inuse : inuse[i] \in Buffer /\ inuse[i] # b
  BY <1>1, <1>4, <1>6 DEF Partition, Disjoint
<1>12. \A i \in 1..(Len(empty) - 1) : empty'[i] \in Buffer /\ empty'[i] # b /\ pos[empty'[i]] = 0
  <2>1. SUFFICES ASSUME NEW i \in 1..(Len(empty) - 1)
                 PROVE  empty'[i] \in Buffer /\ empty'[i] # b /\ pos[empty'[i]] = 0
    OBVIOUS
  <2>2. i + 1 \in DOMAIN empty /\ empty'[i] = empty[i + 1] /\ i + 1 # 1
    BY <1>1, <1>8
  <2>3. empty[i + 1] # b
    BY <1>1, <1>4, <2>2 DEF Partition, NoDup
  <2>4. pos[empty[i + 1]] = 0
    BY <1>4, <2>2 DEF AlwaysRoom
  <2> QED BY <1>6, <2>2, <2>3, <2>4
<1>13. AlwaysRoom'
  <2>1. ASSUME NEW i \in DOMAIN empty'
        PROVE  pos'[empty'[i]] < FrameSize /\ (i # 1 => pos'[empty'[i]] = 0)
    <3>1. pos'[empty'[i]] = 0
      BY <1>5, <1>8, <1>12
    <3> QED BY <3>1, FrameSizeAssumption
  <2>2. ASSUME NEW i \in DOMAIN inuse'
        PROVE  pos'[inuse'[i]] < FrameSize /\ (i # 1 => pos'[inuse'[i]] = 0)
    <3>1. CASE i = Len(inuse) + 1
      BY <1>5, <1>7, <3>1, FrameSizeAssumption
    <3>2. CASE i # Len(inuse) + 1
      <4>1. i \in DOMAIN inuse
        BY <1>6, <1>7, <3>2
      <4>2. pos'[inuse'[i]] = pos[inuse[i]]
        BY <1>5, <1>7, <1>11, <4>1
      <4> QED BY <1>4, <4>1, <4>2 DEF AlwaysRoom
    <3> QED BY <3>1, <3>2
  <2> QED BY <2>1, <2>2 DEF AlwaysRoom
<1>14. NothingAfterFree' /\ running'
  BY <1>1, <1>3 DEF NothingAfterFree, running
<1>15. ready' = ready + FrameSize
  <2>1. partial' = 0
    <3>1. CASE empty' = <<>>
      BY <3>1 DEF partial
    <3>2. CASE empty' # <<>>
      <4>1. 1 \in 1..(Len(empty) - 1) /\ Head(empty') = empty'[1]
        BY <1>1, <1>8, <3>2
      <4>2. pos'[empty'[1]] = 0
        BY <1>5, <1>12, <4>1
      <4> QED BY <3>2, <4>1, <4>2 DEF partial
    <3> QED BY <3>1, <3>2
  <2>2. nread \in Nat /\ ready' = nread + r - 0
    BY <1>3, <1>4, <2>1 DEF ready, TypeOK
  <2>3. nread + r - 0 = ready + FrameSize
    BY <1>1, <1>3, <2>2, FrameSizeAssumption
  <2> QED BY <2>2, <2>3
<1>16. ready \in Int /\ 0 \in Offset /\ Len(out) \in Nat
  BY <1>1, <1>4, FrameSizeAssumption, SMTT(30) DEF TypeOK, Offset
<1>17. FrameChain'
  <2>1. \A i \in DOMAIN inuse : data'[inuse'[i]] = data[inuse[i]] /\ pos'[inuse'[i]] = pos[inuse[i]]
    BY <1>2, <1>5, <1>7, <1>11
  <2>2. Consecutive /\ Successive /\ Joined /\ Complete
    BY <1>1, <1>4 DEF FrameChain
  <2>3. data'[b][0] = ready + 1
    BY <1>2, <1>16
  <2>4. Consecutive'
    <3>1. SUFFICES ASSUME NEW i \in DOMAIN inuse', NEW k \in Offset
                   PROVE  data'[inuse'[i]][k] = data'[inuse'[i]][0] + k
      BY DEF Consecutive
    <3>2. CASE i = Len(inuse) + 1
      <4>1. k \in Int
        BY FrameSizeAssumption DEF Offset
      <4>2. ready + k + 1 = (ready + 1) + k
        BY <1>16, <4>1
      <4> QED BY <1>2, <1>7, <2>3, <3>2, <4>2
    <3>3. CASE i # Len(inuse) + 1
      <4>1. i \in DOMAIN inuse
        BY <1>6, <1>7, <3>3
      <4> QED BY <2>1, <2>2, <4>1 DEF Consecutive
    <3> QED BY <3>2, <3>3
  <2>5. Successive'
    <3>1. SUFFICES ASSUME NEW i \in 1..Len(inuse)
                   PROVE  data'[inuse'[i + 1]][0] = data'[inuse'[i]][0] + FrameSize
      BY <1>6, <1>7 DEF Successive
    <3>2. CASE i = Len(inuse)
      <4>1. inuse # <<>> /\ i \in DOMAIN inuse
        BY <1>6, <3>2
      <4>2. data[inuse[i]][0] + FrameSize = ready + 1
        BY <2>2, <3>2, <4>1 DEF Joined
      <4> QED BY <1>7, <2>1, <2>3, <3>2, <4>1, <4>2
    <3>3. CASE i # Len(inuse)
      <4>1. i \in 1..(Len(inuse) - 1) /\ i + 1 \in 1..Len(inuse)
        <5>1. Len(inuse) \in Nat
          BY <1>6
        <5> QED BY <3>3, <5>1
      <4>2. i \in DOMAIN inuse /\ i + 1 \in DOMAIN inuse
        BY <1>6, <4>1
      <4> QED BY <2>1, <2>2, <4>1, <4>2 DEF Successive
    <3> QED BY <3>2, <3>3
  <2>6. Joined'
    <3>1. inuse' # <<>>
      BY <1>6, <1>7
    <3>2. data'[inuse'[1]][0] + pos'[inuse'[1]] = Len(out) + 1
      <4>1. CASE inuse = <<>>
        <5>1. inuse'[1] = b /\ ready = Len(out)
          BY <1>7, <2>2, <4>1 DEF Joined
        <5> QED BY <1>5, <1>16, <2>3, <5>1
      <4>2. CASE inuse # <<>>
        <5>1. 1 \in DOMAIN inuse
          BY <1>6, <4>2
        <5> QED BY <2>1, <2>2, <4>2, <5>1 DEF Joined
      <4> QED BY <4>1, <4>2
    <3>3. data'[inuse'[Len(inuse')]][0] + FrameSize = ready' + 1
      <4>1. inuse'[Len(inuse')] = b
        BY <1>7
      <4>2. (ready + 1) + FrameSize = (ready + FrameSize) + 1
        BY <1>16, FrameSizeAssumption
      <4> QED BY <1>15, <2>3, <4>1, <4>2
    <3> QED BY <1>3, <3>1, <3>2, <3>3 DEF Joined
  <2>7. Collecting'
    <3>1. SUFFICES ASSUME empty' # <<>>
                   PROVE  \A k \in 0..(pos'[empty'[1]] - 1) : data'[empty'[1]][k] = ready' + k + 1
      BY DEF Collecting
    <3>2. 1 \in 1..(Len(empty) - 1)
      BY <1>1, <1>8, <3>1
    <3>3. pos'[empty'[1]] = 0
      BY <1>5, <1>12, <3>2
    <3> QED BY <3>3
  <2>8. Complete'
    <3>1. SUFFICES ASSUME NEW i \in DOMAIN inuse'
                   PROVE  data'[inuse'[i]][0] + FrameSize <= (ready + FrameSize) + 1
      BY <1>15 DEF Complete
    <3>2. CASE i = Len(inuse) + 1
      <4>1. data'[inuse'[i]][0] = ready + 1
        BY <1>7, <2>3, <3>2
      <4> QED BY <1>16, <4>1, FrameSizeAssumption
    <3>3. CASE i # Len(inuse) + 1
      <4>1. i \in DOMAIN inuse
        BY <1>6, <1>7, <3>3
      <4>2. data'[inuse'[i]][0] + FrameSize <= ready + 1
        BY <2>1, <2>2, <4>1 DEF Complete
      <4>3. inuse'[i] \in Buffer
        BY <1>7, <1>11, <4>1
      <4>4. data'[inuse'[i]][0] \in Nat
        BY <1>2, <1>16, <4>3
      <4> HIDE DEF b
      <4> QED BY <1>16, <4>2, <4>4, FrameSizeAssumption
    <3> QED BY <3>2, <3>3
  <2> QED BY <2>4, <2>5, <2>6, <2>7, <2>8 DEF FrameChain
<1>18. InOrder'
  BY <1>3, <1>4 DEF InOrder
<1> QED BY <1>9, <1>10, <1>13, <1>14, <1>15, <1>17, <1>18 DEF PoolInv

(* The bytes a write takes are the next ones in the order of reading.      *)
LEMMA WriteData ==
  ASSUME PoolInv, NEW w, WriteStep(inuse[1], w), pos[inuse[1]] + w <= FrameSize
  PROVE  /\ Taken(inuse[1], w) = [k \in 1..w |-> Len(out) + k]
         /\ out' \in Seq(Nat)
         /\ Len(out') = Len(out) + w
         /\ InOrder'
<1> DEFINE b == inuse[1]
           base == data[b][0]
<1>1. /\ b \in Buffer /\ pos[b] \in 0..(FrameSize - 1)
      /\ 1 \in DOMAIN inuse /\ running /\ inuse # <<>>
  BY InuseHead DEF WriteStep
<1>2. /\ out \in Seq(Nat) /\ Len(out) \in Nat /\ DOMAIN out = 1..Len(out)
      /\ w \in Nat \ {0} /\ out' = out \o Taken(b, w)
      /\ InOrder
      /\ data \in [Buffer -> [Offset -> Nat]]
  BY DEF PoolInv, TypeOK, WriteStep
<1>3. 0 \in Offset /\ base \in Nat
  BY <1>1, <1>2, FrameSizeAssumption DEF Offset
<1>4. /\ base + pos[b] = Len(out) + 1
      /\ \A k \in Offset : data[b][k] = base + k
  BY <1>1 DEF PoolInv, FrameChain, Joined, Consecutive
<1>5. ASSUME NEW k \in 1..w
      PROVE  data[b][pos[b] + k - 1] = Len(out) + k
  <2>1. pos[b] \in Nat /\ k \in Nat \ {0} /\ pos[b] + k <= FrameSize
    BY <1>1, <1>2, FrameSizeAssumption
  <2>2. pos[b] + k - 1 \in Offset
    BY <2>1, FrameSizeAssumption DEF Offset
  <2>3. data[b][pos[b] + k - 1] = base + (pos[b] + k - 1)
    BY <1>4, <2>2
  <2>4. base + (pos[b] + k - 1) = Len(out) + k
    <3>1. base + pos[b] = Len(out) + 1
      BY <1>4
    <3>2. Len(out) \in Nat
      BY <1>2
    <3> HIDE DEF b, base
    <3> QED BY <1>3, <2>1, <3>1, <3>2
  <2> QED BY <2>3, <2>4
<1>6. Taken(b, w) = [k \in 1..w |-> Len(out) + k]
  BY <1>5 DEF Taken
<1> DEFINE t == [k \in 1..w |-> Len(out) + k]
<1>7. t \in Seq(Nat) /\ Len(t) = w /\ \A k \in 1..w : t[k] = Len(out) + k
  BY <1>2
<1>8. out' = out \o t
  BY <1>2, <1>6
<1> HIDE DEF t
<1>9. out' \in Seq(Nat) /\ Len(out') = Len(out) + w
  <2>1. out \in Seq(Nat) /\ t \in Seq(Nat)
    BY <1>2, <1>7
  <2>2. out \o t \in Seq(Nat) /\ Len(out \o t) = Len(out) + Len(t)
    BY <2>1
  <2> QED BY <1>7, <1>8, <2>2
<1>10. ASSUME NEW n \in DOMAIN out'
       PROVE  out'[n] = n
  <2>1. n \in 1..(Len(out) + w)
    BY <1>9
  <2>2. CASE n <= Len(out)
    <3>1. n \in DOMAIN out /\ out'[n] = out[n]
      BY <1>2, <1>7, <1>8, <2>1, <2>2
    <3> QED BY <1>2, <3>1 DEF InOrder
  <2>3. CASE ~(n <= Len(out))
    <3>1. n - Len(out) \in 1..w /\ Len(out) + (n - Len(out)) = n
      BY <1>2, <2>1, <2>3
    <3>2. out'[n] = t[n - Len(out)]
      BY <1>2, <1>7, <1>8, <2>1, <2>3
    <3> QED BY <1>7, <3>1, <3>2
  <2> QED BY <2>2, <2>3
<1> QED BY <1>6, <1>9, <1>10 DEF InOrder

LEMMA WritePartInv ==
  ASSUME PoolInv, NEW w, WritePart(inuse[1], w)
  PROVE  PoolInv' /\ running' /\ ready' = ready
<1> DEFINE b == inuse[1]
<1>0. WriteStep(b, w) /\ inuse # <<>>
  BY DEF WritePart, WriteStep
<1>1. /\ b \in Buffer /\ pos[b] \in 0..(FrameSize - 1)
      /\ Len(inuse) \in Nat \ {0} /\ DOMAIN inuse = 1..Len(inuse)
      /\ 1 \in DOMAIN inuse /\ running
  BY <1>0, InuseHead
<1>2. /\ w \in Nat \ {0} /\ pos[b] + w < FrameSize
      /\ pos' = [pos EXCEPT ![b] = pos[b] + w]
      /\ UNCHANGED <<empty, inuse, data, freed, nread>>
  BY DEF WritePart, WriteStep
<1>3. pos[b] \in Nat /\ w \in Nat /\ pos[b] + w \in 0..FrameSize
  BY <1>1, <1>2, FrameSizeAssumption
<1>4. out' \in Seq(Nat) /\ Len(out') = Len(out) + w /\ InOrder'
  <2>1. pos[b] + w <= FrameSize
    BY <1>3, FrameSizeAssumption
  <2> QED BY <1>0, <2>1, WriteData
<1>5. TypeOK /\ Partition /\ AlwaysRoom /\ NothingAfterFree /\ FrameChain
  BY DEF PoolInv
<1>6. /\ pos' \in [Buffer -> 0..FrameSize] /\ pos'[b] = pos[b] + w
      /\ \A c \in Buffer : c # b => pos'[c] = pos[c]
  <2>1. pos \in [Buffer -> 0..FrameSize]
    BY <1>5 DEF TypeOK
  <2> QED BY <1>1, <1>2, <1>3, <2>1
<1>7. TypeOK'
  BY <1>2, <1>4, <1>5, <1>6 DEF TypeOK
<1>8. Partition'
  BY <1>2, <1>5 DEF Partition, NoDup, Disjoint, Holds
<1>9. \A i \in DOMAIN empty : empty[i] \in Buffer /\ empty[i] # b
  BY <1>1, <1>5 DEF TypeOK, Partition, Disjoint
<1>10. \A i \in DOMAIN inuse : i # 1 => inuse[i] \in Buffer /\ inuse[i] # b
  <2>1. NoDup(inuse) /\ inuse \in Seq(Buffer)
    BY <1>5 DEF TypeOK, Partition
  <2>2. \A i \in DOMAIN inuse : inuse[i] = inuse[1] => i = 1
    BY <1>1, <2>1 DEF NoDup
  <2> QED BY <2>1, <2>2
<1>11. AlwaysRoom'
  <2>1. ASSUME NEW i \in DOMAIN inuse
        PROVE  pos'[inuse[i]] < FrameSize /\ (i # 1 => pos'[inuse[i]] = 0)
    <3>1. CASE i = 1
      BY <1>2, <1>6, <3>1
    <3>2. CASE i # 1
      BY <1>5, <1>6, <1>10, <3>2 DEF AlwaysRoom
    <3> QED BY <3>1, <3>2
  <2>2. ASSUME NEW i \in DOMAIN empty
        PROVE  pos'[empty[i]] < FrameSize /\ (i # 1 => pos'[empty[i]] = 0)
    BY <1>5, <1>6, <1>9 DEF AlwaysRoom
  <2> QED BY <1>2, <2>1, <2>2 DEF AlwaysRoom
<1>12. NothingAfterFree' /\ running'
  BY <1>1, <1>2, <1>5 DEF NothingAfterFree, running
<1>13. partial' = partial /\ (empty # <<>> => pos'[empty[1]] = pos[empty[1]])
  <2>1. CASE empty = <<>>
    BY <1>2, <2>1 DEF partial
  <2>2. CASE empty # <<>>
    <3>1. 1 \in DOMAIN empty /\ Head(empty) = empty[1]
      BY <1>5, <2>2 DEF TypeOK
    <3> QED BY <1>2, <1>6, <1>9, <2>2, <3>1 DEF partial
  <2> QED BY <2>1, <2>2
<1>14. ready' = ready
  BY <1>2, <1>13 DEF ready
<1>15. FrameChain'
  <2>1. Consecutive /\ Successive /\ Joined /\ Complete /\ Collecting
    BY <1>1, <1>5 DEF FrameChain
  <2>2. Consecutive'
    BY <1>2, <2>1 DEF Consecutive
  <2>3. Successive'
    BY <1>2, <2>1 DEF Successive
  <2>4. Joined'
    <3>1. data[b][0] + pos[b] = Len(out) + 1 /\ data[inuse[Len(inuse)]][0] + FrameSize = ready + 1
      BY <1>0, <2>1 DEF Joined
    <3>2. data[b][0] \in Nat /\ Len(out) \in Nat
      BY <1>1, <1>5, FrameSizeAssumption DEF TypeOK, Offset
    <3>3. data[b][0] + (pos[b] + w) = (Len(out) + w) + 1
      <4> DEFINE d == data[b][0]
                 p == pos[b]
                 n == Len(out)
      <4>1. d \in Nat /\ n \in Nat /\ p \in Nat /\ w \in Nat /\ d + p = n + 1
        BY <1>3, <3>1, <3>2
      <4> HIDE DEF d, p, n
      <4>2. d + (p + w) = (n + w) + 1
        BY ONLY <4>1
      <4> QED BY <4>2 DEF d, p, n
    <3> QED BY <1>0, <1>2, <1>4, <1>6, <1>14, <3>1, <3>3 DEF Joined
  <2>5. Collecting'
    BY <1>2, <1>13, <1>14, <2>1 DEF Collecting
  <2>6. Complete'
    BY <1>2, <1>14, <2>1 DEF Complete
  <2> QED BY <2>2, <2>3, <2>4, <2>5, <2>6 DEF FrameChain
<1> QED BY <1>4, <1>7, <1>8, <1>11, <1>12, <1>14, <1>15 DEF PoolInv

LEMMA WriteFullInv ==
  ASSUME PoolInv, NEW w, WriteFull(inuse[1], w)
  PROVE  PoolInv' /\ running' /\ ready' = ready
<1> DEFINE b == inuse[1]
<1>0. WriteStep(b, w) /\ inuse # <<>>
  BY DEF WriteFull, WriteStep
<1>1. /\ b \in Buffer /\ pos[b] \in 0..(FrameSize - 1)
      /\ Len(inuse) \in Nat \ {0} /\ DOMAIN inuse = 1..Len(inuse)
      /\ 1 \in DOMAIN inuse /\ running
  BY <1>0, InuseHead
<1>2. /\ w \in Nat \ {0} /\ pos[b] + w = FrameSize
      /\ pos' = [pos EXCEPT ![b] = 0]
      /\ inuse' = Tail(inuse)
      /\ empty' = Append(empty, b)
      /\ UNCHANGED <<data, freed, nread>>
  BY DEF WriteFull, WriteStep
<1>3. pos[b] \in Nat /\ w \in Nat
  BY <1>1, <1>2, FrameSizeAssumption
<1>4. out' \in Seq(Nat) /\ Len(out') = Len(out) + w /\ InOrder'
  <2>1. pos[b] + w <= FrameSize
    BY <1>2, FrameSizeAssumption
  <2> QED BY <1>0, <2>1, WriteData
<1>5. TypeOK /\ Partition /\ AlwaysRoom /\ NothingAfterFree /\ FrameChain
  BY DEF PoolInv
<1>6. /\ pos' \in [Buffer -> 0..FrameSize] /\ pos'[b] = 0
      /\ \A c \in Buffer : c # b => pos'[c] = pos[c]
  BY <1>1, <1>2, <1>5, FrameSizeAssumption DEF TypeOK
<1>7. /\ empty \in Seq(Buffer) /\ Len(empty) \in Nat /\ DOMAIN empty = 1..Len(empty)
      /\ inuse \in Seq(Buffer) /\ freed \in Seq(Buffer)
  BY <1>5 DEF TypeOK
<1>8. /\ empty' \in Seq(Buffer) /\ Len(empty') = Len(empty) + 1
      /\ DOMAIN empty' = 1..(Len(empty) + 1)
      /\ \A i \in DOMAIN empty : empty'[i] = empty[i]
      /\ empty'[Len(empty) + 1] = b
  BY <1>1, <1>2, <1>7
<1>9. /\ inuse' \in Seq(Buffer) /\ Len(inuse') = Len(inuse) - 1
      /\ DOMAIN inuse' = 1..(Len(inuse) - 1)
      /\ \A i \in 1..(Len(inuse) - 1) : i + 1 \in DOMAIN inuse /\ inuse'[i] = inuse[i + 1]
  BY <1>0, <1>1, <1>2, <1>7
<1>10. TypeOK'
  BY <1>2, <1>4, <1>5, <1>6, <1>8, <1>9 DEF TypeOK
<1>11. Partition'
  <2>1. /\ NoDup(empty) /\ NoDup(inuse) /\ NoDup(freed)
        /\ Disjoint(empty, inuse) /\ Disjoint(empty, freed) /\ Disjoint(inuse, freed)
        /\ \A c \in Buffer : Holds(empty, c) \/ Holds(inuse, c) \/ Holds(freed, c)
    BY <1>5 DEF Partition
  <2>2. Disjoint(inuse, empty)
    BY <2>1 DEF Disjoint
  <2>3. /\ NoDup(inuse') /\ NoDup(empty')
        /\ Disjoint(inuse', empty') /\ Disjoint(inuse', freed) /\ Disjoint(empty', freed)
        /\ \A c : Holds(inuse, c) \/ Holds(empty, c) => Holds(inuse', c) \/ Holds(empty', c)
    BY <1>0, <1>2, <1>7, <2>1, <2>2, MoveHead
  <2>4. Disjoint(empty', inuse')
    BY <2>3 DEF Disjoint
  <2>5. freed' = freed
    BY <1>2
  <2> QED BY <2>1, <2>3, <2>4, <2>5 DEF Partition
<1>12. \A i \in DOMAIN empty : empty[i] \in Buffer /\ empty[i] # b
  BY <1>1, <1>5, <1>7 DEF Partition, Disjoint
<1>13. \A i \in 1..(Len(inuse) - 1) : inuse'[i] \in Buffer /\ inuse'[i] # b /\ pos'[inuse'[i]] = 0
  <2>1. SUFFICES ASSUME NEW i \in 1..(Len(inuse) - 1)
                 PROVE  inuse'[i] \in Buffer /\ inuse'[i] # b /\ pos'[inuse'[i]] = 0
    OBVIOUS
  <2>2. i + 1 \in DOMAIN inuse /\ inuse'[i] = inuse[i + 1] /\ i + 1 # 1
    BY <1>1, <1>9
  <2>3. inuse[i + 1] # b
    BY <1>1, <1>5, <2>2 DEF Partition, NoDup
  <2>4. pos[inuse[i + 1]] = 0
    BY <1>5, <2>2 DEF AlwaysRoom
  <2> QED BY <1>6, <1>7, <2>2, <2>3, <2>4
<1>14. AlwaysRoom'
  <2>1. ASSUME NEW i \in DOMAIN inuse'
        PROVE  pos'[inuse'[i]] < FrameSize /\ (i # 1 => pos'[inuse'[i]] = 0)
    <3>1. pos'[inuse'[i]] = 0
      BY <1>9, <1>13
    <3> QED BY <3>1, FrameSizeAssumption
  <2>2. ASSUME NEW i \in DOMAIN empty'
        PROVE  pos'[empty'[i]] < FrameSize /\ (i # 1 => pos'[empty'[i]] = 0)
    <3>1. CASE i = Len(empty) + 1
      BY <1>6, <1>8, <3>1, FrameSizeAssumption
    <3>2. CASE i # Len(empty) + 1
      <4>1. i \in DOMAIN empty
        BY <1>7, <1>8, <3>2
      <4>2. pos'[empty'[i]] = pos[empty[i]]
        BY <1>6, <1>8, <1>12, <4>1
      <4> QED BY <1>5, <4>1, <4>2 DEF AlwaysRoom
    <3> QED BY <3>1, <3>2
  <2> QED BY <2>1, <2>2 DEF AlwaysRoom
<1>15. NothingAfterFree' /\ running'
  BY <1>1, <1>2, <1>5 DEF NothingAfterFree, running
<1>16. /\ empty' # <<>> /\ partial' = partial
       /\ IF empty = <<>> THEN pos'[empty'[1]] = 0
          ELSE pos'[empty'[1]] = pos[empty[1]] /\ empty'[1] = empty[1]
  <2>1. empty' # <<>> /\ Head(empty') = empty'[1]
    BY <1>7, <1>8
  <2>2. CASE empty = <<>>
    <3>1. empty'[1] = b
      BY <1>7, <1>8, <2>2
    <3> QED BY <1>6, <2>1, <2>2, <3>1 DEF partial
  <2>3. CASE empty # <<>>
    <3>1. 1 \in DOMAIN empty /\ Head(empty) = empty[1]
      BY <1>7, <2>3
    <3>2. empty'[1] = empty[1] /\ pos'[empty'[1]] = pos[empty[1]]
      BY <1>6, <1>8, <1>12, <3>1
    <3> QED BY <2>1, <2>3, <3>1, <3>2 DEF partial
  <2> QED BY <2>2, <2>3
<1>17. ready' = ready
  BY <1>2, <1>16 DEF ready
<1>18. FrameChain'
  <2>1. Consecutive /\ Successive /\ Joined /\ Complete /\ Collecting
    BY <1>1, <1>5 DEF FrameChain
  <2>2. Consecutive'
    BY <1>2, <1>9, <2>1 DEF Consecutive
  <2>3. Successive'
    <3>1. SUFFICES ASSUME NEW i \in 1..(Len(inuse) - 2)
                   PROVE  data[inuse'[i + 1]][0] = data[inuse'[i]][0] + FrameSize
      <4>1. Len(inuse') - 1 = Len(inuse) - 2
        BY <1>1, <1>9
      <4> QED BY <1>2, <4>1 DEF Successive
    <3>2. /\ i \in 1..(Len(inuse) - 1) /\ i + 1 \in 1..(Len(inuse) - 1)
      <4>1. Len(inuse) \in Nat
        BY <1>1
      <4> QED BY <4>1
    <3> QED BY <1>9, <2>1, <3>2 DEF Successive
  <2>4. Joined'
    <3>1. /\ data[b][0] + pos[b] = Len(out) + 1
          /\ data[inuse[Len(inuse)]][0] + FrameSize = ready + 1
      BY <1>0, <2>1 DEF Joined
    <3>2. data[b][0] \in Nat /\ Len(out) \in Nat /\ ready \in Int
      <4>1. pos \in [Buffer -> 0..FrameSize] /\ nread \in Nat /\ 0 \in Offset
        BY <1>5, FrameSizeAssumption DEF TypeOK, Offset
      <4>2. partial \in Int
        <5>1. CASE empty = <<>>
          BY <5>1 DEF partial
        <5>2. CASE empty # <<>>
          <6>1. Head(empty) \in Buffer
            BY <1>7, <5>2
          <6>2. pos[Head(empty)] \in Int
            BY <4>1, <6>1, FrameSizeAssumption
          <6> QED BY <5>2, <6>2 DEF partial
        <5> QED BY <5>1, <5>2
      <4> QED BY <1>1, <1>5, <4>1, <4>2 DEF TypeOK, ready
    <3>3. data[b][0] + FrameSize = Len(out') + 1
      <4>1. data[b][0] \in Nat /\ Len(out) \in Nat /\ data[b][0] + pos[b] = Len(out) + 1
        BY <3>1, <3>2
      <4>2. data[b][0] + (pos[b] + w) = (Len(out) + w) + 1
        <5> HIDE DEF b
        <5> QED BY <1>3, <4>1
      <4> QED BY <1>2, <1>4, <4>2
    <3>4. CASE inuse' = <<>>
      <4>0. Len(inuse') = 0
        BY <3>4
      <4>1. Len(inuse) = 1
        <5>1. Len(inuse) \in Nat /\ Len(inuse') = Len(inuse) - 1
          BY <1>1, <1>9
        <5> QED BY <4>0, <5>1
      <4>2. ready + 1 = Len(out') + 1
        BY <3>1, <3>3, <4>1
      <4>3. ready = Len(out')
        BY <1>4, <3>2, <4>2
      <4> QED BY <1>17, <3>4, <4>3 DEF Joined
    <3>5. CASE inuse' # <<>>
      <4>1. /\ 1 \in 1..(Len(inuse) - 1) /\ Len(inuse) - 1 \in 1..(Len(inuse) - 1)
            /\ (Len(inuse) - 1) + 1 = Len(inuse)
        BY <1>1, <1>9, <3>5
      <4>2. inuse'[1] = inuse[2] /\ inuse'[Len(inuse')] = inuse[Len(inuse)]
        BY <1>9, <4>1
      <4>3. data[inuse[2]][0] = data[b][0] + FrameSize
        BY <2>1, <4>1 DEF Successive
      <4>4. pos'[inuse'[1]] = 0
        BY <1>13, <4>1
      <4>5. data'[inuse'[1]][0] + pos'[inuse'[1]] = Len(out') + 1
        <5>1. data'[inuse'[1]][0] = Len(out') + 1
          BY <1>2, <3>3, <4>2, <4>3
        <5>2. Len(out') + 1 \in Nat
          BY <1>4
        <5> QED BY <4>4, <5>1, <5>2
      <4>6. data'[inuse'[Len(inuse')]][0] + FrameSize = ready' + 1
        BY <1>2, <1>17, <3>1, <4>2
      <4> QED BY <3>5, <4>5, <4>6 DEF Joined
    <3> QED BY <3>4, <3>5
  <2>5. Collecting'
    <3>1. CASE empty = <<>>
      <4>1. pos'[empty'[1]] = 0
        BY <1>16, <3>1
      <4> QED BY <4>1 DEF Collecting
    <3>2. CASE empty # <<>>
      <4>1. pos'[empty'[1]] = pos[empty[1]] /\ empty'[1] = empty[1]
        BY <1>16, <3>2
      <4>2. \A k \in 0..(pos[empty[1]] - 1) : data[empty[1]][k] = ready + k + 1
        BY <2>1, <3>2 DEF Collecting
      <4> QED BY <1>2, <1>17, <4>1, <4>2 DEF Collecting
    <3> QED BY <3>1, <3>2
  <2>6. Complete'
    <3>1. \A i \in DOMAIN inuse' : i + 1 \in DOMAIN inuse /\ inuse'[i] = inuse[i + 1]
      BY <1>9
    <3> QED BY <1>2, <1>17, <2>1, <3>1 DEF Complete
  <2> QED BY <2>2, <2>3, <2>4, <2>5, <2>6 DEF FrameChain
<1> QED BY <1>4, <1>10, <1>11, <1>14, <1>15, <1>17, <1>18 DEF PoolInv

(* Freeing moves every buffer of the two lists to the freed ones.          *)
LEMMA FreeInv ==
  ASSUME PoolInv, cpw_buflist_free
  PROVE  PoolInv' /\ ~running'
<1> DEFINE fe == freed \o empty
           all == fe \o inuse
<1>1. /\ empty \in Seq(Buffer) /\ inuse \in Seq(Buffer) /\ freed \in Seq(Buffer)
      /\ freed' = all /\ empty' = <<>> /\ inuse' = <<>>
      /\ UNCHANGED <<pos, data, nread, out>>
  BY DEF PoolInv, TypeOK, cpw_buflist_free
<1>2. TypeOK /\ Partition /\ InOrder
  BY DEF PoolInv
<1>3. /\ fe \in Seq(Buffer) /\ Len(fe) = Len(freed) + Len(empty)
      /\ \A i \in 1..Len(freed) : fe[i] = freed[i]
      /\ \A i \in 1..Len(empty) : fe[Len(freed) + i] = empty[i]
  BY <1>1
<1>4. NoDup(fe) /\ Disjoint(fe, inuse)
      /\ \A c : Holds(freed, c) \/ Holds(empty, c) => Holds(fe, c)
  BY <1>1, <1>2, JoinLists DEF Partition, Disjoint
<1>5. NoDup(all)
      /\ \A c : Holds(fe, c) \/ Holds(inuse, c) => Holds(all, c)
  <2>1. /\ NoDup(inuse) /\ <<>> \in Seq(Buffer)
        /\ Disjoint(fe, <<>>) /\ Disjoint(inuse, <<>>)
        /\ \A i \in DOMAIN fe, j \in DOMAIN inuse : fe[i] # inuse[j]
    BY <1>2, <1>4 DEF Partition, Disjoint
  <2> HIDE DEF fe
  <2> QED BY <1>1, <1>3, <1>4, <2>1, JoinLists
<1>6. TypeOK'
  BY <1>1, <1>2 DEF TypeOK
<1>7. Partition'
  BY <1>1, <1>2, <1>4, <1>5 DEF Partition, NoDup, Disjoint
<1>8. AlwaysRoom' /\ NothingAfterFree' /\ InOrder'
  BY <1>1, <1>2 DEF AlwaysRoom, NothingAfterFree, InOrder
<1>9. ~running'
  <2>1. 1 \in Buffer
    BY DepthAssumption DEF Buffer
  <2>2. Holds(freed', 1)
    BY <1>1, <1>7, <2>1, SMTT(30) DEF Partition, Holds
  <2> QED BY <2>2 DEF Holds, running
<1> QED BY <1>6, <1>7, <1>8, <1>9 DEF PoolInv, FrameChain

(* cpw_buflist_new builds a pool that satisfies the invariant.             *)
LEMMA InitInv ==
  ASSUME PoolInit
  PROVE  PoolInv /\ running /\ ready = 0
<1>1. /\ Len(empty) = Depth /\ DOMAIN empty = Buffer /\ empty \in Seq(Buffer)
      /\ \A i \in Buffer : empty[i] = i
      /\ Buffer # {} /\ empty # <<>> /\ Head(empty) \in Buffer
  <2>1. empty = [b \in 1..Depth |-> b] /\ Depth \in Nat \ {0}
    BY DepthAssumption DEF PoolInit, Buffer
  <2>2. empty \in Seq(1..Depth) /\ Len(empty) = Depth
    BY <2>1
  <2>3. 1 \in 1..Depth /\ \A i \in 1..Depth : empty[i] = i
    BY <2>1
  <2>4. empty # <<>> /\ Head(empty) = empty[1]
    BY <2>1, <2>2
  <2> QED BY <2>1, <2>2, <2>3, <2>4 DEF Buffer
<1>2. /\ inuse = <<>> /\ freed = <<>> /\ out = <<>> /\ nread = 0
      /\ pos = [b \in Buffer |-> 0]
      /\ data = [b \in Buffer |-> [i \in Offset |-> 0]]
  BY DEF PoolInit
<1>3. TypeOK
  BY <1>1, <1>2, FrameSizeAssumption DEF TypeOK
<1>4. Partition
  <2>1. \A b \in Buffer : b \in DOMAIN empty /\ empty[b] = b
    BY <1>1
  <2>2. \A b \in Buffer : Holds(empty, b)
    BY <2>1 DEF Holds
  <2>3. NoDup(empty)
    BY <1>1 DEF NoDup
  <2> QED BY <1>2, <2>2, <2>3 DEF Partition, NoDup, Disjoint
<1>5. AlwaysRoom
  BY <1>1, <1>2, FrameSizeAssumption DEF AlwaysRoom
<1>6. ready = 0 /\ running
  BY <1>1, <1>2 DEF ready, partial, running
<1>7. FrameChain
  <2>1. empty[1] \in Buffer /\ pos[empty[1]] = 0
    BY <1>1, <1>2
  <2>2. Collecting
    BY <2>1 DEF Collecting
  <2> QED BY <1>2, <1>6, <2>2 DEF FrameChain, Consecutive, Successive, Joined, Complete
<1>8. NothingAfterFree /\ InOrder
  BY <1>2, <1>6 DEF NothingAfterFree, InOrder
<1> QED BY <1>3, <1>4, <1>5, <1>6, <1>7, <1>8 DEF PoolInv

(* Every step of the pool preserves the invariant, stuttering included.    *)
LEMMA NextInv ==
  ASSUME PoolInv, [PoolNext]_poolvars
  PROVE  PoolInv'
<1>1. CASE UNCHANGED poolvars
  <2>1. UNCHANGED <<empty, inuse, pos, data, freed, nread, out>>
    BY <1>1 DEF poolvars
  <2>2. TypeOK' /\ Partition'
    BY <2>1 DEF PoolInv, TypeOK, Partition, NoDup, Disjoint, Holds
  <2>3. AlwaysRoom' /\ NothingAfterFree' /\ InOrder'
    BY <2>1 DEF PoolInv, AlwaysRoom, NothingAfterFree, running, InOrder
  <2>4. ready' = ready
    BY <2>1 DEF ready, partial
  <2>5. /\ Consecutive' = Consecutive /\ Successive' = Successive
        /\ Joined' = Joined /\ Complete' = Complete /\ Collecting' = Collecting
    BY <2>1, <2>4 DEF Consecutive, Successive, Joined, Complete, Collecting
  <2>6. FrameChain'
    BY <2>1, <2>5 DEF PoolInv, FrameChain, running
  <2> QED BY <2>2, <2>3, <2>6 DEF PoolInv
<1>2. CASE Read
  BY <1>1, <1>2, ReadCases, ReadFullInv, ReadPartInv DEF Read
<1>3. CASE Write
  BY <1>1, <1>3, WriteCases, WriteFullInv, WritePartInv DEF Write
<1>4. CASE cpw_buflist_free
  BY <1>4, FreeInv
<1> QED BY <1>1, <1>2, <1>3, <1>4 DEF PoolNext

-----------------------------------------------------------------------------
(* The inductive invariant holds in every state of the pool.               *)
THEOREM PoolInvariance == PoolSpec => []PoolInv
<1>1. PoolInit => PoolInv
  BY InitInv
<1>2. PoolInv /\ [PoolNext]_poolvars => PoolInv'
  BY NextInv
<1> QED BY <1>1, <1>2, PTL DEF PoolSpec

(* The variables of the pool keep their types (pipe.h:17-30).              *)
THEOREM TypeCorrect == PoolSpec => []TypeOK
<1>1. PoolInv => TypeOK
  BY DEF PoolInv
<1> QED BY <1>1, PoolInvariance, PTL

(* No buffer is lost, in two places, or freed twice (pipe.c:256-313).      *)
THEOREM PartitionHolds == PoolSpec => []Partition
<1>1. PoolInv => Partition
  BY DEF PoolInv
<1> QED BY <1>1, PoolInvariance, PTL

(* The head of a list always has room for the next read or bytes for the   *)
(* next write, so the error branches (pipe.c:87, 126) are never taken.     *)
THEOREM AlwaysRoomHolds == PoolSpec => []AlwaysRoom
<1>1. PoolInv => AlwaysRoom
  BY DEF PoolInv
<1> QED BY <1>1, PoolInvariance, PTL

(* The n-th byte written is the n-th byte read (pipe.c:41-132).            *)
THEOREM InOrderHolds == PoolSpec => []InOrder
<1>1. PoolInv => InOrder
  BY DEF PoolInv
<1> QED BY <1>1, PoolInvariance, PTL

-----------------------------------------------------------------------------
(* The pool implements FrameRelay: every step accepts bytes, delivers the  *)
(* next ones of complete frames, stops, or changes nothing that FrameRelay *)
(* sees.                                                                   *)

(* A read that the bound admits is an Accept. *)
LEMMA ReadAccepts ==
  ASSUME PoolInv, PoolInv', NEW r \in 1..FrameSize, nread + r <= MaxBytes,
         ReadFull(empty[1], r) \/ ReadPart(empty[1], r)
  PROVE  Frames!Accept(r)
<1> DEFINE b == empty[1]
<1>1. /\ running /\ ready = nread - pos[b] /\ pos[b] \in 0..(FrameSize - 1)
  BY EmptyHead DEF ReadFull, ReadPart, ReadStep
<1>2. nread \in Nat /\ r \in Nat /\ ready \in Int /\ pos[b] \in Nat
  BY <1>1, FrameSizeAssumption, SMTT(30) DEF PoolInv, TypeOK
<1>3. running' /\ nread' = nread + r /\ out' = out
  BY ReadFullInv, ReadPartInv DEF ReadFull, ReadPart, ReadStep
<1>4. nread - ready = pos[b]
  <2> HIDE DEF b
  <2> QED BY <1>1, <1>2
<1>5. CASE ReadFull(b, r)
  <2>1. pos[b] + r = FrameSize /\ ready' = ready + FrameSize
    BY <1>5, ReadFullInv DEF ReadFull
  <2>2. r <= FrameSize - (nread - ready)
    <3> HIDE DEF b
    <3> QED BY <1>2, <1>4, <2>1, FrameSizeAssumption
  <2>3. nread' - ready = FrameSize /\ ready' = nread'
    <3> HIDE DEF b
    <3> QED BY <1>1, <1>2, <1>3, <2>1, FrameSizeAssumption
  <2> QED BY <1>1, <1>3, <2>2, <2>3 DEF Frames!Accept
<1>6. CASE ReadPart(b, r)
  <2>1. pos[b] + r < FrameSize /\ ready' = ready
    BY <1>6, ReadPartInv DEF ReadPart
  <2>2. r <= FrameSize - (nread - ready)
    <3> HIDE DEF b
    <3> QED BY <1>2, <1>4, <2>1, FrameSizeAssumption
  <2>3. nread' - ready # FrameSize
    <3> HIDE DEF b
    <3> QED BY <1>1, <1>2, <1>3, <2>1, FrameSizeAssumption
  <2> QED BY <1>1, <1>3, <2>1, <2>2, <2>3 DEF Frames!Accept
<1> QED BY <1>5, <1>6

(* A write is a Deliver. *)
LEMMA WriteDelivers ==
  ASSUME PoolInv, PoolInv', NEW w \in 1..FrameSize,
         WriteFull(inuse[1], w) \/ WritePart(inuse[1], w)
  PROVE  Frames!Deliver(w)
<1> DEFINE b == inuse[1]
           base == data[b][0]
<1>1. /\ WriteStep(b, w) /\ inuse # <<>>
      /\ running' /\ ready' = ready /\ nread' = nread
  BY WriteFullInv, WritePartInv DEF WriteFull, WritePart, WriteStep
<1>2. /\ b \in Buffer /\ pos[b] \in 0..(FrameSize - 1) /\ 1 \in DOMAIN inuse
      /\ running
  BY <1>1, InuseHead
<1>3. /\ w \in Nat /\ pos[b] \in Nat /\ base \in Nat /\ Len(out) \in Nat
      /\ nread \in Nat
  <2>1. /\ w \in Nat /\ pos[b] \in Nat /\ Len(out) \in Nat /\ nread \in Nat
    BY <1>2, FrameSizeAssumption DEF PoolInv, TypeOK
  <2>2. 0 \in Offset /\ data \in [Buffer -> [Offset -> Nat]]
    <3>1. 0 \in Offset
      BY FrameSizeAssumption DEF Offset
    <3> QED BY <3>1 DEF PoolInv, TypeOK
  <2> QED BY <1>2, <2>1, <2>2
<1>4. pos[b] + w <= FrameSize
  BY <1>3, FrameSizeAssumption DEF WriteFull, WritePart
<1>5. out' = out \o [k \in 1..w |-> Len(out) + k]
  BY <1>1, <1>4, WriteData DEF WriteStep
<1>6. base + pos[b] = Len(out) + 1 /\ base + FrameSize <= ready + 1
  BY <1>1, <1>2 DEF PoolInv, FrameChain, Joined, Complete
<1>7. ready \in Int
  <2>1. CASE empty = <<>>
    BY <1>3, <2>1 DEF ready, partial
  <2>2. CASE empty # <<>>
    <3>1. ready = nread - pos[empty[1]] /\ pos[empty[1]] \in 0..(FrameSize - 1)
      BY <2>2, EmptyHead
    <3> QED BY <1>3, <3>1, FrameSizeAssumption
  <2> QED BY <2>1, <2>2
<1>8. w <= ready - Len(out)
  <2> HIDE DEF b, base
  <2> QED BY <1>3, <1>4, <1>6, <1>7, FrameSizeAssumption
<1> QED BY <1>1, <1>2, <1>5, <1>8 DEF Frames!Deliver

LEMMA PoolStepRefines ==
  ASSUME PoolInv, PoolInv', [PoolNext]_poolvars
  PROVE  [Frames!Next]_(Frames!vars)
<1>1. CASE UNCHANGED poolvars
  BY <1>1 DEF poolvars, Frames!vars, running, ready, partial
<1>2. CASE Read
  <2>1. PICK r \in -1..FrameSize : nread + r <= MaxBytes /\ cpw_pipe_read(r)
    BY <1>2 DEF Read
  <2>2. CASE ReadFull(empty[1], r) \/ ReadPart(empty[1], r)
    <3>1. r \in 1..FrameSize
      BY <2>1, <2>2, FrameSizeAssumption DEF ReadFull, ReadPart, ReadStep
    <3>2. Frames!Accept(r)
      BY <2>1, <2>2, <3>1, ReadAccepts
    <3> QED BY <3>1, <3>2 DEF Frames!Next
  <2> QED BY <1>1, <2>1, <2>2, ReadCases
<1>3. CASE Write
  <2>1. PICK w \in -1..FrameSize : cpw_pipe_write(w)
    BY <1>3 DEF Write
  <2>2. CASE WriteFull(inuse[1], w) \/ WritePart(inuse[1], w)
    <3>1. w \in 1..FrameSize
      BY <2>1, <2>2, FrameSizeAssumption DEF WriteFull, WritePart, WriteStep
    <3>2. Frames!Deliver(w)
      BY <2>2, <3>1, WriteDelivers
    <3> QED BY <3>1, <3>2 DEF Frames!Next
  <2> QED BY <1>1, <2>1, <2>2, WriteCases
<1>4. CASE cpw_buflist_free
  <2>1. ~running' /\ out' = out /\ nread' = nread
    BY <1>4, FreeInv DEF cpw_buflist_free
  <2>2. CASE running
    BY <2>1, <2>2 DEF Frames!Next, Frames!Stop
  <2>3. CASE ~running
    <3>1. running' = running
      BY <2>1, <2>3 DEF running
    <3>2. Len(out') = Len(out)
      BY <2>1
    <3> QED BY <2>1, <2>3, <3>1, <3>2 DEF Frames!vars
  <2> QED BY <2>2, <2>3
<1> QED BY <1>1, <1>2, <1>3, <1>4 DEF PoolNext

(* The pool implements store and forward of whole frames, for every number *)
(* of buffers and every frame size.                                        *)
THEOREM PoolRefinement == PoolSpec => RelaySpec
<1>1. PoolInit => Frames!Init
  BY InitInv DEF PoolInit, Frames!Init
<1>2. PoolInv /\ PoolInv' /\ [PoolNext]_poolvars => [Frames!Next]_(Frames!vars)
  BY PoolStepRefines
<1> QED BY <1>1, <1>2, PoolInvariance, PTL DEF PoolSpec, RelaySpec, Frames!Spec

-----------------------------------------------------------------------------
(* The program.                                                            *)

(* The bytes that exist stay within the bound, so every read of the        *)
(* program is one the pool admits.                                         *)
ByteBound == /\ nread \in Nat /\ inbuf \in Nat /\ lost \in Nat
             /\ nread + inbuf + lost <= MaxBytes

LEMMA ReadIsPoolStep ==
  ASSUME ByteBound, ReadIn
  PROVE  ByteBound' /\ [PoolNext]_poolvars
<1>1. lost' = lost
  BY DEF ReadIn
<1>2. CASE UNCHANGED <<poolvars, inbuf>>
  BY <1>1, <1>2 DEF ByteBound, poolvars
<1>3. ASSUME NEW r \in 1..FrameSize, r <= inbuf, cpw_pipe_read(r), inbuf' = inbuf - r
      PROVE  ByteBound' /\ [PoolNext]_poolvars
  <2>1. r \in Nat /\ r > 0 /\ r \in -1..FrameSize
    BY <1>3, FrameSizeAssumption
  <2>2. nread' = nread + r
    BY <1>3, <2>1 DEF cpw_pipe_read, Fill
  <2>3. nread + r <= MaxBytes
    BY <1>3, <2>1, MaxBytesAssumption DEF ByteBound
  <2>4. Read
    BY <1>3, <2>1, <2>3 DEF Read
  <2>5. ByteBound'
    BY <1>1, <1>3, <2>1, <2>2, MaxBytesAssumption DEF ByteBound
  <2> QED BY <2>4, <2>5 DEF PoolNext
<1>4. CASE cpw_pipe_read(-1) /\ UNCHANGED inbuf
  BY <1>2, <1>4 DEF cpw_pipe_read
<1>5. CASE cpw_pipe_read(0) /\ UNCHANGED inbuf
  BY <1>2, <1>5 DEF cpw_pipe_read
<1> QED BY <1>2, <1>3, <1>4, <1>5 DEF ReadIn

LEMMA WriteIsPoolStep ==
  ASSUME ByteBound, WriteOut
  PROVE  ByteBound' /\ [PoolNext]_poolvars
<1>1. UNCHANGED <<inbuf, lost>>
  BY DEF WriteOut, invars
<1>2. CASE UNCHANGED poolvars
  BY <1>1, <1>2 DEF ByteBound, poolvars
<1>3. ASSUME NEW w \in 1..FrameSize, cpw_pipe_write(w)
      PROVE  ByteBound' /\ [PoolNext]_poolvars
  <2>1. w > 0 /\ w \in -1..FrameSize
    BY FrameSizeAssumption
  <2>2. nread' = nread
    BY <1>3, <2>1 DEF cpw_pipe_write, Drain
  <2> QED BY <1>1, <1>3, <2>1, <2>2 DEF ByteBound, Write, PoolNext
<1>4. CASE cpw_pipe_write(-1)
  BY <1>2, <1>4 DEF cpw_pipe_write
<1> QED BY <1>2, <1>3, <1>4 DEF WriteOut

LEMMA FreeIsPoolStep ==
  ASSUME ByteBound, cpw_buflist_free, UNCHANGED <<inbuf, lost>>
  PROVE  ByteBound' /\ [PoolNext]_poolvars
BY DEF ByteBound, cpw_buflist_free, PoolNext

(* Bytes only ever enter one at a time, and the rest of the program moves  *)
(* them from the FIFO to "lost" at most.                                   *)
LEMMA OtherIsStutter ==
  ASSUME ByteBound, UNCHANGED poolvars,
         \/ UNCHANGED <<inbuf, lost>>
         \/ inbuf' = 0 /\ lost' = lost + inbuf
         \/ /\ nread + inbuf + lost < MaxBytes
            /\ inbuf' = inbuf + 1 /\ lost' = lost
  PROVE  ByteBound' /\ [PoolNext]_poolvars
<1>1. nread' = nread
  BY DEF poolvars
<1>2. ByteBound'
  BY <1>1, MaxBytesAssumption DEF ByteBound
<1> QED BY <1>2

LEMMA StepIsPoolStep ==
  ASSUME ByteBound, [Next]_vars
  PROVE  ByteBound' /\ [PoolNext]_poolvars
<1>1. CASE CreateIn
  BY <1>1, OtherIsStutter DEF CreateIn
<1>2. CASE CreateOut
  BY <1>2, OtherIsStutter, FreeIsPoolStep DEF CreateOut, invars
<1>3. CASE Watch
  BY <1>3, OtherIsStutter DEF Watch, invars
<1>4. CASE Select
  BY <1>4, OtherIsStutter DEF Select, invars
<1>5. CASE Wake
  BY <1>5, OtherIsStutter DEF Wake, invars
<1>6. CASE WriteOut
  BY <1>6, WriteIsPoolStep
<1>7. CASE ReadIn
  BY <1>7, ReadIsPoolStep
<1>8. CASE CloseIn
  BY <1>8, OtherIsStutter DEF CloseIn
<1>9. CASE ReopenIn
  BY <1>9, OtherIsStutter DEF ReopenIn
<1>10. CASE Check
  BY <1>10, OtherIsStutter DEF Check, invars
<1>11. CASE FreeIn
  BY <1>11, FreeIsPoolStep DEF FreeIn, invars
<1>12. CASE FreeOut
  BY <1>12, FreeIsPoolStep DEF FreeOut, invars
<1>13. CASE Kill
  BY <1>13, OtherIsStutter DEF Kill, invars
<1>14. CASE Signal
  BY <1>14, OtherIsStutter DEF Signal, invars
<1>15. CASE ProducerOpen
  BY <1>15, OtherIsStutter DEF ProducerOpen
<1>16. CASE ProducerWrite
  BY <1>16, OtherIsStutter DEF ProducerWrite
<1>17. CASE ProducerClose
  BY <1>17, OtherIsStutter DEF ProducerClose
<1>18. CASE ConsumerOpen
  BY <1>18, OtherIsStutter DEF ConsumerOpen, invars
<1>19. CASE ConsumerRead
  BY <1>19, OtherIsStutter DEF ConsumerRead, invars
<1>20. CASE ConsumerClose
  BY <1>20, OtherIsStutter DEF ConsumerClose, invars
<1>21. CASE UNCHANGED vars
  BY <1>21, OtherIsStutter DEF vars, invars
<1> QED
  BY <1>1, <1>2, <1>3, <1>4, <1>5, <1>6, <1>7, <1>8, <1>9, <1>10, <1>11,
     <1>12, <1>13, <1>14, <1>15, <1>16, <1>17, <1>18, <1>19, <1>20, <1>21
  DEF Next, Main, Environment

-----------------------------------------------------------------------------
(* The program implements the pool (cpw.c:140-218 against pipe.c).         *)
THEOREM RelayImplementsPool == Spec => PoolSpec
<1>1. Init => PoolInit /\ ByteBound
  BY MaxBytesAssumption DEF Init, PoolInit, ByteBound
<1>2. ByteBound /\ [Next]_vars => ByteBound' /\ [PoolNext]_poolvars
  BY StepIsPoolStep
<1> QED BY <1>1, <1>2, PTL DEF Spec, PoolSpec

(* The program relays whole frames in order: through the pool it           *)
(* implements FrameRelay.                                                  *)
THEOREM RelayRefinement == Spec => RelaySpec
BY RelayImplementsPool, PoolRefinement, PTL

(* Whatever partial reads and writes, ends of file, lost consumers and     *)
(* signals occur, the n-th byte cpw writes is the n-th byte it read, and   *)
(* every buffer is in one list or freed, once.                             *)
THEOREM RelayInOrder == Spec => [](InOrder /\ Partition /\ AlwaysRoom)
<1>1. PoolInv => InOrder /\ Partition /\ AlwaysRoom
  BY DEF PoolInv
<1> QED BY <1>1, RelayImplementsPool, PoolInvariance, PTL

-----------------------------------------------------------------------------
(***************************************************************************)
(* The safety of the program as a whole, for pools, FIFOs and frames of    *)
(* every size and any number of producers, consumers, signals and failures *)
(*                                                                         *)
(* RelayInv, the inductive invariant, adds to that of the pool what links  *)
(* it to the main loop: which pipes the sets of pselect hold while they    *)
(* are in use (LoopState), when the pool is freed (PoolState), whose bytes *)
(* may be in the input FIFO (SessionState), and what the pool holds while  *)
(* nothing can leave it (NoFlowState).                                     *)
(***************************************************************************)
OpenOnes == {p \in Wanted : fd(p) = "open"}

LoopState ==
  /\ pc \in {"select", "asleep"} => watched = OpenOnes
  /\ pc = "write" => isset \subseteq OpenOnes
  /\ pc = "read" /\ "in" \in isset => empty # <<>>

PoolState ==
  /\ pc \in Setup \cup Loop \cup {"free_in"} => running
  /\ pc \in {"free_out", "kill", "exited"} => ~running
  /\ running => Len(empty) + Len(inuse) = Depth

SessionState ==
  /\ sessions \in Nat
  /\ pc = "create_in" => infd = "none"
  /\ writing \/ hup \/ inbuf > 0 => sessions >= 1
  /\ pc \in {"write", "read"} /\ "in" \in isset => sessions >= 1
  /\ pc \in {"close", "reopen"} => sessions >= 1 /\ (writing \/ inbuf > 0 => sessions > 1)
  /\ inbuf > 0 /\ infd # "open" /\ Alive => sessions > 1 \/ last_signum
  /\ pc \in Shutdown => last_signum
  /\ FirstSessionKept

Filled == nread = Len(inuse) * FrameSize + partial

NoFlowState ==
  pc \in Setup \/ outfd = "bad" =>
    /\ out = <<>> /\ nread <= Depth * FrameSize
    /\ running => Filled

RelayInv == /\ PoolInv /\ ByteBound
            /\ LoopState /\ PoolState /\ SessionState /\ NoFlowState

-----------------------------------------------------------------------------
(* What the operations of the pool do to the length of the lists. *)

LEMMA WriteEffect ==
  ASSUME PoolInv, NEW w \in -1..FrameSize, cpw_pipe_write(w)
  PROVE  /\ freed' = freed /\ nread' = nread
         /\ empty # <<>> => empty' # <<>>
         /\ Len(empty') + Len(inuse') = Len(empty) + Len(inuse)
<1>1. empty \in Seq(Buffer) /\ inuse \in Seq(Buffer)
  BY DEF PoolInv, TypeOK
<1>2. CASE UNCHANGED poolvars
  BY <1>2 DEF poolvars
<1>3. CASE WriteFull(inuse[1], w)
  <2>1. /\ inuse # <<>> /\ inuse' = Tail(inuse) /\ empty' = Append(empty, inuse[1])
        /\ freed' = freed /\ nread' = nread
    BY <1>3 DEF WriteFull, WriteStep
  <2>2. Len(empty') = Len(empty) + 1 /\ empty' # <<>>
    BY <1>1, <2>1
  <2>3. Len(inuse') = Len(inuse) - 1
    BY <1>1, <2>1
  <2> QED BY <1>1, <2>1, <2>2, <2>3
<1>4. CASE WritePart(inuse[1], w)
  BY <1>4 DEF WritePart, WriteStep
<1> QED BY <1>2, <1>3, <1>4, WriteCases

LEMMA ReadEffect ==
  ASSUME PoolInv, NEW r \in -1..FrameSize, cpw_pipe_read(r)
  PROVE  /\ freed' = freed /\ out' = out
         /\ Len(empty') + Len(inuse') = Len(empty) + Len(inuse)
         /\ Filled => Filled'
<1>1. empty \in Seq(Buffer) /\ inuse \in Seq(Buffer) /\ pos \in [Buffer -> 0..FrameSize]
      /\ nread \in Nat /\ FrameSize \in Nat
  BY FrameSizeAssumption DEF PoolInv, TypeOK
<1>2. CASE UNCHANGED poolvars
  BY <1>2 DEF poolvars, Filled, partial
<1> DEFINE b == empty[1]
<1>3. CASE ReadFull(b, r)
  <2>1. /\ empty # <<>> /\ empty' = Tail(empty) /\ inuse' = Append(inuse, b)
        /\ freed' = freed /\ out' = out /\ nread' = nread + r /\ r \in Nat
        /\ pos[b] + r = FrameSize /\ pos' = [pos EXCEPT ![b] = 0]
    BY <1>3 DEF ReadFull, ReadStep
  <2>2. Len(empty') = Len(empty) - 1 /\ Len(empty) \in Nat /\ Len(inuse) \in Nat
    BY <1>1, <2>1
  <2>3. Len(inuse') = Len(inuse) + 1
    BY <1>1, <2>1
  <2>4. partial = pos[b] /\ pos[b] \in Nat
    BY <1>1, <2>1, EmptyHead
  <2>5. partial' = 0
    <3>1. CASE Len(empty) = 1
      <4>1. empty' = <<>>
        <5>1. empty' \in Seq(Buffer) /\ Len(empty') = 0
          BY <1>1, <2>1, <2>2, <3>1
        <5> QED BY <5>1
      <4> QED BY <4>1 DEF partial
    <3>2. CASE Len(empty) # 1
      <4>0. Len(empty) >= 2 /\ empty' \in Seq(Buffer) /\ Len(empty') >= 1
        <5>1. Len(empty) # 0
          BY <1>1, <2>1
        <5> QED BY <1>1, <2>1, <2>2, <3>2, <5>1
      <4>1. 2 \in DOMAIN empty /\ empty' # <<>> /\ Head(empty') = empty[2] /\ empty[2] \in Buffer
        <5>1. empty' # <<>> /\ Head(empty') = empty'[1] /\ 1 \in 1..Len(empty')
          BY <4>0
        <5>2. empty'[1] = empty[1 + 1]
          BY <1>1, <2>1, <4>0
        <5> QED BY <1>1, <4>0, <5>1, <5>2
      <4>2. pos[empty[2]] = 0
        BY <4>1 DEF PoolInv, AlwaysRoom
      <4>3. pos'[empty[2]] = 0
        <5>1. pos'[empty[2]] = IF empty[2] = b THEN 0 ELSE pos[empty[2]]
          BY <1>1, <2>1, <4>1
        <5> QED BY <4>2, <5>1
      <4> QED BY <4>1, <4>3 DEF partial
    <3> QED BY <3>1, <3>2
  <2>6. ASSUME Filled PROVE Filled'
    <3>1. (Len(inuse) + 1) * FrameSize = Len(inuse) * FrameSize + FrameSize
      BY <1>1, <2>2
    <3>2. Len(inuse) * FrameSize \in Nat
      BY <1>1, <2>2
    <3>3. nread = Len(inuse) * FrameSize + pos[b]
      BY <2>4, <2>6 DEF Filled
    <3>4. nread' = (Len(inuse) + 1) * FrameSize
      <4> DEFINE f == Len(inuse) * FrameSize
                 x == pos[b]
      <4>1. f \in Nat /\ x \in Nat /\ r \in Nat /\ nread = f + x /\ nread' = nread + r
            /\ x + r = FrameSize
        BY <2>1, <2>4, <3>2, <3>3
      <4>2. (Len(inuse) + 1) * FrameSize = f + FrameSize
        BY <3>1
      <4> HIDE DEF f, x
      <4> QED BY <1>1, <4>1, <4>2
    <3>5. (Len(inuse) + 1) * FrameSize \in Nat
      BY <1>1, <3>1, <3>2
    <3> QED BY <2>3, <2>5, <3>4, <3>5 DEF Filled
  <2> QED BY <2>1, <2>2, <2>3, <2>6
<1>4. CASE ReadPart(b, r)
  <2>1. /\ empty # <<>> /\ empty' = empty /\ inuse' = inuse
        /\ freed' = freed /\ out' = out /\ nread' = nread + r /\ r \in Nat
        /\ pos' = [pos EXCEPT ![b] = pos[b] + r]
    BY <1>4 DEF ReadPart, ReadStep
  <2>2. b \in Buffer /\ partial = pos[b] /\ pos[b] \in Nat /\ Head(empty) = b
    BY <1>1, <2>1, EmptyHead
  <2>3. partial' = pos[b] + r
    BY <1>1, <2>1, <2>2 DEF partial
  <2>4. ASSUME Filled PROVE Filled'
    <3>1. Len(inuse) * FrameSize \in Nat
      BY <1>1
    <3>2. nread = Len(inuse) * FrameSize + pos[b]
      BY <2>2, <2>4 DEF Filled
    <3>3. nread' = Len(inuse) * FrameSize + (pos[b] + r)
      BY <1>1, <2>1, <2>2, <3>1, <3>2, SMTT(30)
    <3> QED BY <2>1, <2>3, <3>3 DEF Filled
  <2> QED BY <2>1, <2>4
<1> QED BY <1>2, <1>3, <1>4, ReadCases

(* A pool into which everything read still fits has read no more than its  *)
(* size.                                                                   *)
Whole   == Len(empty) + Len(inuse) = Depth
Bounded == nread <= Depth * FrameSize

LEMMA FilledIsBounded == PoolInv /\ Filled /\ Whole => Bounded
<1> SUFFICES ASSUME PoolInv, Filled, Whole PROVE Bounded
  OBVIOUS
<1> USE DEF Whole, Bounded
<1>1. /\ empty \in Seq(Buffer) /\ Len(empty) \in Nat /\ Len(inuse) \in Nat
      /\ FrameSize \in Nat /\ Depth \in Nat
  BY FrameSizeAssumption, DepthAssumption DEF PoolInv, TypeOK
<1>2. CASE empty = <<>>
  <2>1. Len(empty) = 0 /\ partial = 0
    BY <1>2 DEF partial
  <2>2. Len(inuse) = Depth /\ Depth * FrameSize \in Nat
    BY <1>1, <2>1
  <2> QED BY <2>1, <2>2 DEF Filled
<1>3. CASE empty # <<>>
  <2>1. partial \in Nat /\ partial < FrameSize
    BY <1>3, EmptyHead, FrameSizeAssumption
  <2>2. Len(empty) >= 1
    BY <1>1, <1>3
  <2> DEFINE n == Len(inuse)
             k == Len(empty)
  <2>3. n \in Nat /\ k \in Nat /\ k >= 1 /\ Depth = n + k
    BY <1>1, <2>2
  <2>4. nread = n * FrameSize + partial
    BY DEF Filled
  <2> HIDE DEF n, k
  <2>5. Depth * FrameSize = n * FrameSize + k * FrameSize
    BY <1>1, <2>3
  <2>6. k * FrameSize >= FrameSize
    BY <1>1, <2>3
  <2>7. n * FrameSize \in Nat /\ k * FrameSize \in Nat
    BY <1>1, <2>3
  <2> QED BY <1>1, <2>1, <2>4, <2>5, <2>6, <2>7
<1> QED BY <1>2, <1>3

-----------------------------------------------------------------------------
(* One lemma for each part of the invariant. *)

(* A step that leaves alone what LoopState speaks of: by pc, whatever      *)
(* happens to the sessions and the FIFOs.                                  *)
LEMMA LoopStep ==
  ASSUME RelayInv, [Next]_vars
  PROVE  LoopState'
<1> USE DEF LoopState
<1>1. CASE CreateIn
  BY <1>1 DEF CreateIn
<1>2. CASE CreateOut
  BY <1>2 DEF CreateOut
<1>3. CASE Watch
  <2>1. pc' = "aborted" \/ (pc' = "select" /\ watched' = OpenOnes)
    BY <1>3 DEF Watch, OpenOnes
  <2>2. OpenOnes' = OpenOnes
    BY <1>3 DEF Watch, OpenOnes, Wanted, fd, poolvars
  <2> QED BY <2>1, <2>2
<1>4. CASE Select \/ Wake
  <2>1. /\ watched = OpenOnes /\ watched' = watched
        /\ pc' = "asleep" \/ (pc' = "write" /\ isset' \subseteq watched)
    BY <1>4 DEF Select, Wake, Ready, RelayInv
  <2>2. OpenOnes' = OpenOnes
    BY <1>4 DEF Select, Wake, OpenOnes, Wanted, fd, poolvars
  <2> QED BY <2>1, <2>2
<1>5. CASE WriteOut
  <2>1. pc' \in {"read", "killed", "aborted"} /\ isset' = isset /\ isset \subseteq OpenOnes
    BY <1>5 DEF WriteOut, RelayInv
  <2>2. "in" \in isset => empty # <<>>
    BY <2>1 DEF OpenOnes, Wanted
  <2>3. \/ UNCHANGED poolvars
        \/ \E w \in -1..FrameSize : cpw_pipe_write(w)
    BY <1>5, FrameSizeAssumption DEF WriteOut
  <2>4. empty # <<>> => empty' # <<>>
    BY <2>3, WriteEffect DEF poolvars, RelayInv
  <2> QED BY <2>1, <2>2, <2>4
<1>6. CASE ReadIn
  BY <1>6 DEF ReadIn
<1>7. CASE CloseIn \/ ReopenIn \/ Check \/ FreeIn \/ FreeOut \/ Kill
  BY <1>7 DEF CloseIn, ReopenIn, Check, FreeIn, FreeOut, Kill
<1>8. CASE Signal
  <2>1. /\ pc' = "check" \/ pc' = pc
        /\ UNCHANGED <<watched, isset, empty, inuse, infd, outfd>>
    BY <1>8 DEF Signal, poolvars
  <2>2. OpenOnes' = OpenOnes
    BY <2>1 DEF OpenOnes, Wanted, fd
  <2> QED BY <2>1, <2>2 DEF RelayInv
<1>9. CASE Environment \/ UNCHANGED vars
  <2>1. UNCHANGED <<pc, watched, isset, empty, inuse, infd, outfd>>
    BY <1>9 DEF Environment, ProducerOpen, ProducerWrite, ProducerClose, ConsumerOpen,
                ConsumerRead, ConsumerClose, vars, poolvars, loopvars
  <2>2. OpenOnes' = OpenOnes
    BY <2>1 DEF OpenOnes, Wanted, fd
  <2> QED BY <2>1, <2>2 DEF RelayInv
<1> QED BY <1>1, <1>2, <1>3, <1>4, <1>5, <1>6, <1>7, <1>8, <1>9 DEF Next, Main

(* The pool is whole until the first of the pipes is freed.                *)
LEMMA PoolStateStep ==
  ASSUME RelayInv, [Next]_vars
  PROVE  PoolState'
<1> USE DEF PoolState, Setup, Loop
<1>1. PoolInv /\ PoolState
  BY DEF RelayInv
<1>2. CASE CreateIn
  BY <1>1, <1>2 DEF CreateIn, poolvars, running
<1>3. CASE CreateOut
  <2>1. cpw_buflist_free => ~running'
    BY <1>1, FreeInv
  <2> QED BY <1>1, <1>3, <2>1 DEF CreateOut, poolvars, running
<1>4. CASE Watch \/ Select \/ Wake \/ CloseIn \/ ReopenIn \/ Check
  BY <1>1, <1>4 DEF Watch, Select, Wake, CloseIn, ReopenIn, Check, poolvars, running
<1>5. CASE WriteOut
  <2>1. pc = "write" /\ pc' \in {"read", "killed", "aborted"}
    BY <1>5 DEF WriteOut
  <2>2. \/ UNCHANGED poolvars
        \/ \E w \in -1..FrameSize : cpw_pipe_write(w)
    BY <1>5, FrameSizeAssumption DEF WriteOut
  <2>3. running' = running /\ Len(empty') + Len(inuse') = Len(empty) + Len(inuse)
    BY <1>1, <2>2, WriteEffect DEF poolvars, running
  <2> QED BY <1>1, <2>1, <2>3
<1>6. CASE ReadIn
  <2>1. pc = "read" /\ pc' \in {"check", "close", "aborted"}
    BY <1>6 DEF ReadIn
  <2>2. \/ UNCHANGED poolvars
        \/ \E r \in -1..FrameSize : cpw_pipe_read(r)
    BY <1>6, FrameSizeAssumption DEF ReadIn
  <2>3. running' = running /\ Len(empty') + Len(inuse') = Len(empty) + Len(inuse)
    BY <1>1, <2>2, ReadEffect DEF poolvars, running
  <2> QED BY <1>1, <2>1, <2>3
<1>7. CASE FreeIn \/ FreeOut
  <2>1. pc' \in {"free_out", "kill"} /\ ~running'
    BY <1>1, <1>7, FreeInv DEF FreeIn, FreeOut
  <2> QED BY <2>1
<1>8. CASE Kill
  BY <1>1, <1>8 DEF Kill, poolvars, running
<1>9. CASE Signal
  BY <1>1, <1>9 DEF Signal, poolvars, running
<1>10. CASE Environment \/ UNCHANGED vars
  <2>1. UNCHANGED <<pc, empty, inuse, freed>>
    BY <1>10 DEF Environment, ProducerOpen, ProducerWrite, ProducerClose, ConsumerOpen,
                 ConsumerRead, ConsumerClose, vars, poolvars, loopvars
  <2> QED BY <1>1, <2>1 DEF running
<1> QED BY <1>2, <1>3, <1>4, <1>5, <1>6, <1>7, <1>8, <1>9, <1>10 DEF Next, Main

(* Bytes are in the input FIFO, or a producer about to write some, only    *)
(* after a producer has come; when the input has been closed, only after a *)
(* second one has.                                                         *)
LEMMA SessionStep ==
  ASSUME RelayInv, [Next]_vars
  PROVE  SessionState'
<1> USE DEF SessionState, FirstSessionKept, Shutdown, Alive, Stopped
<1>1. SessionState /\ nread \in Nat /\ inbuf \in Nat /\ lost \in Nat
  BY DEF RelayInv, ByteBound
<1>2. CASE CreateIn
  BY <1>1, <1>2 DEF CreateIn, sigvars
<1>3. CASE CreateOut
  BY <1>1, <1>3 DEF CreateOut, sigvars, invars
<1>4. CASE Watch
  BY <1>1, <1>4 DEF Watch, sigvars, invars
<1>5. CASE Select \/ Wake
  <2>1. "in" \in isset' => sessions >= 1
    BY <1>1, <1>5 DEF Select, Wake, Ready, Readable
  <2>2. pc' \in {"asleep", "write"} /\ UNCHANGED <<infd, sigvars, invars>>
    BY <1>5 DEF Select, Wake
  <2>3. Alive
    BY <1>5 DEF Select, Wake
  <2> QED BY <1>1, <2>1, <2>2, <2>3 DEF sigvars, invars
<1>6. CASE WriteOut
  BY <1>1, <1>6 DEF WriteOut, sigvars, invars
<1>7. CASE ReadIn
  <2>1. \/ pc' \in {"check", "aborted"} /\ inbuf' \in Nat /\ inbuf' <= inbuf
        \/ pc' = "close" /\ inbuf' = 0 /\ ~writing /\ "in" \in isset
    BY <1>1, <1>7, FrameSizeAssumption DEF ReadIn
  <2>2. pc = "read" /\ UNCHANGED <<infd, isset, sigvars, writing, hup, sessions, lost>>
    BY <1>7 DEF ReadIn
  <2> QED BY <1>1, <2>1, <2>2 DEF sigvars
<1>8. CASE CloseIn
  BY <1>1, <1>8 DEF CloseIn, sigvars
<1>9. CASE ReopenIn
  BY <1>1, <1>9 DEF ReopenIn, sigvars
<1>10. CASE Check
  BY <1>1, <1>10 DEF Check, sigvars, invars
<1>11. CASE FreeIn \/ FreeOut \/ Kill
  BY <1>1, <1>11 DEF FreeIn, FreeOut, Kill, sigvars, invars
<1>12. CASE Signal
  BY <1>1, <1>12 DEF Signal, invars
<1>13. CASE ProducerOpen
  BY <1>1, <1>13 DEF ProducerOpen, sigvars, loopvars
<1>14. CASE ProducerWrite
  BY <1>1, <1>14 DEF ProducerWrite, sigvars, loopvars
<1>15. CASE ProducerClose
  BY <1>1, <1>15 DEF ProducerClose, sigvars, loopvars
<1>16. CASE ConsumerOpen \/ ConsumerRead \/ ConsumerClose \/ UNCHANGED vars
  BY <1>1, <1>16 DEF ConsumerOpen, ConsumerRead, ConsumerClose, vars, sigvars, loopvars, invars
<1> QED BY <1>2, <1>3, <1>4, <1>5, <1>6, <1>7, <1>8, <1>9, <1>10, <1>11, <1>12, <1>13,
           <1>14, <1>15, <1>16 DEF Next, Main, Environment

(* Without an output the pool only fills.                                  *)
LEMMA NoFlowStep ==
  ASSUME RelayInv, [Next]_vars
  PROVE  NoFlowState'
<1> USE DEF NoFlowState, Setup
<1>1. PoolInv /\ PoolState /\ NoFlowState /\ LoopState
  BY DEF RelayInv
<1>2. ASSUME UNCHANGED poolvars, pc' \in Setup \/ outfd' = "bad" => pc \in Setup \/ outfd = "bad"
      PROVE  NoFlowState'
  <2>1. UNCHANGED <<empty, inuse, pos, freed, nread, out>>
    BY <1>2 DEF poolvars
  <2>2. Filled' = Filled /\ running' = running
    BY <2>1 DEF Filled, partial, running
  <2> QED BY <1>1, <1>2, <2>1, <2>2
<1>3. CASE CreateIn
  BY <1>2, <1>3 DEF CreateIn
<1>4. CASE CreateOut
  <2>1. CASE UNCHANGED poolvars
    BY <1>2, <1>4, <2>1 DEF CreateOut
  <2>2. CASE cpw_buflist_free
    <3>1. ~running' /\ out' = out /\ nread' = nread
      BY <1>1, <2>2, FreeInv DEF cpw_buflist_free
    <3> QED BY <1>1, <1>4, <3>1 DEF CreateOut
  <2> QED BY <1>4, <2>1, <2>2 DEF CreateOut
<1>5. CASE Watch \/ Select \/ Wake \/ CloseIn \/ ReopenIn \/ Check \/ Kill
  BY <1>2, <1>5 DEF Watch, Select, Wake, CloseIn, ReopenIn, Check, Kill
<1>6. CASE WriteOut
  <2>1. pc = "write" /\ pc' \in {"read", "killed", "aborted"} /\ outfd' = outfd
    BY <1>6 DEF WriteOut
  <2>2. outfd = "bad" => "out" \notin isset
    BY <1>1, <2>1 DEF LoopState, OpenOnes, fd
  <2>3. outfd = "bad" => UNCHANGED poolvars
    BY <1>6, <2>2 DEF WriteOut
  <2>4. CASE outfd = "bad"
    BY <1>2, <2>1, <2>3, <2>4
  <2>5. CASE outfd # "bad"
    BY <2>1, <2>5
  <2> QED BY <2>4, <2>5
<1>7. CASE ReadIn
  <2>1. pc = "read" /\ pc' \in {"check", "close", "aborted"} /\ outfd' = outfd
    BY <1>7 DEF ReadIn
  <2>2. CASE UNCHANGED poolvars
    BY <1>2, <2>1, <2>2
  <2>3. ASSUME NEW r \in -1..FrameSize, cpw_pipe_read(r) PROVE NoFlowState'
    <3>1. /\ freed' = freed /\ out' = out
          /\ Len(empty') + Len(inuse') = Len(empty) + Len(inuse)
          /\ Filled => Filled'
      BY <1>1, <2>3, ReadEffect
    <3>2. running /\ Len(empty) + Len(inuse) = Depth
      BY <1>1, <2>1 DEF PoolState, Loop
    <3>3. PoolInv'
      BY StepIsPoolStep, NextInv DEF RelayInv
    <3>4. Filled' => nread' <= Depth * FrameSize
      <4>1. PoolInv' /\ Filled' /\ Whole' => Bounded'
        BY FilledIsBounded, PTL
      <4> QED BY <3>1, <3>2, <3>3, <4>1 DEF Whole, Bounded
    <3> QED BY <1>1, <2>1, <3>1, <3>2, <3>4 DEF running
  <2> QED BY <1>7, <2>2, <2>3, FrameSizeAssumption DEF ReadIn
<1>8. CASE FreeIn \/ FreeOut
  <2>1. ~running' /\ out' = out /\ nread' = nread
    BY <1>1, <1>8, FreeInv DEF FreeIn, FreeOut, cpw_buflist_free
  <2> QED BY <1>1, <1>8, <2>1 DEF FreeIn, FreeOut
<1>9. CASE Signal
  BY <1>2, <1>9 DEF Signal
<1>10. CASE Environment \/ UNCHANGED vars
  BY <1>2, <1>10 DEF Environment, ProducerOpen, ProducerWrite, ProducerClose, ConsumerOpen,
                     ConsumerRead, ConsumerClose, vars, loopvars
<1> QED BY <1>3, <1>4, <1>5, <1>6, <1>7, <1>8, <1>9, <1>10 DEF Next, Main

-----------------------------------------------------------------------------
(* RelayInv holds of the program in every state (cpw.c:101-230).           *)
THEOREM RelayInvariant == Spec => []RelayInv
<1>1. Init => RelayInv
  <2> SUFFICES ASSUME Init PROVE RelayInv
    OBVIOUS
  <2>1. PoolInit /\ pc = "create_in" /\ infd = "none" /\ outfd = "none" /\ inbuf = 0
        /\ writing = FALSE /\ hup = FALSE /\ sessions = 0 /\ lost = 0
    BY DEF Init
  <2>2. PoolInv /\ running /\ ready = 0
    BY <2>1, InitInv
  <2>3. /\ Len(empty) = Depth /\ Len(inuse) = 0 /\ nread = 0 /\ out = <<>>
    BY <2>1, DepthAssumption DEF PoolInit, Buffer
  <2>4. Filled
    BY <2>2, <2>3, FrameSizeAssumption DEF Filled, ready, partial, PoolInv, TypeOK
  <2>5. LoopState
    BY <2>1 DEF LoopState
  <2>6. PoolState
    BY <2>1, <2>2, <2>3, DepthAssumption DEF PoolState
  <2>7. SessionState
    BY <2>1 DEF SessionState, FirstSessionKept, Shutdown
  <2>8. NoFlowState
    BY <2>2, <2>3, <2>4, <2>6, FilledIsBounded DEF NoFlowState, PoolState, Whole, Bounded
  <2>9. ByteBound
    BY <2>1, <2>3, MaxBytesAssumption DEF ByteBound
  <2> QED BY <2>2, <2>5, <2>6, <2>7, <2>8, <2>9 DEF RelayInv
<1>2. RelayInv /\ [Next]_vars => RelayInv'
  <2> SUFFICES ASSUME RelayInv, [Next]_vars PROVE RelayInv'
    OBVIOUS
  <2>1. PoolInv' /\ ByteBound'
    BY StepIsPoolStep, NextInv DEF RelayInv
  <2> QED BY <2>1, LoopStep, PoolStateStep, SessionStep, NoFlowStep DEF RelayInv
<1> QED BY <1>1, <1>2, PTL DEF Spec

(* The sets pselect returned stay valid while they are used, although the  *)
(* write moves buffers before the read looks at them (cpw.c:174-188).      *)
THEOREM RelayReadyStaysValid == Spec => []ReadyStaysValid
<1>1. RelayInv => ReadyStaysValid
  <2> SUFFICES ASSUME RelayInv PROVE ReadyStaysValid
    OBVIOUS
  <2>1. PoolInv /\ LoopState
    BY DEF RelayInv
  <2>2. empty # <<>> => CanRead
    <3>1. empty # <<>> => empty[1] = Head(empty) /\ pos[empty[1]] < FrameSize
      BY <2>1, EmptyHead, FrameSizeAssumption DEF PoolInv, TypeOK
    <3> QED BY <3>1 DEF CanRead
  <2>3. inuse # <<>> => CanWrite
    <3>1. inuse # <<>> => inuse[1] = Head(inuse) /\ pos[inuse[1]] < FrameSize
      BY <2>1, InuseHead, FrameSizeAssumption DEF PoolInv, TypeOK
    <3> QED BY <3>1 DEF CanWrite
  <2> QED BY <2>1, <2>2, <2>3 DEF ReadyStaysValid, LoopState, OpenOnes, Wanted
<1> QED BY <1>1, RelayInvariant, PTL

(* With both pipes open there is always one to wait for (cpw.c:147-170).   *)
THEOREM RelayNeverSleepsOnNothing == Spec => []NeverSleepsOnNothing
<1>1. RelayInv => NeverSleepsOnNothing
  <2> SUFFICES ASSUME RelayInv, pc = "asleep", infd = "open", outfd = "open"
               PROVE  watched # {}
    BY DEF NeverSleepsOnNothing
  <2>1. watched = OpenOnes /\ running /\ Len(empty) + Len(inuse) = Depth
    BY DEF RelayInv, LoopState, PoolState, Loop
  <2>2. empty # <<>> \/ inuse # <<>>
    <3>1. Len(empty) # 0 \/ Len(inuse) # 0
      BY <2>1, DepthAssumption
    <3> QED BY <3>1
  <2>3. "in" \in OpenOnes \/ "out" \in OpenOnes
    BY <2>2 DEF OpenOnes, Wanted, fd
  <2> QED BY <2>1, <2>3
<1> QED BY <1>1, RelayInvariant, PTL

(* When cpw ends in order it has freed every buffer, each once             *)
(* (cpw.c:213-218, pipe.c:219-241).                                        *)
THEOREM RelayFreedOnce == Spec => []FreedOnce
<1>1. RelayInv => FreedOnce
  <2> SUFFICES ASSUME RelayInv, pc \in {"kill", "exited"}
               PROVE  NoDup(freed) /\ \A b \in Buffer : Holds(freed, b)
    BY DEF FreedOnce
  <2>1. ~running /\ PoolInv
    BY DEF RelayInv, PoolState
  <2>2. empty = <<>> /\ inuse = <<>>
    BY <2>1 DEF PoolInv, NothingAfterFree
  <2> QED BY <2>1, <2>2 DEF PoolInv, Partition, Holds
<1> QED BY <1>1, RelayInvariant, PTL

(* With an output that could not be opened nothing is written, and no more *)
(* is read than the pool holds (pipe.c:176-181, cpw.c:147-167).            *)
THEOREM RelayNoOutputNoFlow == Spec => []NoOutputNoFlow
<1>1. RelayInv => NoOutputNoFlow
  BY DEF RelayInv, NoFlowState, NoOutputNoFlow
<1> QED BY <1>1, RelayInvariant, PTL

(* Opening the input anew at the end of file loses no byte of the first    *)
(* producer (pipe.c:73-81).                                                *)
THEOREM RelayFirstSessionKept == Spec => []FirstSessionKept
<1>1. RelayInv => FirstSessionKept
  BY DEF RelayInv, SessionState
<1> QED BY <1>1, RelayInvariant, PTL
=============================================================================
