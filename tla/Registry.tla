------------------------------ MODULE Registry ------------------------------
(***************************************************************************)
(* One of the two global lists of pipes: a hash table of uthash.h with the *)
(* descriptor of the pipe as its key.  cpw_pipe_register adds to it, the   *)
(* main loop goes through it, and HASH_ITER frees the pipes at the end.    *)
(* A pipe that reached the end of its input has a new descriptor and stays *)
(* where it is.  The place of a handle within the chain of its bucket, on  *)
(* which nothing depends, is left out.                                     *)
(***************************************************************************)
EXTENDS Integers, FiniteSets, SequencesExt

CONSTANTS Pipe, NULL,
          HashValue,                 \* what the hash function may give
          HASH_INITIAL_NUM_BUCKETS, HASH_BKT_CAPACITY_THRESH,
          MaxReopens                 \* bound on the new descriptors

Handle == [prev : Pipe \cup {NULL}, next : Pipe \cup {NULL}, hashv : Nat]

ASSUME RegistryAssumption ==
  /\ NULL \notin Pipe \cup Handle
  /\ HashValue \subseteq Nat
  /\ {HASH_INITIAL_NUM_BUCKETS, HASH_BKT_CAPACITY_THRESH} \subseteq Nat \ {0}
  /\ MaxReopens \in Nat

VARIABLES
  head, tbl,     \* the list and its table
  hh,            \* the handles in the pipes
  key,           \* the hash of the descriptor each pipe has now
  freed,         \* how many times each pipe was freed
  pc, ipipe, tpipe,
  reopens, registered

listvars == <<head, tbl, hh>>
itervars == <<freed, pc, ipipe, tpipe>>
vars     == <<listvars, key, itervars, reopens, registered>>

Init ==
  /\ head = NULL /\ tbl = NULL
  /\ hh = [p \in Pipe |-> NULL]
  /\ key \in [Pipe -> HashValue]
  /\ freed = [p \in Pipe |-> 0]
  /\ pc = "running" /\ ipipe = NULL /\ tpipe = NULL
  /\ reopens = 0 /\ registered = <<>>

-----------------------------------------------------------------------------
(* A bucket: the handles in its chain and what it says of them. *)
EmptyBucket == [chain |-> {}, count |-> 0, expand_mult |-> 0]

HASH_TO_BKT(hashv, num_bkts) == hashv % num_bkts

HASH_MAKE_TABLE(p) ==
  [tail |-> p, num_buckets |-> HASH_INITIAL_NUM_BUCKETS, num_items |-> 0,
   buckets |-> [b \in 0..HASH_INITIAL_NUM_BUCKETS - 1 |-> EmptyBucket],
   ideal_chain_maxlen |-> 0, ineff_expands |-> 0, noexpand |-> 0]

(* What the loops of HASH_EXPAND_BUCKETS leave in a new bucket. *)
Moved(chain, ideal) ==
  LET c == Cardinality(chain)
  IN  [chain |-> chain, count |-> c, expand_mult |-> IF c > ideal THEN c \div ideal ELSE 0]

Fault_Expanded(t, h, n, ideal) ==  \* a pipe is moved by the descriptor it has now
  [b \in 0..n - 1 |->
     Moved({p \in t.buckets[b % t.num_buckets].chain : HASH_TO_BKT(key[p], n) = b}, ideal)]

(* Every chain is split in two by one more bit of the saved hash values. *)
Expanded(t, h, n, ideal) ==
  [b \in 0..n - 1 |->
     Moved({p \in t.buckets[b % t.num_buckets].chain : HASH_TO_BKT(h[p].hashv, n) = b}, ideal)]

(* Those beyond the ideal place in their chain. *)
Nonideal(new, ideal) ==
  FoldSet(LAMBDA b, sum : sum + (IF new[b].count > ideal THEN new[b].count - ideal ELSE 0),
          0, DOMAIN new)

(* Two expansions in a row that left most pipes there are the last. *)
HASH_EXPAND_BUCKETS(t, h) ==
  LET n     == 2 * t.num_buckets
      ideal == (t.num_items + n - 1) \div n
      new   == Expanded(t, h, n, ideal)
      ineff == IF Nonideal(new, ideal) > t.num_items \div 2 THEN t.ineff_expands + 1 ELSE 0
  IN  [t EXCEPT !.num_buckets = n, !.buckets = new, !.ideal_chain_maxlen = ideal,
                !.ineff_expands = ineff,
                !.noexpand = IF ineff > 1 THEN 1 ELSE t.noexpand]

Full(bucket) == bucket.count >= (bucket.expand_mult + 1) * HASH_BKT_CAPACITY_THRESH

Fault_HASH_ADD_TO_BKT(t, h, p) ==  \* no bucket ever makes the table grow
  LET b == HASH_TO_BKT(h[p].hashv, t.num_buckets)
  IN  [t EXCEPT !.buckets[b].count = @ + 1, !.buckets[b].chain = @ \cup {p}]

HASH_ADD_TO_BKT(t, h, p) ==
  LET b    == HASH_TO_BKT(h[p].hashv, t.num_buckets)
      with == [t EXCEPT !.buckets[b].count = @ + 1, !.buckets[b].chain = @ \cup {p}]
  IN  IF Full(with.buckets[b]) /\ t.noexpand # 1 THEN HASH_EXPAND_BUCKETS(with, h) ELSE with

(* cpw_pipe_register, that is, HASH_ADD_INT. *)
cpw_pipe_register(p) ==
  /\ pc = "running" /\ hh[p] = NULL
  /\ LET add == [prev |-> IF head = NULL THEN NULL ELSE tbl.tail, next |-> NULL,
                 hashv |-> key[p]]
         t   == IF head = NULL THEN HASH_MAKE_TABLE(p) ELSE [tbl EXCEPT !.tail = p]
     IN  /\ head' = IF head = NULL THEN p ELSE head
         /\ hh' = [q \in Pipe |-> IF q = p THEN add
                                  ELSE IF head # NULL /\ q = tbl.tail
                                       THEN [hh[q] EXCEPT !.next = p] ELSE hh[q]]
         /\ tbl' = HASH_ADD_TO_BKT([t EXCEPT !.num_items = @ + 1], hh', p)
  /\ registered' = Append(registered, p)
  /\ UNCHANGED <<key, itervars, reopens>>

(* The end of the input of a pipe: it is opened anew (pipe.c:73-74). *)
Reopen(p) ==
  /\ pc = "running" /\ hh[p] # NULL /\ reopens < MaxReopens
  /\ \E v \in HashValue \ {key[p]} : key' = [key EXCEPT ![p] = v]
  /\ reopens' = reopens + 1
  /\ UNCHANGED <<listvars, itervars, registered>>

-----------------------------------------------------------------------------
NextOf(p) == IF p # NULL THEN hh[p].next ELSE NULL

(* HASH_ITER with cpw_pipe_free; the table itself is not freed. *)
HASH_ITER ==
  /\ pc = "running"
  /\ pc' = "freeing" /\ ipipe' = head /\ tpipe' = NextOf(head)
  /\ UNCHANGED <<listvars, key, freed, reopens, registered>>

Fault_FreePipe ==  \* the loop that does not fetch the next pipe beforehand
  /\ pc = "freeing" /\ ipipe # NULL
  /\ freed' = [freed EXCEPT ![ipipe] = @ + 1]
  /\ ipipe' \in {NULL, NextOf(ipipe), ipipe} /\ tpipe' = NextOf(ipipe')
  /\ UNCHANGED <<listvars, key, pc, reopens, registered>>

FreePipe ==
  /\ pc = "freeing" /\ ipipe # NULL
  /\ freed' = [freed EXCEPT ![ipipe] = @ + 1]
  /\ ipipe' = tpipe
  /\ tpipe' = NextOf(tpipe)
  /\ UNCHANGED <<listvars, key, pc, reopens, registered>>

Freed ==
  /\ pc = "freeing" /\ ipipe = NULL
  /\ pc' = "done"
  /\ UNCHANGED <<listvars, key, freed, ipipe, tpipe, reopens, registered>>

Next == \/ \E p \in Pipe : cpw_pipe_register(p) \/ Reopen(p)
        \/ HASH_ITER \/ FreePipe \/ Freed

Spec == Init /\ [][Next]_vars

-----------------------------------------------------------------------------
Buckets == IF tbl = NULL THEN {} ELSE DOMAIN tbl.buckets
Chain(b) == tbl.buckets[b].chain

(* Every pipe is in one bucket, that of the hash value it was given when   *)
(* it was registered, however often the table grew and whatever descriptor *)
(* the pipe has by now: deletion finds it there (uthash.h:262).            *)
InItsBucket ==
  \A b \in Buckets :
    Chain(b) = {p \in ToSet(registered) : HASH_TO_BKT(hh[p].hashv, tbl.num_buckets) = b}

(* What HASH_FSCK would find (uthash.h:305-372), which is compiled out:    *)
(* the links in the order of registration are right from head to tail, the *)
(* items and each bucket are counted right, and every pipe is in its own.  *)
Fsck ==
  LET s == registered IN
  /\ InItsBucket
  /\ s = <<>> => head = NULL
  /\ s # <<>> =>
       /\ head = s[1] /\ tbl.tail = Last(s) /\ tbl.num_items = Len(s)
       /\ \A i \in DOMAIN s :
            /\ hh[s[i]].prev = IF i = 1 THEN NULL ELSE s[i - 1]
            /\ hh[s[i]].next = IF i = Len(s) THEN NULL ELSE s[i + 1]
       /\ \A b \in Buckets : tbl.buckets[b].count = Cardinality(Chain(b))

(* "By expanding buckets the hash keeps a bound on the chain length"       *)
(* (uthash.h:661-662): the multiple of the threshold the bucket stands     *)
(* for, or of the ideal length should that be more, until the table finds  *)
(* that growing does not help.                                             *)
ChainsAreBounded ==
  \A b \in Buckets :
    tbl.noexpand = 1
      \/ Cardinality(Chain(b)) <= (tbl.buckets[b].expand_mult + 1)
                                    * Max({HASH_BKT_CAPACITY_THRESH, tbl.ideal_chain_maxlen})

(* At the end every pipe has been freed once, and no freed one looked at.  *)
PipesFreedOnce ==
  /\ ipipe # NULL => freed[ipipe] = 0
  /\ pc = "done" => \A p \in Pipe : freed[p] = IF p \in ToSet(registered) THEN 1 ELSE 0
=============================================================================
