--------------------------- MODULE RegistryProofs ---------------------------
(***************************************************************************)
(* Proofs about the list of pipes of Registry and its hash table, for any  *)
(* pipes, any hash function, any initial number of buckets and any         *)
(* threshold: the links, the buckets and the counts are right whenever the *)
(* table has grown, chains are bounded, and every pipe is freed once.      *)
(***************************************************************************)
EXTENDS Registry, FiniteSetTheorems, SequenceTheorems, TLAPS

Bucket == [chain : SUBSET Pipe, count : Nat, expand_mult : Nat]

(* A table that holds the pipes of R, by the hash values in h: every one   *)
(* in its bucket, the buckets counted right.                               *)
Holds(t, h, R) ==
  /\ t = [tail |-> t.tail, num_buckets |-> t.num_buckets, num_items |-> t.num_items,
          buckets |-> t.buckets, ideal_chain_maxlen |-> t.ideal_chain_maxlen,
          ineff_expands |-> t.ineff_expands, noexpand |-> t.noexpand]
  /\ t.num_buckets \in Nat \ {0} /\ t.num_items \in Nat
  /\ t.ideal_chain_maxlen \in Nat
  /\ t.buckets \in [0..t.num_buckets - 1 -> Bucket]
  /\ \A b \in 0..t.num_buckets - 1 :
       /\ t.buckets[b].chain = {p \in R : HASH_TO_BKT(h[p].hashv, t.num_buckets) = b}
       /\ IsFiniteSet(t.buckets[b].chain)
       /\ t.buckets[b].count = Cardinality(t.buckets[b].chain)

Bound(t) == Max({HASH_BKT_CAPACITY_THRESH, t.ideal_chain_maxlen})

Bounded(t) ==
  t.noexpand = 1 \/ \A b \in 0..t.num_buckets - 1 :
                      t.buckets[b].count <= (t.buckets[b].expand_mult + 1) * Bound(t)

(* Each registered pipe is linked to the one registered before it and the  *)
(* one after it.                                                           *)
Linked ==
  /\ head = IF registered = <<>> THEN NULL ELSE registered[1]
  /\ \A i \in DOMAIN registered :
       /\ hh[registered[i]] \in Handle
       /\ hh[registered[i]].prev = IF i = 1 THEN NULL ELSE registered[i - 1]
       /\ hh[registered[i]].next = IF i = Len(registered) THEN NULL ELSE registered[i + 1]

TableOK ==
  /\ registered = <<>> => tbl = NULL
  /\ registered # <<>> =>
       /\ Holds(tbl, hh, ToSet(registered)) /\ Bounded(tbl)
       /\ tbl.tail = Last(registered) /\ tbl.num_items = Len(registered)

(* How far the loop that frees has come: k pipes are freed, the next one   *)
(* is at hand, and the one after it was looked up.                         *)
Nth(k) == IF k \in DOMAIN registered THEN registered[k] ELSE NULL

IterOK ==
  \E k \in 0..Len(registered) :
    /\ \A i \in DOMAIN registered : freed[registered[i]] = IF i <= k THEN 1 ELSE 0
    /\ pc = "running" => k = 0 /\ ipipe = NULL
    /\ pc = "freeing" => ipipe = Nth(k + 1) /\ tpipe = Nth(k + 2)
    /\ pc = "done" => k = Len(registered) /\ ipipe = NULL

IInv ==
  /\ registered \in Seq(Pipe) /\ IsInjective(registered)
  /\ key \in [Pipe -> HashValue] /\ hh \in [Pipe -> Handle \cup {NULL}]
  /\ freed \in [Pipe -> Nat] /\ pc \in {"running", "freeing", "done"}
  /\ \A p \in Pipe : p \notin ToSet(registered) => hh[p] = NULL /\ freed[p] = 0
  /\ Linked /\ TableOK /\ IterOK

-----------------------------------------------------------------------------

LEMMA ModIsSmall ==
  ASSUME NEW h \in Nat, NEW n \in Nat \ {0}
  PROVE  h % n \in 0..n - 1 /\ h \div n \in Nat /\ h = n * (h \div n) + (h % n)
<1>1. h % n \in 0..n - 1
  OBVIOUS
<1>2. h \div n \in Nat
  OBVIOUS
<1>3. h = n * (h \div n) + (h % n)
  OBVIOUS
<1> QED BY <1>1, <1>2, <1>3

LEMMA ModUnique ==
  ASSUME NEW n \in Nat \ {0}, NEW q \in Nat, NEW r \in 0..n - 1
  PROVE  (n * q + r) % n = r
OBVIOUS

(* One more bit of the hash value decides between two buckets. *)
LEMMA ModMod ==
  ASSUME NEW h \in Nat, NEW n \in Nat \ {0}
  PROVE  (h % (2 * n)) % n = h % n
<1> DEFINE m == 2 * n
           b == h % m
           q == h \div m
           s == b \div n
           r == b % n
<1>1. m \in Nat \ {0}
  OBVIOUS
<1> HIDE DEF m
<1>2. b \in Nat /\ q \in Nat /\ h = m * q + b
  BY <1>1, ModIsSmall
<1>3. r \in 0..n - 1 /\ s \in Nat /\ b = n * s + r
  BY <1>2, ModIsSmall
<1> HIDE DEF b, q, s, r
<1>4. h = n * (2 * q + s) + r
  BY <1>2, <1>3 DEF m
<1>5. 2 * q + s \in Nat
  BY <1>2, <1>3
<1>6. h % n = r
  BY <1>3, <1>4, <1>5, ModUnique
<1> QED BY <1>6 DEF r, b, m

LEMMA DivBound ==
  ASSUME NEW c \in Nat, NEW d \in Nat \ {0}
  PROVE  c \div d \in Nat /\ c <= (c \div d + 1) * d
<1> DEFINE q == c \div d
           r == c % d
<1>1. q \in Nat /\ r \in 0..d - 1 /\ c = d * q + r
  BY ModIsSmall
<1> HIDE DEF q, r
<1>2. (q + 1) * d = d * q + d
  BY <1>1
<1> QED BY <1>1, <1>2 DEF q

LEMMA TimesMonotone ==
  ASSUME NEW a \in Nat, NEW b \in Nat, NEW m \in Nat, a <= b
  PROVE  m * a <= m * b
OBVIOUS

LEMMA BoundFacts ==
  ASSUME NEW t, t.ideal_chain_maxlen \in Nat
  PROVE  /\ Bound(t) \in Nat
         /\ HASH_BKT_CAPACITY_THRESH <= Bound(t) /\ t.ideal_chain_maxlen <= Bound(t)
<1> DEFINE a == HASH_BKT_CAPACITY_THRESH
           b == t.ideal_chain_maxlen
<1>1. a \in Nat /\ b \in Nat
  BY RegistryAssumption
<1>2. PICK m \in {a, b} : \A x \in {a, b} : m >= x
  BY <1>1
<1>3. Bound(t) \in {a, b} /\ \A x \in {a, b} : Bound(t) >= x
  BY <1>2 DEF Bound, Max
<1> QED BY <1>1, <1>3

-----------------------------------------------------------------------------
(* Growing the table keeps every pipe in its bucket, for the hash value    *)
(* was saved and one more bit of it splits each chain in two.              *)
LEMMA ExpandHolds ==
  ASSUME NEW t, NEW h, NEW R, Holds(t, h, R), t.num_items # 0,
         \A p \in R : h[p].hashv \in Nat
  PROVE  LET u == HASH_EXPAND_BUCKETS(t, h)
         IN  /\ Holds(u, h, R) /\ Bounded(u)
             /\ u.tail = t.tail /\ u.num_items = t.num_items
<1> DEFINE u     == HASH_EXPAND_BUCKETS(t, h)
           n     == 2 * t.num_buckets
           ideal == (t.num_items + n - 1) \div n
           new   == Expanded(t, h, n, ideal)
           split(b) == {p \in t.buckets[b % t.num_buckets].chain : HASH_TO_BKT(h[p].hashv, n) = b}
<1>1. PICK ie, ne :
        u = [t EXCEPT !.num_buckets = n, !.buckets = new, !.ideal_chain_maxlen = ideal,
                      !.ineff_expands = ie, !.noexpand = ne]
  BY DEF HASH_EXPAND_BUCKETS
<1> HIDE DEF u
<1>2. t.num_buckets \in Nat \ {0} /\ t.num_items \in Nat \ {0}
  BY DEF Holds
<1>3. n \in Nat \ {0}
  BY <1>2
<1> HIDE DEF n
<1>4. ideal \in Nat \ {0}
  <2> DEFINE x == t.num_items + n - 1
  <2>1. x \in Nat /\ x >= n
    BY <1>2, <1>3
  <2> HIDE DEF x
  <2>2. x \div n \in Nat /\ x % n \in 0..n - 1 /\ x = n * (x \div n) + (x % n)
    BY <1>3, <2>1, ModIsSmall
  <2>3. x \div n # 0
    BY <1>3, <2>1, <2>2
  <2> QED BY <2>2, <2>3 DEF x
<1> HIDE DEF ideal
<1>5. /\ new = [b \in 0..n - 1 |-> Moved(split(b), ideal)]
  BY DEF Expanded
<1> HIDE DEF new
<1>6. u = [tail |-> t.tail, num_buckets |-> n, num_items |-> t.num_items, buckets |-> new,
           ideal_chain_maxlen |-> ideal, ineff_expands |-> ie, noexpand |-> ne]
  BY <1>1 DEF Holds
<1>7. ASSUME NEW b \in 0..n - 1
      PROVE  /\ split(b) = {p \in R : HASH_TO_BKT(h[p].hashv, n) = b}
             /\ IsFiniteSet(split(b)) /\ split(b) \subseteq Pipe
  <2>0. b \in Nat
    BY <1>3
  <2>1. b % t.num_buckets \in 0..t.num_buckets - 1
    BY <1>2, <2>0, ModIsSmall
  <2> DEFINE c == t.buckets[b % t.num_buckets]
  <2>2. /\ c.chain = {p \in R : HASH_TO_BKT(h[p].hashv, t.num_buckets) = b % t.num_buckets}
        /\ IsFiniteSet(c.chain)
    BY <2>1 DEF Holds
  <2>3. c \in Bucket
    BY <2>1 DEF Holds
  <2>4. ASSUME NEW p \in R, HASH_TO_BKT(h[p].hashv, n) = b
        PROVE  HASH_TO_BKT(h[p].hashv, t.num_buckets) = b % t.num_buckets
    BY <1>2, <2>4, ModMod DEF HASH_TO_BKT, n
  <2>5. split(b) \subseteq c.chain
    OBVIOUS
  <2>6. split(b) = {p \in R : HASH_TO_BKT(h[p].hashv, n) = b}
    BY <2>2, <2>4
  <2> HIDE DEF split
  <2>7. IsFiniteSet(split(b))
    BY <2>2, <2>5, FS_Subset
  <2> QED BY <2>3, <2>5, <2>6, <2>7 DEF Bucket
<1> HIDE DEF split
<1>8. ASSUME NEW b \in 0..n - 1
      PROVE  LET c == Cardinality(split(b)) IN
             /\ new[b].chain = split(b) /\ new[b].count = c /\ c \in Nat
             /\ new[b].expand_mult = IF c > ideal THEN c \div ideal ELSE 0
             /\ new[b] \in Bucket
             /\ new[b].expand_mult \in Nat
             /\ c <= (new[b].expand_mult + 1) * ideal
  <2> DEFINE c == Cardinality(split(b))
             e == IF c > ideal THEN c \div ideal ELSE 0
  <2>1. new[b] = [chain |-> split(b), count |-> c, expand_mult |-> e]
    BY <1>5 DEF Moved
  <2>2. c \in Nat
    BY <1>7, FS_CardinalityType
  <2> HIDE DEF c
  <2>3. e \in Nat /\ c <= (e + 1) * ideal
    BY <1>4, <2>2, DivBound
  <2>4. new[b] \in Bucket
    BY <1>7, <2>1, <2>2, <2>3 DEF Bucket
  <2> QED BY <2>1, <2>2, <2>3, <2>4 DEF c
<1>9. /\ u.num_buckets = n /\ u.buckets = new /\ u.ideal_chain_maxlen = ideal
      /\ u.tail = t.tail /\ u.num_items = t.num_items
  BY <1>6
<1>10. Holds(u, h, R)
  <2>1. new \in [0..n - 1 -> Bucket]
    BY <1>5, <1>8
  <2>2. u = [tail |-> u.tail, num_buckets |-> u.num_buckets, num_items |-> u.num_items,
          buckets |-> u.buckets, ideal_chain_maxlen |-> u.ideal_chain_maxlen,
          ineff_expands |-> u.ineff_expands, noexpand |-> u.noexpand]
    BY <1>6
  <2>3. \A b \in 0..n - 1 :
          /\ new[b].chain = {p \in R : HASH_TO_BKT(h[p].hashv, n) = b}
          /\ IsFiniteSet(new[b].chain)
          /\ new[b].count = Cardinality(new[b].chain)
    BY <1>7, <1>8
  <2> QED BY <1>2, <1>3, <1>4, <1>9, <2>1, <2>2, <2>3 DEF Holds
<1>11. Bounded(u)
  <2>1. Bound(u) \in Nat /\ ideal <= Bound(u)
    BY <1>4, <1>9, BoundFacts
  <2>2. ASSUME NEW b \in 0..n - 1
        PROVE  new[b].count <= (new[b].expand_mult + 1) * Bound(u)
    <3> DEFINE m == new[b].expand_mult + 1
    <3>1. m \in Nat /\ new[b].count \in Nat /\ new[b].count <= m * ideal
      BY <1>8
    <3> HIDE DEF m
    <3>2. m * ideal <= m * Bound(u)
      BY <1>4, <2>1, <3>1, TimesMonotone
    <3>3. m * ideal \in Nat /\ m * Bound(u) \in Nat
      BY <1>4, <2>1, <3>1
    <3>4. new[b].count <= m * Bound(u)
      BY <3>1, <3>2, <3>3
    <3> QED BY <3>4 DEF m
  <2> QED BY <1>9, <2>2 DEF Bounded
<1> QED BY <1>9, <1>10, <1>11 DEF u

(* What a table says of the pipes it holds depends on the saved hash       *)
(* values only.                                                            *)
LEMMA HoldsByHash ==
  ASSUME NEW t, NEW h, NEW g, NEW R, Holds(t, h, R),
         \A p \in R : g[p].hashv = h[p].hashv
  PROVE  Holds(t, g, R)
<1>1. ASSUME NEW b
      PROVE  {p \in R : HASH_TO_BKT(h[p].hashv, t.num_buckets) = b}
               = {p \in R : HASH_TO_BKT(g[p].hashv, t.num_buckets) = b}
  OBVIOUS
<1> QED BY <1>1 DEF Holds

LEMMA MadeTableHolds ==
  ASSUME NEW p, NEW h
  PROVE  LET t == [HASH_MAKE_TABLE(p) EXCEPT !.num_items = @ + 1]
         IN  Holds(t, h, {}) /\ Bounded(t) /\ t.tail = p /\ t.num_items = 1
<1> DEFINE t == [HASH_MAKE_TABLE(p) EXCEPT !.num_items = @ + 1]
           N == HASH_INITIAL_NUM_BUCKETS
           B == [b \in 0..N - 1 |-> EmptyBucket]
<1>1. t = [tail |-> p, num_buckets |-> N, num_items |-> 1, buckets |-> B,
           ideal_chain_maxlen |-> 0, ineff_expands |-> 0, noexpand |-> 0]
  <2>1. HASH_MAKE_TABLE(p)
          = [tail |-> p, num_buckets |-> N, num_items |-> 0, buckets |-> B,
             ideal_chain_maxlen |-> 0, ineff_expands |-> 0, noexpand |-> 0]
    BY DEF HASH_MAKE_TABLE
  <2> HIDE DEF B, N
  <2> QED BY <2>1
<1> HIDE DEF t
<1>2. N \in Nat \ {0}
  BY RegistryAssumption
<1>3. B \in [0..N - 1 -> Bucket]
  BY DEF EmptyBucket, Bucket
<1>4. ASSUME NEW b \in 0..N - 1
      PROVE  B[b].chain = {} /\ B[b].count = 0 /\ B[b].expand_mult = 0
  BY DEF EmptyBucket
<1> HIDE DEF B, N
<1>5. Holds(t, h, {})
  <2>1. t = [tail |-> t.tail, num_buckets |-> t.num_buckets, num_items |-> t.num_items,
          buckets |-> t.buckets, ideal_chain_maxlen |-> t.ideal_chain_maxlen,
          ineff_expands |-> t.ineff_expands, noexpand |-> t.noexpand]
    BY <1>1
  <2>2. t.num_buckets = N /\ t.buckets = B /\ t.num_items = 1 /\ t.ideal_chain_maxlen = 0
    BY <1>1
  <2>3. ASSUME NEW b \in 0..N - 1
        PROVE  /\ B[b].chain = {q \in {} : HASH_TO_BKT(h[q].hashv, N) = b}
               /\ IsFiniteSet(B[b].chain)
               /\ B[b].count = Cardinality(B[b].chain)
    BY <1>4, FS_EmptySet
  <2> QED BY <1>2, <1>3, <2>1, <2>2, <2>3 DEF Holds
<1>6. Bounded(t)
  <2>1. t.num_buckets = N /\ t.buckets = B /\ t.ideal_chain_maxlen = 0
    BY <1>1
  <2>2. Bound(t) \in Nat
    BY <2>1, BoundFacts
  <2>3. ASSUME NEW b \in 0..N - 1
        PROVE  B[b].count <= (B[b].expand_mult + 1) * Bound(t)
    BY <1>4, <2>2
  <2> QED BY <2>1, <2>3 DEF Bounded
<1> QED BY <1>1, <1>5, <1>6 DEF t

(* One more pipe goes to the bucket of its hash value, and the bucket      *)
(* grows no longer than allowed: when it is full the table grows first.    *)
LEMMA AddHolds ==
  ASSUME NEW t, NEW h, NEW R, NEW p \in Pipe, p \notin R,
         Holds(t, h, R), Bounded(t), t.num_items # 0,
         \A q \in R \cup {p} : h[q].hashv \in Nat
  PROVE  LET u == HASH_ADD_TO_BKT(t, h, p)
         IN  /\ Holds(u, h, R \cup {p}) /\ Bounded(u)
             /\ u.tail = t.tail /\ u.num_items = t.num_items
<1> DEFINE N    == t.num_buckets
           b    == HASH_TO_BKT(h[p].hashv, N)
           B    == t.buckets[b]
           C    == [chain |-> B.chain \cup {p}, count |-> B.count + 1,
                    expand_mult |-> B.expand_mult]
           W    == [t.buckets EXCEPT ![b] = C]
           with == [t EXCEPT !.buckets = W]
<1>1. N \in Nat \ {0} /\ t.buckets \in [0..N - 1 -> Bucket]
  BY DEF Holds
<1>2. b \in 0..N - 1
  BY <1>1, ModIsSmall DEF HASH_TO_BKT
<1>3. B \in Bucket
  BY <1>1, <1>2
<1>4. with = [t EXCEPT !.buckets[b].count = @ + 1, !.buckets[b].chain = @ \cup {p}]
  <2>1. [t.buckets EXCEPT ![b].count = @ + 1] = [t.buckets EXCEPT ![b] = [B EXCEPT !.count = @ + 1]]
    OBVIOUS
  <2>2. [[B EXCEPT !.count = @ + 1] EXCEPT !.chain = @ \cup {p}] = C
    <3> HIDE DEF B
    <3>1. B = [chain |-> B.chain, count |-> B.count, expand_mult |-> B.expand_mult]
      BY <1>3 DEF Bucket
    <3> DEFINE B1 == [B EXCEPT !.count = @ + 1]
    <3>2. B1 = [chain |-> B.chain, count |-> B.count + 1, expand_mult |-> B.expand_mult]
      BY <3>1
    <3> HIDE DEF B1
    <3>3. [B1 EXCEPT !.chain = @ \cup {p}]
            = [chain |-> B.chain \cup {p}, count |-> B.count + 1, expand_mult |-> B.expand_mult]
      BY <3>2
    <3> QED BY <3>3 DEF B1
  <2> QED BY <1>1, <1>2, <1>3, <2>2 DEF Holds, Bucket
<1>5. with = [tail |-> t.tail, num_buckets |-> N, num_items |-> t.num_items, buckets |-> W,
              ideal_chain_maxlen |-> t.ideal_chain_maxlen,
              ineff_expands |-> t.ineff_expands, noexpand |-> t.noexpand]
  <2>1. t = [tail |-> t.tail, num_buckets |-> t.num_buckets, num_items |-> t.num_items,
          buckets |-> t.buckets, ideal_chain_maxlen |-> t.ideal_chain_maxlen,
          ineff_expands |-> t.ineff_expands, noexpand |-> t.noexpand]
    BY DEF Holds
  <2> HIDE DEF W
  <2> QED BY <2>1
<1>6. C \in Bucket /\ W \in [0..N - 1 -> Bucket] /\ W[b] = C
  BY <1>1, <1>2, <1>3 DEF Bucket
<1>7. \A c \in 0..N - 1 : c # b => W[c] = t.buckets[c]
  BY <1>1
<1>8. HASH_ADD_TO_BKT(t, h, p)
        = IF Full(C) /\ t.noexpand # 1 THEN HASH_EXPAND_BUCKETS(with, h) ELSE with
  <2>1. with.buckets[b] = C
    BY <1>5, <1>6
  <2>2. with.noexpand = t.noexpand
    BY <1>5
  <2> DEFINE v == [t EXCEPT !.buckets[b].count = @ + 1, !.buckets[b].chain = @ \cup {p}]
  <2>3. HASH_ADD_TO_BKT(t, h, p)
          = IF Full(v.buckets[b]) /\ t.noexpand # 1 THEN HASH_EXPAND_BUCKETS(v, h) ELSE v
    BY DEF HASH_ADD_TO_BKT
  <2>4. v = with
    BY <1>4
  <2> HIDE DEF v
  <2> HIDE DEF with, C
  <2> QED BY <2>1, <2>3, <2>4
<1>9. B.chain = {q \in R : HASH_TO_BKT(h[q].hashv, N) = b}
      /\ IsFiniteSet(B.chain) /\ B.count = Cardinality(B.chain)
  BY <1>2 DEF Holds
<1>10. C.chain = B.chain \cup {p} /\ C.count = B.count + 1 /\ C.expand_mult = B.expand_mult
  OBVIOUS
<1>11. ASSUME NEW c \in 0..N - 1
       PROVE  /\ W[c].chain = {q \in R \cup {p} : HASH_TO_BKT(h[q].hashv, N) = c}
              /\ IsFiniteSet(W[c].chain)
              /\ W[c].count = Cardinality(W[c].chain)
  <2>1. CASE c = b
    <3>1. B.chain \cup {p} = {q \in R \cup {p} : HASH_TO_BKT(h[q].hashv, N) = c}
      BY <1>9, <2>1
    <3>2. IsFiniteSet(B.chain \cup {p}) /\ Cardinality(B.chain \cup {p}) = B.count + 1
      <4>1. p \notin B.chain
        BY <1>9
      <4> HIDE DEF B
      <4> QED BY <1>9, <4>1, FS_AddElement
    <3> HIDE DEF B, C, W, b
    <3> QED BY <1>6, <1>10, <2>1, <3>1, <3>2
  <2>2. CASE c # b
    <3>1. W[c] = t.buckets[c]
      BY <1>7, <2>2
    <3>2. {q \in R : HASH_TO_BKT(h[q].hashv, N) = c}
            = {q \in R \cup {p} : HASH_TO_BKT(h[q].hashv, N) = c}
      BY <2>2
    <3> HIDE DEF W
    <3> QED BY <3>1, <3>2 DEF Holds
  <2> QED BY <2>1, <2>2
<1> HIDE DEF B, C, W, b, N
<1>12. with.num_buckets = N /\ with.buckets = W /\ with.ideal_chain_maxlen = t.ideal_chain_maxlen
       /\ with.tail = t.tail /\ with.num_items = t.num_items /\ with.noexpand = t.noexpand
  BY <1>5
<1>13. t.num_items \in Nat /\ t.ideal_chain_maxlen \in Nat
  BY DEF Holds
<1> DEFINE w == with
<1> HIDE DEF with
<1>14. Holds(with, h, R \cup {p})
  <2>1. with = [tail |-> with.tail, num_buckets |-> with.num_buckets, num_items |-> with.num_items,
          buckets |-> with.buckets, ideal_chain_maxlen |-> with.ideal_chain_maxlen,
          ineff_expands |-> with.ineff_expands, noexpand |-> with.noexpand]
    BY <1>5
  <2> QED BY <1>1, <1>6, <1>11, <1>12, <1>13, <2>1 DEF Holds
<1>15. CASE Full(C) /\ t.noexpand # 1
  BY <1>8, <1>12, <1>14, <1>15, ExpandHolds
<1>16. CASE t.noexpand = 1
  <2>1. Bounded(with)
    BY <1>12, <1>16 DEF Bounded
  <2> QED BY <1>8, <1>12, <1>14, <1>16, <2>1
<1>17. CASE ~Full(C) /\ t.noexpand # 1
  <2>1. Bound(with) = Bound(t) /\ Bound(t) \in Nat /\ HASH_BKT_CAPACITY_THRESH <= Bound(t)
    BY <1>12, <1>13, BoundFacts DEF Bound
  <2>2. C.count <= (C.expand_mult + 1) * Bound(t)
    <3> DEFINE m == C.expand_mult + 1
               T == HASH_BKT_CAPACITY_THRESH
    <3>1. m \in Nat /\ C.count \in Nat /\ T \in Nat
      BY <1>6, RegistryAssumption DEF Bucket
    <3>2. ~(C.count >= m * T)
      BY <1>17 DEF Full
    <3> HIDE DEF m, T
    <3>3. m * T <= m * Bound(t)
      BY <2>1, <3>1, TimesMonotone DEF T
    <3>4. m * T \in Nat /\ m * Bound(t) \in Nat
      BY <2>1, <3>1
    <3>5. C.count <= m * Bound(t)
      BY <3>1, <3>2, <3>3, <3>4
    <3> QED BY <3>5 DEF m
  <2>3. ASSUME NEW c \in 0..N - 1
        PROVE  W[c].count <= (W[c].expand_mult + 1) * Bound(t)
    <3>1. CASE c = b
      BY <1>6, <2>2, <3>1
    <3>2. CASE c # b
      BY <1>7, <1>17, <3>2 DEF Bounded, N
    <3> QED BY <3>1, <3>2
  <2>4. Bounded(with)
    BY <1>12, <2>1, <2>3 DEF Bounded
  <2> QED BY <1>8, <1>12, <1>14, <1>17, <2>4
<1> QED BY <1>15, <1>16, <1>17

-----------------------------------------------------------------------------
LEMMA AppendFacts ==
  ASSUME NEW s \in Seq(Pipe), NEW p \in Pipe, IsInjective(s), p \notin ToSet(s)
  PROVE  LET r == Append(s, p)
         IN  /\ r \in Seq(Pipe) /\ r # <<>> /\ IsInjective(r)
             /\ Len(r) = Len(s) + 1 /\ DOMAIN r = 1..Len(s) + 1
             /\ (\A i \in DOMAIN s : r[i] = s[i]) /\ r[Len(s) + 1] = p /\ Last(r) = p
             /\ ToSet(r) = ToSet(s) \cup {p}
<1> DEFINE r == Append(s, p)
           n == Len(s)
<1>1. n \in Nat /\ DOMAIN s = 1..n
  OBVIOUS
<1>2. r \in Seq(Pipe) /\ Len(r) = n + 1 /\ DOMAIN r = 1..n + 1
      /\ (\A i \in DOMAIN s : r[i] = s[i]) /\ r[n + 1] = p
  OBVIOUS
<1> HIDE DEF n, r
<1>3. r # <<>>
  BY <1>1, <1>2
<1>4. Last(r) = p
  BY <1>2 DEF Last
<1>5. ToSet(r) = ToSet(s) \cup {p}
  BY <1>1, <1>2 DEF ToSet
<1>6. IsInjective(r)
  <2>1. \A i \in DOMAIN s : s[i] # p
    BY DEF ToSet
  <2>2. ASSUME NEW i \in 1..n + 1, NEW j \in 1..n + 1, r[i] = r[j]
        PROVE  i = j
    <3>1. CASE i \in 1..n /\ j \in 1..n
      <4>1. s[i] = s[j]
        BY <1>1, <1>2, <2>2, <3>1
      <4> QED BY <1>1, <3>1, <4>1 DEF IsInjective
    <3>2. CASE i = n + 1 /\ j = n + 1
      BY <3>2
    <3>3. CASE i \in 1..n /\ j = n + 1
      BY <1>1, <1>2, <2>1, <2>2, <3>3
    <3>4. CASE i = n + 1 /\ j \in 1..n
      BY <1>1, <1>2, <2>1, <2>2, <3>4
    <3> QED BY <1>1, <3>1, <3>2, <3>3, <3>4
  <2> QED BY <1>2, <2>2 DEF IsInjective
<1> QED BY <1>2, <1>3, <1>4, <1>5, <1>6 DEF r, n

(* What the links say of the registered pipes. *)
LEMMA LinkFacts ==
  ASSUME IInv
  PROVE  /\ DOMAIN registered = 1..Len(registered) /\ Len(registered) \in Nat
         /\ \A i \in DOMAIN registered : registered[i] \in Pipe /\ hh[registered[i]] # NULL
         /\ head = Nth(1)
         /\ \A i \in DOMAIN registered : NextOf(registered[i]) = Nth(i + 1)
         /\ NextOf(NULL) = NULL
<1>1. registered \in Seq(Pipe)
  BY DEF IInv
<1>2. DOMAIN registered = 1..Len(registered) /\ Len(registered) \in Nat
  BY <1>1
<1>3. \A i \in DOMAIN registered : registered[i] \in Pipe
  BY <1>1
<1>4. \A i \in DOMAIN registered : hh[registered[i]] # NULL
  BY RegistryAssumption DEF IInv, Linked
<1>5. head = Nth(1)
  <2>1. registered = <<>> <=> Len(registered) = 0
    BY <1>1
  <2> QED BY <1>2, <2>1 DEF IInv, Linked, Nth
<1>6. ASSUME NEW i \in DOMAIN registered
      PROVE  NextOf(registered[i]) = Nth(i + 1)
  <2>1. registered[i] # NULL
    BY <1>3, RegistryAssumption
  <2>2. hh[registered[i]].next = IF i = Len(registered) THEN NULL ELSE registered[i + 1]
    BY DEF IInv, Linked
  <2>3. NextOf(registered[i]) = IF i = Len(registered) THEN NULL ELSE registered[i + 1]
    BY <2>1, <2>2 DEF NextOf
  <2>4. i + 1 \in DOMAIN registered <=> i # Len(registered)
    BY <1>2
  <2> QED BY <2>3, <2>4 DEF Nth
<1>7. NextOf(NULL) = NULL
  BY DEF NextOf
<1> QED BY <1>2, <1>3, <1>4, <1>5, <1>6, <1>7

LEMMA TypeFacts ==
  ASSUME IInv
  PROVE  /\ registered \in Seq(Pipe) /\ IsInjective(registered)
         /\ key \in [Pipe -> HashValue] /\ hh \in [Pipe -> Handle \cup {NULL}]
         /\ freed \in [Pipe -> Nat] /\ pc \in {"running", "freeing", "done"}
         /\ ToSet(registered) \subseteq Pipe
         /\ \A q \in ToSet(registered) : hh[q] \in Handle /\ hh[q].hashv \in Nat
         /\ \A p \in Pipe : p \notin ToSet(registered) => hh[p] = NULL /\ freed[p] = 0
<1>1. /\ registered \in Seq(Pipe) /\ IsInjective(registered)
      /\ key \in [Pipe -> HashValue] /\ hh \in [Pipe -> Handle \cup {NULL}]
      /\ freed \in [Pipe -> Nat] /\ pc \in {"running", "freeing", "done"}
      /\ \A p \in Pipe : p \notin ToSet(registered) => hh[p] = NULL /\ freed[p] = 0
  BY DEF IInv
<1>2. ToSet(registered) \subseteq Pipe
  BY <1>1 DEF ToSet
<1>3. \A q \in ToSet(registered) : hh[q] \in Handle
  BY DEF IInv, Linked, ToSet
<1>4. \A q \in ToSet(registered) : hh[q].hashv \in Nat
  BY <1>3 DEF Handle
<1> QED BY <1>1, <1>2, <1>3, <1>4

(* Registration appends to the list: the last pipe is linked to the new    *)
(* one, the new one to the last, and it goes into its bucket.              *)
LEMMA RegisterKeepsLinks ==
  ASSUME IInv, NEW p \in Pipe, cpw_pipe_register(p)
  PROVE  /\ Linked' /\ hh' \in [Pipe -> Handle \cup {NULL}]
         /\ p \notin ToSet(registered) /\ registered' = Append(registered, p)
         /\ \A q \in Pipe : q \notin ToSet(registered') => hh'[q] = hh[q]
         /\ \A q \in ToSet(registered) : hh'[q].hashv = hh[q].hashv
         /\ hh'[p].hashv \in Nat
         /\ head = NULL <=> registered = <<>>
<1> DEFINE s == registered
           n == Len(registered)
           r == registered'
<1>1. p \notin ToSet(s) /\ r = Append(s, p)
  <2>1. hh[p] = NULL /\ r = Append(s, p)
    BY DEF cpw_pipe_register
  <2> QED BY <2>1, LinkFacts DEF ToSet
<1>2. /\ r \in Seq(Pipe) /\ r # <<>> /\ Len(r) = n + 1 /\ DOMAIN r = 1..n + 1
      /\ (\A i \in DOMAIN s : r[i] = s[i]) /\ r[n + 1] = p
      /\ ToSet(r) = ToSet(s) \cup {p}
  BY <1>1, AppendFacts, TypeFacts
<1>3. n \in Nat /\ DOMAIN s = 1..n /\ \A i \in 1..n : s[i] \in Pipe
  BY LinkFacts
<1>4. s = <<>> <=> n = 0
  BY TypeFacts
<1>5. head = NULL <=> s = <<>>
  <2>1. head = IF s = <<>> THEN NULL ELSE s[1]
    BY DEF IInv, Linked
  <2>2. s # <<>> => s[1] # NULL
    BY <1>3, <1>4, RegistryAssumption
  <2> QED BY <2>1, <2>2
<1>6. s # <<>> => tbl.tail = s[n]
  BY DEF IInv, TableOK, Last
<1> DEFINE add  == [prev |-> IF head = NULL THEN NULL ELSE tbl.tail, next |-> NULL,
                    hashv |-> key[p]]
<1>7. hh' = [q \in Pipe |-> IF q = p THEN add
                            ELSE IF head # NULL /\ q = tbl.tail
                                 THEN [hh[q] EXCEPT !.next = p] ELSE hh[q]]
  BY DEF cpw_pipe_register
<1>8. head' = IF head = NULL THEN p ELSE head
  BY DEF cpw_pipe_register
<1>9. add.prev = (IF n = 0 THEN NULL ELSE s[n]) /\ add.next = NULL /\ add.hashv \in Nat
      /\ add \in Handle
  <2>1. key[p] \in Nat
    BY RegistryAssumption, TypeFacts
  <2>2. (IF head = NULL THEN NULL ELSE tbl.tail) = (IF n = 0 THEN NULL ELSE s[n])
    BY <1>4, <1>5, <1>6
  <2>3. (IF n = 0 THEN NULL ELSE s[n]) \in Pipe \cup {NULL}
    BY <1>3
  <2> QED BY <2>1, <2>2, <2>3 DEF Handle
<1> HIDE DEF add, s, n, r
<1>10. hh'[p] = add
  BY <1>7
<1>11. ASSUME NEW i \in 1..n
       PROVE  /\ hh'[s[i]] = IF i = n THEN [hh[s[i]] EXCEPT !.next = p] ELSE hh[s[i]]
              /\ hh[s[i]] \in Handle
  <2>1. s[i] # p
    BY <1>1, <1>3 DEF ToSet
  <2>2. i # n => s[i] # s[n]
    BY <1>3, TypeFacts DEF IsInjective, s
  <2>3. s # <<>>
    BY <1>3, <1>4
  <2>4. s[i] \in Pipe
    BY <1>3
  <2>5. hh[s[i]] \in Handle
    BY <1>3 DEF IInv, Linked, s
  <2> QED BY <1>5, <1>6, <1>7, <2>1, <2>2, <2>3, <2>4, <2>5
<1>12. ASSUME NEW i \in 1..n
       PROVE  /\ hh'[s[i]] \in Handle
              /\ hh'[s[i]].hashv = hh[s[i]].hashv
              /\ hh'[s[i]].prev = IF i = 1 THEN NULL ELSE s[i - 1]
              /\ hh'[s[i]].next = IF i = n THEN p ELSE s[i + 1]
  <2>1. /\ hh[s[i]].prev = IF i = 1 THEN NULL ELSE s[i - 1]
        /\ hh[s[i]].next = IF i = n THEN NULL ELSE s[i + 1]
    BY <1>3 DEF IInv, Linked, s, n
  <2> DEFINE g == hh[s[i]]
  <2>2. g = [prev |-> g.prev, next |-> g.next, hashv |-> g.hashv]
        /\ g.prev \in Pipe \cup {NULL} /\ g.hashv \in Nat
    BY <1>11 DEF Handle
  <2> HIDE DEF g
  <2>3. [g EXCEPT !.next = p] = [prev |-> g.prev, next |-> p, hashv |-> g.hashv]
    BY <2>2
  <2>4. [g EXCEPT !.next = p] \in Handle
    BY <2>2, <2>3 DEF Handle
  <2>5. hh'[s[i]] = IF i = n THEN [g EXCEPT !.next = p] ELSE g
    BY <1>11 DEF g
  <2>6. g \in Handle /\ g.prev = (IF i = 1 THEN NULL ELSE s[i - 1])
        /\ g.next = (IF i = n THEN NULL ELSE s[i + 1])
    BY <1>11, <2>1 DEF g
  <2>7. hh'[s[i]].hashv = g.hashv
    BY <2>3, <2>5
  <2>8. hh'[s[i]].prev = g.prev /\ hh'[s[i]].next = IF i = n THEN p ELSE g.next
    BY <2>3, <2>5
  <2>9. hh'[s[i]] \in Handle
    BY <2>4, <2>5, <2>6
  <2> QED BY <2>6, <2>7, <2>8, <2>9 DEF g
<1>13. Linked'
  <2>1. head' = r[1]
    <3>1. CASE s = <<>>
      BY <1>2, <1>4, <1>5, <1>8, <3>1
    <3>2. CASE s # <<>>
      <4>1. head = s[1]
        BY <3>2 DEF IInv, Linked, s
      <4> QED BY <1>2, <1>3, <1>4, <1>5, <1>8, <3>2, <4>1
    <3> QED BY <3>1, <3>2
  <2>2. ASSUME NEW i \in 1..n + 1
        PROVE  /\ hh'[r[i]] \in Handle
               /\ hh'[r[i]].prev = IF i = 1 THEN NULL ELSE r[i - 1]
               /\ hh'[r[i]].next = IF i = n + 1 THEN NULL ELSE r[i + 1]
    <3>1. CASE i = n + 1
      BY <1>2, <1>3, <1>9, <1>10, <3>1
    <3>2. CASE i \in 1..n
      <4>1. r[i] = s[i] /\ i # n + 1
        BY <1>2, <1>3, <3>2
      <4>2. i # 1 => r[i - 1] = s[i - 1]
        BY <1>2, <1>3, <3>2
      <4>3. r[i + 1] = IF i = n THEN p ELSE s[i + 1]
        BY <1>2, <1>3, <3>2
      <4> QED BY <1>12, <3>2, <4>1, <4>2, <4>3
    <3> QED BY <1>3, <3>1, <3>2
  <2> QED BY <1>2, <2>1, <2>2 DEF Linked, r
<1>14. hh' \in [Pipe -> Handle \cup {NULL}]
  <2>1. ASSUME NEW q \in Pipe
        PROVE  hh'[q] \in Handle \cup {NULL}
    <3>1. CASE q = p
      BY <1>9, <1>10, <3>1
    <3>2. CASE q \in ToSet(s)
      BY <1>3, <1>12, <3>2 DEF ToSet
    <3>3. CASE q # p /\ q \notin ToSet(s)
      <4>1. head # NULL => q # tbl.tail
        BY <1>3, <1>4, <1>5, <1>6, <3>3 DEF ToSet
      <4>2. hh'[q] = hh[q]
        BY <1>7, <3>3, <4>1
      <4> QED BY <4>2, TypeFacts
    <3> QED BY <3>1, <3>2, <3>3
  <2> HIDE DEF add
  <2> QED BY <1>7, <2>1
<1>15. ASSUME NEW q \in Pipe, q \notin ToSet(r)
       PROVE  hh'[q] = hh[q]
  <2>1. q # p /\ q \notin ToSet(s)
    BY <1>2, <1>15
  <2>2. head # NULL => q # tbl.tail
    BY <1>3, <1>4, <1>5, <1>6, <2>1 DEF ToSet
  <2> QED BY <1>7, <2>1, <2>2
<1>16. \A q \in ToSet(s) : hh'[q].hashv = hh[q].hashv
  BY <1>3, <1>12 DEF ToSet
<1> QED BY <1>1, <1>5, <1>9, <1>10, <1>13, <1>14, <1>15, <1>16 DEF r, s

LEMMA RegisterKeepsTable ==
  ASSUME IInv, NEW p \in Pipe, cpw_pipe_register(p)
  PROVE  TableOK'
<1> DEFINE R == ToSet(registered)
           add == [prev |-> IF head = NULL THEN NULL ELSE tbl.tail, next |-> NULL,
                   hashv |-> key[p]]
           made == [HASH_MAKE_TABLE(p) EXCEPT !.num_items = @ + 1]
           more == [[tbl EXCEPT !.tail = p] EXCEPT !.num_items = @ + 1]
<1>1. tbl' = HASH_ADD_TO_BKT(IF head = NULL THEN made ELSE more, hh', p)
  BY DEF cpw_pipe_register
<1>2. /\ p \notin R /\ registered' = Append(registered, p)
      /\ \A q \in R : hh'[q].hashv = hh[q].hashv
      /\ hh'[p].hashv \in Nat
      /\ head = NULL <=> registered = <<>>
  BY RegisterKeepsLinks
<1>3. /\ ToSet(registered') = R \cup {p} /\ registered' # <<>>
      /\ Last(registered') = p /\ Len(registered') = Len(registered) + 1
  BY <1>2, AppendFacts, TypeFacts
<1>4. \A q \in R \cup {p} : hh'[q].hashv \in Nat
  BY <1>2, TypeFacts
<1> HIDE DEF R, made, more
<1> SUFFICES /\ Holds(tbl', hh', R \cup {p}) /\ Bounded(tbl')
             /\ tbl'.tail = p /\ tbl'.num_items = Len(registered) + 1
  BY <1>3 DEF TableOK, Holds, Bounded, Bound
<1>5. CASE registered = <<>>
  <2>1. Holds(made, hh', {}) /\ Bounded(made) /\ made.tail = p /\ made.num_items = 1
    BY MadeTableHolds DEF made
  <2>2. R = {} /\ Len(registered) = 0
    BY <1>5 DEF R, ToSet
  <2>3. made.num_items # 0 /\ \A q \in {} \cup {p} : hh'[q].hashv \in Nat
    BY <1>4, <2>1
  <2>4. LET u == HASH_ADD_TO_BKT(made, hh', p)
        IN  /\ Holds(u, hh', {} \cup {p}) /\ Bounded(u)
            /\ u.tail = made.tail /\ u.num_items = made.num_items
    BY <2>1, <2>3, AddHolds
  <2>5. tbl' = HASH_ADD_TO_BKT(made, hh', p)
    BY <1>1, <1>2, <1>5
  <2> QED BY <2>1, <2>2, <2>4, <2>5
<1>6. CASE registered # <<>>
  <2>1. /\ Holds(tbl, hh, R) /\ Bounded(tbl) /\ tbl.num_items = Len(registered)
    BY <1>6 DEF IInv, TableOK, R
  <2>2. tbl.num_items \in Nat
    BY <2>1 DEF Holds
  <2>3. more = [tail |-> p, num_buckets |-> tbl.num_buckets,
                num_items |-> tbl.num_items + 1, buckets |-> tbl.buckets,
                ideal_chain_maxlen |-> tbl.ideal_chain_maxlen,
                ineff_expands |-> tbl.ineff_expands, noexpand |-> tbl.noexpand]
    <3>1. tbl = [tail |-> tbl.tail, num_buckets |-> tbl.num_buckets,
                 num_items |-> tbl.num_items, buckets |-> tbl.buckets,
                 ideal_chain_maxlen |-> tbl.ideal_chain_maxlen,
                 ineff_expands |-> tbl.ineff_expands, noexpand |-> tbl.noexpand]
      BY <2>1 DEF Holds
    <3> DEFINE last == [tbl EXCEPT !.tail = p]
    <3>2. last = [tail |-> p, num_buckets |-> tbl.num_buckets,
                  num_items |-> tbl.num_items, buckets |-> tbl.buckets,
                  ideal_chain_maxlen |-> tbl.ideal_chain_maxlen,
                  ineff_expands |-> tbl.ineff_expands, noexpand |-> tbl.noexpand]
      BY <3>1
    <3> HIDE DEF last
    <3>3. [last EXCEPT !.num_items = @ + 1]
            = [tail |-> p, num_buckets |-> tbl.num_buckets,
               num_items |-> tbl.num_items + 1, buckets |-> tbl.buckets,
               ideal_chain_maxlen |-> tbl.ideal_chain_maxlen,
               ineff_expands |-> tbl.ineff_expands, noexpand |-> tbl.noexpand]
      BY <3>2
    <3> QED BY <3>3 DEF more, last
  <2>4. /\ more.tail = p /\ more.num_items = tbl.num_items + 1
        /\ more.num_buckets = tbl.num_buckets /\ more.buckets = tbl.buckets
        /\ more.ideal_chain_maxlen = tbl.ideal_chain_maxlen
        /\ more.ineff_expands = tbl.ineff_expands /\ more.noexpand = tbl.noexpand
    BY <2>3
  <2>5. Holds(more, hh, R) /\ Bounded(more)
    <3>1. more = [tail |-> more.tail, num_buckets |-> more.num_buckets,
                  num_items |-> more.num_items, buckets |-> more.buckets,
                  ideal_chain_maxlen |-> more.ideal_chain_maxlen,
                  ineff_expands |-> more.ineff_expands, noexpand |-> more.noexpand]
      BY <2>3
    <3>2. Holds(more, hh, R)
      BY <2>1, <2>2, <2>4, <3>1 DEF Holds
    <3>3. Bounded(more)
      BY <2>1, <2>4 DEF Bounded, Bound
    <3> QED BY <3>2, <3>3
  <2>6. Holds(more, hh', R)
    BY <1>2, <2>5, HoldsByHash
  <2>7. more.num_items # 0
    BY <2>2, <2>4
  <2>8. LET u == HASH_ADD_TO_BKT(more, hh', p)
        IN  /\ Holds(u, hh', R \cup {p}) /\ Bounded(u)
            /\ u.tail = more.tail /\ u.num_items = more.num_items
    BY <1>2, <1>4, <2>5, <2>6, <2>7, AddHolds
  <2>9. tbl' = HASH_ADD_TO_BKT(more, hh', p)
    BY <1>1, <1>2, <1>6
  <2> QED BY <2>1, <2>4, <2>8, <2>9
<1> QED BY <1>5, <1>6

LEMMA RegisterKeepsInv ==
  ASSUME IInv, NEW p \in Pipe, cpw_pipe_register(p)
  PROVE  IInv'
<1>1. /\ Linked' /\ hh' \in [Pipe -> Handle \cup {NULL}]
      /\ p \notin ToSet(registered) /\ registered' = Append(registered, p)
      /\ \A q \in Pipe : q \notin ToSet(registered') => hh'[q] = hh[q]
  BY RegisterKeepsLinks
<1>2. /\ registered' \in Seq(Pipe) /\ IsInjective(registered')
      /\ Len(registered') = Len(registered) + 1 /\ DOMAIN registered' = 1..Len(registered) + 1
      /\ (\A i \in DOMAIN registered : registered'[i] = registered[i])
      /\ registered'[Len(registered) + 1] = p
      /\ ToSet(registered') = ToSet(registered) \cup {p}
  BY <1>1, AppendFacts, TypeFacts
<1>3. pc = "running" /\ UNCHANGED <<key, freed, pc, ipipe, tpipe>>
  BY DEF cpw_pipe_register, itervars
<1>4. IsInjective(registered)'
  BY <1>2 DEF IsInjective
<1>5. \A q \in Pipe : q \notin ToSet(registered') => hh'[q] = NULL /\ freed'[q] = 0
  BY <1>1, <1>2, <1>3, TypeFacts
<1>6. IterOK'
  <2>1. \A i \in DOMAIN registered : freed[registered[i]] = 0
    <3>1. PICK k \in 0..Len(registered) :
            /\ \A i \in DOMAIN registered : freed[registered[i]] = IF i <= k THEN 1 ELSE 0
            /\ k = 0 /\ ipipe = NULL
      BY <1>3 DEF IInv, IterOK
    <3> QED BY <3>1, LinkFacts
  <2>2. ipipe = NULL
    BY <1>3 DEF IInv, IterOK
  <2>3. freed[p] = 0
    BY <1>1, TypeFacts
  <2>4. \A i \in 1..Len(registered) + 1 : freed'[registered'[i]] = 0
    BY <1>2, <1>3, <2>1, <2>3, LinkFacts
  <2>5. 0 \in 0..Len(registered') /\ \A i \in 1..Len(registered) + 1 : ~(i <= 0)
    BY <1>2, LinkFacts
  <2>6. /\ \A i \in DOMAIN registered' :
             freed'[registered'[i]] = IF i <= 0 THEN 1 ELSE 0
        /\ ipipe' = NULL /\ pc' = "running"
    BY <1>2, <1>3, <2>2, <2>4, <2>5
  <2> QED BY <2>5, <2>6 DEF IterOK
<1>7. TableOK'
  BY RegisterKeepsTable
<1> QED BY <1>1, <1>2, <1>3, <1>4, <1>5, <1>6, <1>7, TypeFacts DEF IInv

-----------------------------------------------------------------------------
(* Whatever does not touch the list keeps what is said of it. *)
LEMMA ListIsKept ==
  ASSUME IInv, UNCHANGED <<head, tbl, hh, registered>>
  PROVE  Linked' /\ TableOK' /\ Len(registered') = Len(registered)
         /\ \A k : Nth(k)' = Nth(k)
<1>1. Linked'
  BY DEF IInv, Linked
<1>2. TableOK'
  BY DEF IInv, TableOK, Holds, Bounded, Bound
<1>3. \A k : Nth(k)' = Nth(k)
  BY DEF Nth
<1> QED BY <1>1, <1>2, <1>3

LEMMA ReopenKeepsInv ==
  ASSUME IInv, NEW p \in Pipe, Reopen(p)
  PROVE  IInv'
<1>1. UNCHANGED <<head, tbl, hh, registered, freed, pc, ipipe, tpipe>>
  BY DEF Reopen, listvars, itervars
<1>2. key' \in [Pipe -> HashValue]
  BY TypeFacts DEF Reopen
<1>3. IterOK'
  BY <1>1 DEF IInv, IterOK, Nth
<1> QED BY <1>1, <1>2, <1>3, ListIsKept DEF IInv

LEMMA IterKeepsInv ==
  ASSUME IInv, HASH_ITER
  PROVE  IInv'
<1>1. UNCHANGED <<head, tbl, hh, registered, key, freed>> /\ pc = "running" /\ pc' = "freeing"
      /\ ipipe' = head /\ tpipe' = NextOf(head)
  BY DEF HASH_ITER, listvars
<1>2. PICK k \in 0..Len(registered) :
        /\ \A i \in DOMAIN registered : freed[registered[i]] = IF i <= k THEN 1 ELSE 0
        /\ k = 0
  BY <1>1 DEF IInv, IterOK
<1>3. ipipe' = Nth(1) /\ tpipe' = Nth(2)
  <2>1. CASE 1 \in DOMAIN registered
    BY <1>1, <2>1, LinkFacts DEF Nth
  <2>2. CASE 1 \notin DOMAIN registered
    <3>1. 2 \notin DOMAIN registered
      BY <2>2, LinkFacts
    <3> QED BY <1>1, <2>2, <3>1, LinkFacts DEF Nth
  <2> QED BY <2>1, <2>2
<1>4. IterOK'
  <2>1. /\ \A i \in DOMAIN registered' :
             freed'[registered'[i]] = IF i <= 0 THEN 1 ELSE 0
        /\ ipipe' = Nth(0 + 1)' /\ tpipe' = Nth(0 + 2)' /\ 0 \in 0..Len(registered')
        /\ pc' = "freeing"
    BY <1>1, <1>2, <1>3, ListIsKept
  <2> QED BY <2>1 DEF IterOK
<1> QED BY <1>1, <1>4, ListIsKept DEF IInv

LEMMA FreePipeKeepsInv ==
  ASSUME IInv, FreePipe
  PROVE  IInv'
<1>1. UNCHANGED <<head, tbl, hh, registered, key, pc>> /\ pc = "freeing" /\ ipipe # NULL
      /\ freed' = [freed EXCEPT ![ipipe] = @ + 1]
      /\ ipipe' = tpipe /\ tpipe' = NextOf(tpipe)
  BY DEF FreePipe, listvars
<1>2. PICK k \in 0..Len(registered) :
        /\ \A i \in DOMAIN registered : freed[registered[i]] = IF i <= k THEN 1 ELSE 0
        /\ ipipe = Nth(k + 1) /\ tpipe = Nth(k + 2)
  BY <1>1 DEF IInv, IterOK
<1>3. k + 1 \in DOMAIN registered /\ ipipe = registered[k + 1] /\ k \in Nat
  BY <1>1, <1>2 DEF Nth
<1>4. k + 1 \in 0..Len(registered) /\ (k + 1) + 1 = k + 2 /\ (k + 1) + 2 = k + 3
      /\ (k + 2) + 1 = k + 3
  BY <1>3, LinkFacts
<1>5. NextOf(tpipe) = Nth(k + 3)
  <2>1. CASE k + 2 \in DOMAIN registered
    BY <1>2, <1>4, <2>1, LinkFacts DEF Nth
  <2>2. CASE k + 2 \notin DOMAIN registered
    <3>1. k + 3 \notin DOMAIN registered
      BY <1>3, <2>2, LinkFacts
    <3> QED BY <1>2, <2>2, <3>1, LinkFacts DEF Nth
  <2> QED BY <2>1, <2>2
<1>6. ASSUME NEW i \in DOMAIN registered
      PROVE  freed'[registered[i]] = IF i <= k + 1 THEN 1 ELSE 0
  <2>1. i \in Nat /\ registered[i] \in Pipe /\ registered[i] = registered[k + 1] => i = k + 1
    BY <1>3, LinkFacts, TypeFacts DEF IsInjective
  <2>2. freed[registered[i]] = IF i <= k THEN 1 ELSE 0
    BY <1>2
  <2>3. registered[i] \in Pipe /\ i \in Nat
    BY LinkFacts
  <2>4. CASE i = k + 1
    BY <1>1, <1>3, <2>2, <2>3, <2>4, TypeFacts
  <2>5. CASE i # k + 1
    <3>1. freed'[registered[i]] = freed[registered[i]]
      BY <1>1, <1>3, <2>1, <2>3, <2>5, TypeFacts
    <3> QED BY <1>3, <2>2, <2>3, <2>5, <3>1
  <2> QED BY <2>4, <2>5
<1>7. IterOK'
  <2>1. /\ \A i \in DOMAIN registered' :
             freed'[registered'[i]] = IF i <= k + 1 THEN 1 ELSE 0
        /\ ipipe' = Nth((k + 1) + 1)' /\ tpipe' = Nth((k + 1) + 2)'
        /\ k + 1 \in 0..Len(registered') /\ pc' = "freeing"
    BY <1>1, <1>2, <1>4, <1>5, <1>6, ListIsKept
  <2> QED BY <2>1 DEF IterOK
<1>8. freed' \in [Pipe -> Nat]
  BY <1>1, <1>3, LinkFacts, TypeFacts
<1>9. ASSUME NEW p \in Pipe, p \notin ToSet(registered)
      PROVE  hh'[p] = NULL /\ freed'[p] = 0
  <2>1. p # ipipe
    BY <1>3, <1>9 DEF ToSet
  <2> QED BY <1>1, <1>9, <2>1, TypeFacts
<1> QED BY <1>1, <1>7, <1>8, <1>9, ListIsKept DEF IInv

LEMMA FreedKeepsInv ==
  ASSUME IInv, Freed
  PROVE  IInv'
<1>1. UNCHANGED <<head, tbl, hh, registered, key, freed, ipipe, tpipe>>
      /\ pc = "freeing" /\ pc' = "done" /\ ipipe = NULL
  BY DEF Freed, listvars
<1>2. PICK k \in 0..Len(registered) :
        /\ \A i \in DOMAIN registered : freed[registered[i]] = IF i <= k THEN 1 ELSE 0
        /\ ipipe = Nth(k + 1)
  BY <1>1 DEF IInv, IterOK
<1>3. k = Len(registered)
  <2>1. k + 1 \notin DOMAIN registered
    BY <1>1, <1>2, LinkFacts, RegistryAssumption DEF Nth
  <2> QED BY <2>1, LinkFacts
<1>4. IterOK'
  <2>1. /\ \A i \in DOMAIN registered' :
             freed'[registered'[i]] = IF i <= k THEN 1 ELSE 0
        /\ k = Len(registered') /\ ipipe' = NULL /\ pc' = "done" /\ k \in 0..Len(registered')
    BY <1>1, <1>2, <1>3
  <2> QED BY <2>1 DEF IterOK
<1> QED BY <1>1, <1>4, ListIsKept DEF IInv

LEMMA InitHolds ==
  ASSUME Init
  PROVE  IInv
<1>1. registered \in Seq(Pipe) /\ DOMAIN registered = {} /\ Len(registered) = 0
      /\ ToSet(registered) = {} /\ registered = <<>>
  BY DEF Init, ToSet
<1>2. IsInjective(registered)
  BY <1>1 DEF IsInjective
<1>3. Linked /\ TableOK
  BY <1>1 DEF Init, Linked, TableOK
<1>4. IterOK
  BY <1>1 DEF Init, IterOK
<1> QED BY <1>1, <1>2, <1>3, <1>4 DEF Init, IInv

(* The links, the table and the loop that frees, in every reachable state. *)
THEOREM RegistryInvariant == Spec => []IInv
<1>1. Init => IInv
  BY InitHolds
<1>2. IInv /\ [Next]_vars => IInv'
  <2> SUFFICES ASSUME IInv, [Next]_vars PROVE IInv'
    OBVIOUS
  <2>1. ASSUME NEW p \in Pipe, cpw_pipe_register(p) PROVE IInv'
    BY <2>1, RegisterKeepsInv
  <2>2. ASSUME NEW p \in Pipe, Reopen(p) PROVE IInv'
    BY <2>2, ReopenKeepsInv
  <2>3. CASE HASH_ITER
    BY <2>3, IterKeepsInv
  <2>4. CASE FreePipe
    BY <2>4, FreePipeKeepsInv
  <2>5. CASE Freed
    BY <2>5, FreedKeepsInv
  <2>6. CASE UNCHANGED vars
    <3>1. UNCHANGED <<head, tbl, hh, registered, key, freed, pc, ipipe, tpipe>>
      BY <2>6 DEF vars, listvars, itervars
    <3>2. IterOK'
      BY <3>1 DEF IInv, IterOK, Nth
    <3> QED BY <3>1, <3>2, ListIsKept DEF IInv
  <2> QED BY <2>1, <2>2, <2>3, <2>4, <2>5, <2>6 DEF Next
<1> QED BY <1>1, <1>2, PTL DEF Spec

(* Fsck: after any number of expansions, the links in the order of         *)
(* registration, the number of items and of each bucket, and the bucket of *)
(* every pipe are right, as HASH_FSCK would check (uthash.h:305-372).      *)
THEOREM TableIsSound == Spec => []Fsck
<1>1. IInv => Fsck
  <2> SUFFICES ASSUME IInv PROVE Fsck
    OBVIOUS
  <2>1. CASE registered = <<>>
    <3>1. tbl = NULL /\ head = NULL
      BY <2>1 DEF IInv, TableOK, Linked
    <3>2. InItsBucket
      BY <3>1 DEF InItsBucket, Buckets
    <3> QED BY <2>1, <3>1, <3>2 DEF Fsck
  <2>2. CASE registered # <<>>
    <3>1. Holds(tbl, hh, ToSet(registered))
          /\ tbl.tail = Last(registered) /\ tbl.num_items = Len(registered)
      BY <2>2 DEF IInv, TableOK
    <3>2. Buckets \subseteq 0..tbl.num_buckets - 1
      BY <3>1 DEF Buckets, Holds
    <3>3. InItsBucket
      BY <3>1, <3>2 DEF InItsBucket, Chain, Holds
    <3>4. \A b \in Buckets : tbl.buckets[b].count = Cardinality(Chain(b))
      BY <3>1, <3>2 DEF Chain, Holds
    <3>5. /\ head = registered[1]
          /\ \A i \in DOMAIN registered :
               /\ hh[registered[i]].prev = IF i = 1 THEN NULL ELSE registered[i - 1]
               /\ hh[registered[i]].next = IF i = Len(registered) THEN NULL ELSE registered[i + 1]
      BY <2>2 DEF IInv, Linked
    <3> QED BY <2>2, <3>1, <3>3, <3>4, <3>5 DEF Fsck
  <2> QED BY <2>1, <2>2
<1> QED BY <1>1, RegistryInvariant, PTL

(* ChainsAreBounded: no chain is longer than the multiple of the threshold *)
(* or of the ideal length its bucket stands for (uthash.h:661-662), as     *)
(* long as the table has not given up growing.                             *)
THEOREM ChainsKeepTheirBound == Spec => []ChainsAreBounded
<1>1. IInv => ChainsAreBounded
  <2> SUFFICES ASSUME IInv, NEW b \in Buckets, tbl.noexpand # 1
               PROVE  Cardinality(Chain(b)) <= (tbl.buckets[b].expand_mult + 1) * Bound(tbl)
    BY DEF ChainsAreBounded, Bound
  <2>1. tbl # NULL
    BY DEF Buckets
  <2>2. registered # <<>>
    BY <2>1 DEF IInv, TableOK
  <2>3. Holds(tbl, hh, ToSet(registered)) /\ Bounded(tbl)
    BY <2>2 DEF IInv, TableOK
  <2>4. b \in 0..tbl.num_buckets - 1
    BY <2>1, <2>3 DEF Buckets, Holds
  <2>5. tbl.buckets[b].count = Cardinality(Chain(b))
    BY <2>3, <2>4 DEF Holds, Chain
  <2> QED BY <2>3, <2>4, <2>5 DEF Bounded
<1> QED BY <1>1, RegistryInvariant, PTL

(* PipesFreedOnce: the loop at the end frees every registered pipe once,   *)
(* and the pipe it is about to free has not been freed.                    *)
THEOREM EveryPipeIsFreedOnce == Spec => []PipesFreedOnce
<1>1. IInv => PipesFreedOnce
  <2> SUFFICES ASSUME IInv PROVE PipesFreedOnce
    OBVIOUS
  <2>1. PICK k \in 0..Len(registered) :
          /\ \A i \in DOMAIN registered : freed[registered[i]] = IF i <= k THEN 1 ELSE 0
          /\ pc = "running" => k = 0 /\ ipipe = NULL
          /\ pc = "freeing" => ipipe = Nth(k + 1) /\ tpipe = Nth(k + 2)
          /\ pc = "done" => k = Len(registered) /\ ipipe = NULL
    BY DEF IInv, IterOK
  <2>2. ASSUME ipipe # NULL PROVE freed[ipipe] = 0
    <3>1. pc = "freeing"
      BY <2>1, <2>2, TypeFacts
    <3>2. k + 1 \in DOMAIN registered /\ ipipe = registered[k + 1]
      BY <2>1, <2>2, <3>1 DEF Nth
    <3>3. k \in Nat
      OBVIOUS
    <3>4. ~(k + 1 <= k)
      BY <3>3
    <3> QED BY <2>1, <3>2, <3>4
  <2>3. ASSUME pc = "done", NEW p \in Pipe
        PROVE  freed[p] = IF p \in ToSet(registered) THEN 1 ELSE 0
    <3>1. CASE p \in ToSet(registered)
      <4>1. PICK i \in DOMAIN registered : p = registered[i]
        BY <3>1 DEF ToSet
      <4>2. i <= k
        BY <2>1, <2>3, LinkFacts
      <4> QED BY <2>1, <3>1, <4>1, <4>2
    <3>2. CASE p \notin ToSet(registered)
      BY <3>2, TypeFacts
    <3> QED BY <3>1, <3>2
  <2> QED BY <2>2, <2>3 DEF PipesFreedOnce
<1> QED BY <1>1, RegistryInvariant, PTL
=============================================================================
