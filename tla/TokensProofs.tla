---------------------------- MODULE TokensProofs ----------------------------
(***************************************************************************)
(* The tokens are the words of the line, the array of tokens is left only  *)
(* as StaysInArrays says, and the lines are counted: for files of any text *)
(* and arrays of any size.                                                 *)
(***************************************************************************)
EXTENDS Tokens, TLAPS, FiniteSetTheorems, SequenceTheorems, WellFoundedInduction

Text  == Seq(STRING)
Index == 0..CPW_CONFIG_MAX_LINE_TOKEN - 1

-----------------------------------------------------------------------------
(* A set of numbers has a least. *)
LEMMA MinIs ==
  ASSUME NEW S \in SUBSET Nat, S # {}
  PROVE  Min(S) \in S /\ \A x \in S : Min(S) <= x
<1> DEFINE R == OpToRel(<, Nat)
<1>1. IsWellFoundedOn(R, Nat)
  BY NatLessThanWellFounded
<1>2. \A x, y \in Nat : <<x, y>> \in R <=> x < y
  BY DEF OpToRel
<1> HIDE DEF R
<1>3. PICK n \in S : \A y \in S : ~(<<y, n>> \in R)
  BY <1>1, WFMin
<1>4. \A x \in S : n <= x
  <2> TAKE x \in S
  <2>1. x \in Nat /\ n \in Nat /\ ~(<<x, n>> \in R)
    BY <1>3
  <2> QED BY <1>2, <2>1
<1> QED BY <1>4 DEF Min

LEMMA MinOfTwo ==
  ASSUME NEW a \in Nat, NEW b \in Nat
  PROVE  Min({a, b}) = IF a <= b THEN a ELSE b
<1>1. Min({a, b}) \in {a, b} /\ Min({a, b}) <= a /\ Min({a, b}) <= b
  BY MinIs
<1> QED BY <1>1

(* The largest of some numbers is known when it is seen. *)
LEMMA MaxIs ==
  ASSUME NEW S \in SUBSET Nat, NEW m \in S, \A x \in S : x <= m
  PROVE  Max(S) = m
<1>1. Max(S) \in S /\ \A y \in S : Max(S) >= y
  <2>1. \E x \in S : \A y \in S : x >= y
    OBVIOUS
  <2> QED BY <2>1 DEF Max
<1>2. Max(S) \in Nat /\ m \in Nat /\ Max(S) >= m /\ Max(S) <= m
  BY <1>1
<1> QED BY <1>2

LEMMA MaxIn ==
  ASSUME NEW b \in Nat, NEW S \in SUBSET (0..b), S # {}
  PROVE  Max(S) \in S
<1> DEFINE T == {n \in 0..b : b - n \in S}
<1>1. T \in SUBSET Nat /\ T # {}
  <2>1. PICK x \in S : TRUE
    OBVIOUS
  <2>2. b - x \in 0..b /\ b - (b - x) = x
    BY <2>1
  <2> QED BY <2>2
<1>2. PICK n \in T : \A k \in T : n <= k
  <2> HIDE DEF T
  <2> QED BY <1>1, MinIs
<1>3. b - n \in S /\ n \in 0..b
  OBVIOUS
<1>4. \A x \in S : x <= b - n
  <2> TAKE x \in S
  <2>1. x \in 0..b /\ b - x \in 0..b /\ b - (b - x) = x
    OBVIOUS
  <2>2. n <= b - x
    BY <1>2, <2>1
  <2> QED BY <1>3, <2>1, <2>2
<1>5. S \in SUBSET Nat
  OBVIOUS
<1>6. Max(S) = b - n
  BY <1>3, <1>4, <1>5, MaxIs
<1> QED BY <1>3, <1>6

(* The first of some indices of a string. *)
LEMMA FirstIs ==
  ASSUME NEW s \in Text, NEW I \in SUBSET (1..Len(s))
  PROVE  /\ First(s, I) \in 1..Len(s) + 1
         /\ First(s, I) <= Len(s) => First(s, I) \in I
         /\ \A i \in 1..First(s, I) - 1 : i \notin I
<1> DEFINE S == I \cup {Len(s) + 1}
<1> DEFINE n == Len(s)
<1>1. /\ n \in Nat /\ S \in SUBSET Nat /\ S # {} /\ n + 1 \in S
      /\ \A i \in I : i \in S /\ i \in 1..n
  <2>1. n \in Nat
    BY DEF Text
  <2> HIDE DEF n
  <2>2. S = I \cup {n + 1} /\ I \in SUBSET (1..n)
    BY DEF n
  <2> HIDE DEF S
  <2> QED BY <2>1, <2>2
<1>2. \A x \in S : x \in 1..n + 1 /\ (x <= n => x \in I)
  BY <1>1
<1>3. First(s, I) = Min(S)
  BY DEF First
<1> HIDE DEF S, n
<1>4. First(s, I) \in S /\ \A x \in S : First(s, I) <= x
  BY <1>1, <1>3, MinIs
<1>5. \A i \in 1..First(s, I) - 1 : i \notin I
  <2> TAKE i \in 1..First(s, I) - 1
  <2> DEFINE f == First(s, I)
  <2>1. f \in Nat /\ i \in 1..f - 1 /\ \A x \in S : f <= x
    BY <1>1, <1>4
  <2> HIDE DEF f
  <2>2. ~(f <= i)
    BY <2>1
  <2> QED BY <1>1, <2>1, <2>2
<1> QED BY <1>2, <1>4, <1>5 DEF n

-----------------------------------------------------------------------------
(* Pieces of strings, and pieces of pieces. *)
LEMMA PieceIs ==
  ASSUME NEW s \in Text, NEW a \in Nat, NEW b \in a..Len(s)
  PROVE  /\ SubSeq(s, a + 1, b) \in Text
         /\ Len(SubSeq(s, a + 1, b)) = b - a
         /\ \A i \in 1..b - a : SubSeq(s, a + 1, b)[i] = s[a + i]
<1>1. a + 1 \in Int /\ b \in Int /\ \A i \in a + 1..b : s[i] \in STRING
  BY DEF Text
<1>2. /\ SubSeq(s, a + 1, b) \in Seq(STRING)
      /\ Len(SubSeq(s, a + 1, b)) = IF a + 1 <= b THEN b - (a + 1) + 1 ELSE 0
      /\ \A i \in 1..b - (a + 1) + 1 : SubSeq(s, a + 1, b)[i] = s[a + 1 + i - 1]
  BY <1>1, SubSeqProperties
<1>3. \A i \in 1..b - a : i \in 1..b - (a + 1) + 1 /\ a + 1 + i - 1 = a + i
  BY <1>1
<1> QED BY <1>1, <1>2, <1>3 DEF Text

(* Strings with the same characters are the same. *)
LEMMA TextsAreEqual ==
  ASSUME NEW s \in Text, NEW t \in Text, Len(s) = Len(t), \A i \in 1..Len(s) : s[i] = t[i]
  PROVE  s = t
BY DEF Text

(* A piece of a piece is a piece. *)
LEMMA PieceOfPiece ==
  ASSUME NEW s \in Text, NEW a \in Nat, NEW b \in a..Len(s), NEW c \in Nat, NEW d \in c..b - a
  PROVE  SubSeq(SubSeq(s, a + 1, b), c + 1, d) = SubSeq(s, a + c + 1, a + d)
<1> DEFINE t == SubSeq(s, a + 1, b)
           u == SubSeq(t, c + 1, d)
           v == SubSeq(s, a + c + 1, a + d)
<1>1. t \in Text /\ Len(t) = b - a /\ \A i \in 1..b - a : t[i] = s[a + i]
  BY PieceIs
<1>2. Len(s) \in Nat /\ a + c \in Nat /\ a + d \in a + c..Len(s) /\ (a + d) - (a + c) = d - c
  BY DEF Text
<1>3. v \in Text /\ Len(v) = d - c /\ \A i \in 1..d - c : v[i] = s[a + c + i]
  <2> DEFINE x == a + c
             y == a + d
  <2>1. x \in Nat /\ y \in x..Len(s) /\ y - x = d - c
    BY <1>2
  <2> HIDE DEF x, y
  <2>2. /\ SubSeq(s, x + 1, y) \in Text /\ Len(SubSeq(s, x + 1, y)) = y - x
        /\ \A i \in 1..y - x : SubSeq(s, x + 1, y)[i] = s[x + i]
    BY <2>1, PieceIs
  <2> QED BY <2>1, <2>2 DEF x, y
<1> HIDE DEF t
<1>4. u \in Text /\ Len(u) = d - c /\ \A i \in 1..d - c : u[i] = t[c + i]
  BY <1>1, PieceIs
<1> HIDE DEF u, v
<1>5. \A i \in 1..d - c : u[i] = v[i]
  <2> TAKE i \in 1..d - c
  <2>1. c + i \in 1..b - a /\ a + (c + i) = a + c + i
    BY <1>2
  <2> QED BY <1>1, <1>3, <1>4, <2>1
<1>6. u = v
  BY <1>3, <1>4, <1>5, TextsAreEqual
<1> QED BY <1>6 DEF t, u, v

-----------------------------------------------------------------------------
(* What is left of a string after n of its characters. *)
LEMMA RestIs ==
  ASSUME NEW s \in Text, NEW n \in 0..Len(s)
  PROVE  /\ SubSeq(s, n + 1, Len(s)) \in Text
         /\ Len(SubSeq(s, n + 1, Len(s))) = Len(s) - n
         /\ \A i \in 1..Len(s) - n : SubSeq(s, n + 1, Len(s))[i] = s[n + i]
         /\ Len(s) - n \in Nat
<1>1. Len(s) \in Nat /\ n \in Nat /\ Len(s) \in n..Len(s)
  BY DEF Text
<1> QED BY <1>1, PieceIs

(* What is left of what is left. *)
LEMMA RestOfRest ==
  ASSUME NEW s \in Text, NEW n \in 0..Len(s), NEW k \in 0..Len(s) - n
  PROVE  LET t == SubSeq(s, n + 1, Len(s)) IN
         /\ SubSeq(t, k + 1, Len(t)) = SubSeq(s, n + k + 1, Len(s))
         /\ n + k \in 0..Len(s)
<1> DEFINE t == SubSeq(s, n + 1, Len(s))
<1>1. Len(s) \in Nat /\ n \in Nat /\ Len(s) \in n..Len(s) /\ k \in Nat
      /\ Len(s) - n \in k..Len(s) - n /\ n + (Len(s) - n) = Len(s) /\ n + k \in 0..Len(s)
  BY DEF Text
<1>2. Len(t) = Len(s) - n
  BY RestIs
<1>3. SubSeq(t, k + 1, Len(s) - n) = SubSeq(s, n + k + 1, n + (Len(s) - n))
  BY <1>1, PieceOfPiece
<1> QED BY <1>1, <1>2, <1>3

LEMMA TailIs ==
  ASSUME NEW s \in Text, s # <<>>
  PROVE  Tail(s) = SubSeq(s, 1 + 1, Len(s)) /\ 1 \in 0..Len(s)
<1>1. Tail(s) = SubSeq(s, 2, Len(s))
  BY TailIsSubSeq DEF Text
<1>2. Len(s) \in Nat /\ Len(s) # 0
  BY EmptySeq DEF Text
<1> QED BY <1>1, <1>2

(* Cutting a string at the first of some indices. *)
LEMMA FromIs ==
  ASSUME NEW s \in Text, NEW I \in SUBSET (1..Len(s))
  PROVE  \E n \in 0..Len(s) :
           /\ From(s, I) = SubSeq(s, n + 1, Len(s)) /\ Before(s, I) = SubSeq(s, 1, n)
           /\ \A i \in 1..n : i \notin I
           /\ n < Len(s) => n + 1 \in I
<1> DEFINE n == First(s, I) - 1
<1>1. /\ First(s, I) \in 1..Len(s) + 1
      /\ First(s, I) <= Len(s) => First(s, I) \in I
      /\ \A i \in 1..First(s, I) - 1 : i \notin I
  BY FirstIs
<1>2. Len(s) \in Nat
  BY DEF Text
<1>3. n \in 0..Len(s) /\ n + 1 = First(s, I) /\ (n < Len(s) => n + 1 \in I)
  BY <1>1, <1>2
<1>4. From(s, I) = SubSeq(s, n + 1, Len(s)) /\ Before(s, I) = SubSeq(s, 1, n)
  BY <1>3 DEF From, Before
<1> QED BY <1>1, <1>3, <1>4

(* SkipSpace passes over space, and over all of it. *)
LEMMA SkipSpaceIs ==
  ASSUME NEW s \in Text
  PROVE  \E n \in 0..Len(s) :
           /\ SkipSpace(s) = SubSeq(s, n + 1, Len(s))
           /\ \A i \in 1..n : cpw_is_space(s[i])
           /\ n < Len(s) => ~cpw_is_space(s[n + 1])
<1> DEFINE I == {i \in DOMAIN s : ~cpw_is_space(s[i])}
<1>1. DOMAIN s = 1..Len(s) /\ Len(s) \in Nat
  BY DEF Text
<1>2. I \in SUBSET (1..Len(s)) /\ SkipSpace(s) = From(s, I)
  BY <1>1 DEF SkipSpace
<1>3. \A i \in 1..Len(s) : i \notin I <=> cpw_is_space(s[i])
  BY <1>1
<1> HIDE DEF I
<1>4. PICK n \in 0..Len(s) : /\ From(s, I) = SubSeq(s, n + 1, Len(s))
                             /\ \A i \in 1..n : i \notin I
                             /\ n < Len(s) => n + 1 \in I
  BY <1>2, FromIs
<1>5. (\A i \in 1..n : i \in 1..Len(s)) /\ (n < Len(s) => n + 1 \in 1..Len(s))
  BY <1>1
<1> QED BY <1>2, <1>3, <1>4, <1>5

(* What is cut has room for its NUL, and what is shorter is not cut. *)
LEMMA TruncatedIs ==
  ASSUME NEW s \in Text
  PROVE  /\ Truncated(s) \in Text
         /\ Len(Truncated(s)) < CPW_CONFIG_MAX_TAG_LENGTH
         /\ Len(Truncated(s)) < CPW_CONFIG_MAX_TAG_LENGTH - 1 => Truncated(s) = s
<1> DEFINE room == CPW_CONFIG_MAX_TAG_LENGTH - 1
           n    == Min({Len(s), room})
<1>1. Len(s) \in Nat /\ room \in Nat /\ room < CPW_CONFIG_MAX_TAG_LENGTH
  BY TokensAssumption DEF Text
<1>2. n = IF Len(s) <= room THEN Len(s) ELSE room
  BY <1>1, MinOfTwo
<1>3. n \in 0..Len(s) /\ n <= room /\ (n < room => n = Len(s)) /\ n - 0 = n
  BY <1>1, <1>2
<1>4. Truncated(s) = SubSeq(s, 0 + 1, n)
  BY DEF Truncated
<1>5. SubSeq(s, 0 + 1, n) \in Text /\ Len(SubSeq(s, 0 + 1, n)) = n - 0
  BY <1>3, PieceIs
<1>6. SubSeq(s, 1, Len(s)) = s
  BY SubSeqFull DEF Text
<1> HIDE DEF n
<1>7. Truncated(s) \in Text /\ Len(Truncated(s)) = n
  BY <1>3, <1>4, <1>5
<1>8. n < room => Truncated(s) = s
  BY <1>3, <1>4, <1>6
<1> QED BY <1>1, <1>3, <1>7, <1>8, TokensAssumption

(* The argument taken from a string is the word it begins with. *)
LEMMA GetArgIs ==
  ASSUME NEW s \in Text, 1 <= Len(s), ~cpw_is_space(s[1])
  PROVE  \E r \in 0..Len(s) :
           /\ IsWord(s, cpw_get_arg(s).arg, 0, r)
           /\ cpw_get_arg(s).rest = SubSeq(s, r + 1, Len(s))
<1> DEFINE t      == SkipSpace(s)
           quoted == At(t, 1) \in Quotes
           body   == IF quoted THEN Tail(t) ELSE t
           stops  == {i \in DOMAIN body : IF quoted THEN body[i] = t[1] ELSE cpw_is_space(body[i])}
           rest   == From(body, stops)
           end    == IF quoted /\ rest # <<>> THEN Tail(rest) ELSE rest
<1>1. cpw_get_arg(s).arg = Truncated(Before(body, stops)) /\ cpw_get_arg(s).rest = end
  BY DEF cpw_get_arg
<1>2. Len(s) \in Nat /\ 1 \in 1..Len(s) /\ s # <<>>
  <2>1. Len(s) \in Nat
    BY DEF Text
  <2> QED BY <2>1
<1>3. t = s
  <2>1. PICK m \in 0..Len(s) : /\ t = SubSeq(s, m + 1, Len(s))
                               /\ \A i \in 1..m : cpw_is_space(s[i])
    BY SkipSpaceIs
  <2>2. m = 0
    <3>1. 1 \notin 1..m
      BY <2>1
    <3> QED BY <1>2, <3>1
  <2>3. SubSeq(s, 1, Len(s)) = s
    BY SubSeqFull DEF Text
  <2> HIDE DEF t
  <2> QED BY <2>1, <2>2, <2>3
<1> HIDE DEF t
<1>4. quoted <=> s[1] \in Quotes
  <2>1. At(t, 1) = s[1]
    BY <1>2, <1>3 DEF At
  <2> QED BY <2>1
<1>5. PICK q \in {0, 1} : /\ q = 1 <=> quoted
                          /\ q \in 0..Len(s)
                          /\ body = SubSeq(s, q + 1, Len(s))
  <2>1. CASE quoted
    <3>1. body = SubSeq(s, 1 + 1, Len(s)) /\ 1 \in 0..Len(s)
      BY <1>2, <1>3, <2>1, TailIs
    <3> QED BY <2>1, <3>1
  <2>2. CASE ~quoted
    <3>1. body = s
      BY <1>3, <2>2
    <3>2. SubSeq(s, 1, Len(s)) = s
      BY SubSeqFull DEF Text
    <3>3. 0 \in 0..Len(s) /\ 0 + 1 = 1 /\ 0 # 1
      BY <1>2
    <3> HIDE DEF body, quoted
    <3> QED BY <2>2, <3>1, <3>2, <3>3
  <2> QED BY <2>1, <2>2
<1>6. /\ body \in Text /\ Len(body) = Len(s) - q /\ Len(s) - q \in Nat
      /\ \A i \in 1..Len(s) - q : body[i] = s[q + i]
  BY <1>5, RestIs
<1> HIDE DEF quoted, body
<1>7. /\ stops \in SUBSET (1..Len(body))
      /\ \A i \in 1..Len(body) : i \in stops <=> IF quoted THEN body[i] = s[1] ELSE cpw_is_space(body[i])
  <2>1. DOMAIN body = 1..Len(body)
    BY <1>6 DEF Text
  <2> QED BY <1>3, <2>1
<1> HIDE DEF stops
<1>8. PICK n \in 0..Len(body) : /\ rest = SubSeq(body, n + 1, Len(body))
                                /\ Before(body, stops) = SubSeq(body, 1, n)
                                /\ \A i \in 1..n : i \notin stops
                                /\ n < Len(body) => n + 1 \in stops
  BY <1>6, <1>7, FromIs
<1> DEFINE to == q + n
<1>9. /\ rest = SubSeq(s, to + 1, Len(s)) /\ to \in 0..Len(s) /\ q \in 0..to
      /\ rest \in Text /\ Len(rest) = Len(s) - to
  <2>1. q \in 0..Len(s) /\ n \in 0..Len(s) - q
    BY <1>5, <1>6, <1>8
  <2>2. SubSeq(body, n + 1, Len(body)) = SubSeq(s, to + 1, Len(s)) /\ to \in 0..Len(s)
    BY <1>5, <2>1, RestOfRest
  <2>3. q \in 0..to
    BY <1>5, <2>1
  <2>4. SubSeq(s, to + 1, Len(s)) \in Text /\ Len(SubSeq(s, to + 1, Len(s))) = Len(s) - to
    BY <2>2, RestIs
  <2> QED BY <1>8, <2>2, <2>3, <2>4
<1>10. Before(body, stops) = SubSeq(s, q + 1, to)
  <2>1. q \in Nat /\ Len(s) \in q..Len(s) /\ 0 \in Nat /\ n \in 0..Len(s) - q
        /\ q + 0 + 1 = q + 1 /\ 0 + 1 = 1
    BY <1>2, <1>5, <1>6, <1>8
  <2>2. SubSeq(SubSeq(s, q + 1, Len(s)), 0 + 1, n) = SubSeq(s, q + 0 + 1, q + n)
    BY <2>1, PieceOfPiece
  <2> QED BY <1>5, <1>8, <2>1, <2>2
<1> HIDE DEF rest
<1>11. ASSUME NEW i \in q + 1..to
       PROVE  IF quoted THEN s[i] # s[1] ELSE ~cpw_is_space(s[i])
  <2>1. i - q \in 1..n /\ i - q \in 1..Len(body) /\ i - q \in 1..Len(s) - q /\ q + (i - q) = i
    BY <1>2, <1>5, <1>6, <1>8
  <2>2. i - q \notin stops
    BY <1>8, <2>1
  <2>3. body[i - q] = s[i]
    BY <1>6, <2>1
  <2> QED BY <1>7, <2>1, <2>2, <2>3
<1>12. ASSUME to < Len(s)
       PROVE  IF quoted THEN s[to + 1] = s[1] ELSE cpw_is_space(s[to + 1])
  <2>1. n < Len(body) /\ n + 1 \in 1..Len(body) /\ n + 1 \in 1..Len(s) - q /\ q + (n + 1) = to + 1
    BY <1>2, <1>5, <1>6, <1>8, <1>12
  <2>2. n + 1 \in stops
    BY <1>8, <2>1
  <2>3. body[n + 1] = s[to + 1]
    BY <1>6, <2>1
  <2> QED BY <1>7, <2>1, <2>2, <2>3
<1>13. cpw_get_arg(s).arg = Truncated(SubSeq(s, q + 1, to))
  BY <1>1, <1>10
<1> HIDE DEF to
<1>14. CASE quoted
  <2> DEFINE r == Min({to + 1, Len(s)})
  <2>1. q = 1 /\ 0 < q /\ q <= to
    BY <1>5, <1>9, <1>14
  <2>2. r = IF to + 1 <= Len(s) THEN to + 1 ELSE Len(s)
    <3>1. to + 1 \in Nat
      BY <1>9
    <3> QED BY <1>2, <3>1, MinOfTwo
  <2> HIDE DEF r
  <2>3. r \in 0..Len(s) /\ q \in 0..r /\ to \in 0..r
    BY <1>2, <1>9, <2>1, <2>2
  <2>4. QuotedWord(s, 0, q, to)
    <3>1. 0 + 1..q - 1 = {}
      BY <2>1
    <3>2. s[q] \in Quotes
      BY <1>4, <1>14, <2>1
    <3>3. \A i \in q + 1..to : s[i] # s[q]
      BY <1>11, <1>14, <2>1
    <3>4. to < Len(s) => s[to + 1] = s[q]
      BY <1>12, <1>14, <2>1
    <3> QED BY <2>1, <3>1, <3>2, <3>3, <3>4 DEF QuotedWord
  <2>5. IsWord(s, cpw_get_arg(s).arg, 0, r)
    BY <1>13, <2>3, <2>4 DEF IsWord, r
  <2>6. end = SubSeq(s, r + 1, Len(s))
    <3>1. CASE to < Len(s)
      <4>1. rest # <<>> /\ 1 \in 0..Len(s) - to
        <5>1. Len(rest) # 0 /\ 1 \in 0..Len(s) - to
          BY <1>2, <1>9, <3>1
        <5>2. rest # <<>>
          BY <5>1
        <5> QED BY <5>1, <5>2
      <4>2. Tail(rest) = SubSeq(rest, 1 + 1, Len(rest))
        BY <1>9, <4>1, TailIs
      <4>3. SubSeq(rest, 1 + 1, Len(rest)) = SubSeq(s, to + 1 + 1, Len(s))
        BY <1>9, <4>1, RestOfRest
      <4>4. r = to + 1
        BY <1>2, <1>9, <2>2, <3>1
      <4> QED BY <1>14, <4>1, <4>2, <4>3, <4>4
    <3>2. CASE ~(to < Len(s))
      <4>1. to = Len(s) /\ r = to
        BY <1>2, <1>9, <2>2, <3>2
      <4>2. rest = <<>>
        <5>1. Len(rest) = 0
          BY <1>2, <1>9, <4>1
        <5> QED BY <1>9, <5>1, EmptySeq DEF Text
      <4> QED BY <1>9, <4>1, <4>2
    <3> QED BY <3>1, <3>2
  <2> HIDE DEF end
  <2> QED BY <1>1, <2>3, <2>5, <2>6
<1>15. CASE ~quoted
  <2>1. q = 0 /\ q <= to
    BY <1>5, <1>9, <1>15
  <2>2. q < to
    <3>1. to # 0
      <4>1. to = 0 => 0 < Len(s) /\ cpw_is_space(s[1])
        BY <1>2, <1>12, <1>15
      <4> QED BY <4>1
    <3> QED BY <1>9, <2>1, <3>1
  <2>3. BareWord(s, 0, q, to)
    <3>1. 0 + 1..q = {}
      BY <2>1
    <3>2. s[q + 1] \notin Quotes
      BY <1>4, <1>15, <2>1
    <3>3. \A i \in q + 1..to : ~cpw_is_space(s[i])
      BY <1>11, <1>15
    <3>4. to < Len(s) => cpw_is_space(s[to + 1])
      BY <1>12, <1>15
    <3> QED BY <2>2, <3>1, <3>2, <3>3, <3>4 DEF BareWord
  <2>4. to \in 0..to /\ q \in 0..to
    BY <1>9
  <2>5. IsWord(s, cpw_get_arg(s).arg, 0, to)
    BY <1>13, <2>3, <2>4 DEF IsWord
  <2>6. end = SubSeq(s, to + 1, Len(s))
    BY <1>9, <1>15
  <2> HIDE DEF end
  <2> QED BY <1>1, <1>9, <2>5, <2>6
<1> QED BY <1>14, <1>15

-----------------------------------------------------------------------------
(* What is read of the file, and where its lines end.                      *)
NewlineAt(i) == file.text[i] = "\n"
Room == CPW_CONFIG_MAX_LINE_LENGTH - 1

ReadTo ==
  /\ file \in Files
  /\ pos \in 0..Len(file.text)
  /\ pos = 0 \/ EndsLine(pos)
  /\ line_num = Cardinality({i \in 1..pos : EndsLine(i)})

LEMMA TextIs ==
  ASSUME file \in Files
  PROVE  file.text \in Text /\ Len(file.text) \in Nat
<1>1. file.text \in Seq(STRING \ {NUL})
  BY FilesAssumption
<1> QED BY <1>1 DEF Text

(* The line read is a piece of the file that goes to the first place where *)
(* a line may end.                                                         *)
LEMMA FgetsIs ==
  ASSUME file \in Files, pos \in 0..Len(file.text)
  PROVE  \E h \in 0..Len(file.text) - pos :
           /\ fgets \in Text /\ Len(fgets) = h /\ h <= Room
           /\ \A i \in 1..h - 1 : ~NewlineAt(pos + i)
           /\ h > 0 => NewlineAt(pos + h) \/ pos + h = Len(file.text) \/ h = Room
           /\ fgets # <<>> => h > 0
<1> DEFINE text == file.text
           rest == SubSeq(text, pos + 1, Len(text))
           I    == {i \in DOMAIN rest : rest[i] = "\n"}
           end  == First(rest, I)
           S    == {end, Len(rest), Room}
           h    == Min(S)
<1>1. text \in Text /\ Len(text) \in Nat /\ pos \in Nat
  BY TextIs
<1>2. rest \in Text /\ Len(rest) = Len(text) - pos /\ Len(text) - pos \in Nat
      /\ \A i \in 1..Len(text) - pos : rest[i] = text[pos + i]
  BY <1>1, RestIs
<1>3. fgets = SubSeq(rest, 1, h)
  BY DEF fgets, Room
<1> HIDE DEF rest, text
<1>4. I \in SUBSET (1..Len(rest)) /\ \A i \in 1..Len(rest) : i \in I <=> rest[i] = "\n"
  <2>1. DOMAIN rest = 1..Len(rest)
    BY <1>2 DEF Text
  <2> QED BY <2>1
<1> HIDE DEF I
<1>5. /\ end \in 1..Len(rest) + 1 /\ (end <= Len(rest) => end \in I)
      /\ \A i \in 1..end - 1 : i \notin I
  BY <1>2, <1>4, FirstIs
<1> HIDE DEF end
<1>6. Room \in Nat \ {0}
  BY TokensAssumption DEF Room
<1>7. h \in S /\ h <= end /\ h <= Len(rest) /\ h <= Room
  <2>1. S \in SUBSET Nat /\ S # {}
    BY <1>2, <1>5, <1>6
  <2> QED BY <2>1, MinIs
<1>8. h \in {end, Len(rest), Room}
  BY <1>7
<1> HIDE DEF h
<1>9. h \in 0..Len(text) - pos /\ h \in 0..Len(rest) /\ h - 0 = h /\ 0 + 1 = 1
  BY <1>2, <1>5, <1>6, <1>7, <1>8
<1>10. fgets \in Text /\ Len(fgets) = h
  BY <1>2, <1>3, <1>9, PieceIs
<1>11. \A i \in 1..h - 1 : ~NewlineAt(pos + i)
  <2> TAKE i \in 1..h - 1
  <2>1. i \in 1..end - 1 /\ i \in 1..Len(rest) /\ i \in 1..Len(text) - pos
    BY <1>2, <1>5, <1>7, <1>9
  <2> QED BY <1>2, <1>4, <1>5, <2>1 DEF NewlineAt, text
<1>12. ASSUME h > 0
       PROVE  NewlineAt(pos + h) \/ pos + h = Len(text) \/ h = Room
  <2>1. CASE h = end
    <3>1. h \in 1..Len(rest) /\ h \in I /\ h \in 1..Len(text) - pos
      BY <1>2, <1>5, <1>9, <1>12, <2>1
    <3> QED BY <1>2, <1>4, <3>1 DEF NewlineAt, text
  <2>2. CASE h = Len(rest)
    BY <1>1, <1>2, <2>2
  <2> QED BY <1>8, <2>1, <2>2
<1>13. fgets # <<>> => h > 0
  <2>1. fgets # <<>> => Len(fgets) # 0
    BY <1>10, EmptySeq DEF Text
  <2> QED BY <1>9, <1>10, <2>1
<1> QED BY <1>7, <1>9, <1>10, <1>11, <1>12, <1>13 DEF text

LEMMA ModIsSmall ==
  ASSUME NEW h \in Nat, NEW n \in Nat \ {0}
  PROVE  h % n \in 0..n - 1 /\ h \div n \in Nat /\ h = n * (h \div n) + (h % n)
<1>1. h % n \in 0..n - 1
  OBVIOUS
<1>2. h \div n \in Nat
  OBVIOUS
<1>3. h = n * (h \div n) + (h % n)
  OBVIOUS
<1> QED BY <1>1, <1>2, <1>3

LEMMA ModUnique ==
  ASSUME NEW n \in Nat \ {0}, NEW q \in Nat, NEW r \in 0..n - 1
  PROVE  (n * q + r) % n = r
OBVIOUS

(* The next multiple of n is n away.                                       *)
LEMMA NextMultiple ==
  ASSUME NEW n \in Nat \ {0}, NEW a \in Nat, a % n = 0, NEW k \in 1..n
  PROVE  (a + k) % n = 0 <=> k = n
<1> DEFINE q == a \div n
<1>1. q \in Nat /\ a = n * q + (a % n)
  BY ModIsSmall
<1>2. a = n * q
  <2>1. n * q \in Nat
    BY <1>1
  <2> QED BY <1>1, <2>1
<1> HIDE DEF q
<1>3. CASE k = n
  <2>1. a + k = n * (q + 1) + 0
    BY <1>1, <1>2, <1>3
  <2>2. (n * (q + 1) + 0) % n = 0
    BY <1>1, ModUnique
  <2> QED BY <1>3, <2>1, <2>2
<1>4. CASE k # n
  <2>1. k \in 0..n - 1 /\ k # 0
    BY <1>4
  <2>2. (n * q + k) % n = k
    BY <1>1, <2>1, ModUnique
  <2> QED BY <1>2, <1>4, <2>1, <2>2
<1> QED BY <1>3, <1>4

(* The newlines before i, and the start of the file.                       *)
Newlines(i) == {j \in 1..i - 1 : file.text[j] = "\n"} \cup {0}

LEMMA NewlinesIs ==
  \A i, j : j \in Newlines(i) <=> j = 0 \/ (j \in 1..i - 1 /\ NewlineAt(j))
BY DEF Newlines, NewlineAt

(* The line that is read ends at the next place where a line may end.      *)
LEMMA NextEnd ==
  ASSUME ReadTo, NEW h \in 1..Len(file.text) - pos, h <= Room,
         \A i \in 1..h - 1 : ~NewlineAt(pos + i),
         NewlineAt(pos + h) \/ pos + h = Len(file.text) \/ h = Room
  PROVE  \A k \in 1..h : EndsLine(pos + k) <=> k = h
<1> DEFINE start == Max(Newlines(pos + 1))
           n     == Len(file.text)
<1>1. n \in Nat /\ pos \in 0..n /\ h \in 1..n - pos /\ pos < n /\ Room \in Nat \ {0}
  BY TextIs, TokensAssumption DEF ReadTo, Room
<1>2. \A i : LineStart(i) = Max(Newlines(i))
  BY DEF LineStart, Newlines
<1>3. \A k \in 1..h : Newlines(pos + k) = Newlines(pos + 1)
  <2> TAKE k \in 1..h
  <2>1. \A j \in 1..pos + k - 1 : j \in 1..pos + 1 - 1 \/ ~NewlineAt(j)
    <3> TAKE j \in 1..pos + k - 1
    <3>1. CASE j <= pos
      BY <1>1, <3>1
    <3>2. CASE j > pos
      <4>1. j - pos \in 1..h - 1 /\ pos + (j - pos) = j
        BY <1>1, <3>2
      <4> QED BY <4>1
    <3> QED BY <1>1, <3>1, <3>2
  <2>2. \A j \in 1..pos + 1 - 1 : j \in 1..pos + k - 1
    BY <1>1
  <2>3. \A j : j \in Newlines(pos + k) <=> j \in Newlines(pos + 1)
    <3> DEFINE a == pos + k
               b == pos + 1
    <3>1. \A j \in 1..a - 1 : j \in 1..b - 1 \/ ~NewlineAt(j)
      BY <1>1, <2>1
    <3>2. \A j \in 1..b - 1 : j \in 1..a - 1
      BY <1>1, <2>2
    <3> HIDE DEF a, b
    <3>3. \A j : j \in Newlines(a) <=> j \in Newlines(b)
      BY <3>1, <3>2, NewlinesIs
    <3> QED BY <3>3 DEF a, b
  <2> QED BY <2>3
<1>4. Newlines(pos + 1) \in SUBSET (0..pos) /\ Newlines(pos + 1) # {}
  BY <1>1 DEF Newlines
<1>5. start \in 0..pos
  <2>1. pos \in Nat
    BY <1>1
  <2> QED BY <1>4, <2>1, MaxIn
<1>6. pos - start \in Nat /\ (pos - start) % Room = 0
  <2>1. CASE pos = 0
    BY <1>1, <1>5, <2>1
  <2>2. CASE pos # 0 /\ NewlineAt(pos)
    <3>1. pos \in Newlines(pos + 1) /\ \A x \in Newlines(pos + 1) : x <= pos
      BY <1>1, <2>2 DEF NewlineAt, Newlines
    <3>2. Newlines(pos + 1) \in SUBSET Nat
      BY <1>1 DEF Newlines
    <3>3. start = pos
      BY <3>1, <3>2, MaxIs
    <3> QED BY <1>1, <3>3
  <2>3. CASE pos # 0 /\ ~NewlineAt(pos)
    <3>1. Newlines(pos) = Newlines(pos + 1)
      <4>1. \A j \in 1..pos + 1 - 1 : j \in 1..pos - 1 \/ j = pos
        BY <1>1
      <4>2. \A j \in 1..pos - 1 : j \in 1..pos + 1 - 1
        BY <1>1
      <4>3. \A j : j \in Newlines(pos) <=> j \in Newlines(pos + 1)
        <5> DEFINE b == pos + 1
        <5>1. \A j \in 1..b - 1 : j \in 1..pos - 1 \/ ~NewlineAt(j)
          BY <1>1, <2>3, <4>1
        <5>2. \A j \in 1..pos - 1 : j \in 1..b - 1
          BY <1>1, <4>2
        <5> HIDE DEF b
        <5>3. \A j : j \in Newlines(pos) <=> j \in Newlines(b)
          BY <5>1, <5>2, NewlinesIs
        <5> QED BY <5>3 DEF b
      <4> QED BY <4>3
    <3>2. EndsLine(pos) /\ pos # n
      BY <1>1, <2>3 DEF ReadTo
    <3>3. (pos - LineStart(pos)) % Room = 0
      BY <2>3, <3>2 DEF EndsLine, NewlineAt, Room
    <3>4. LineStart(pos) = start
      BY <1>2, <3>1
    <3> HIDE DEF start
    <3> QED BY <1>1, <1>5, <3>3, <3>4
  <2> QED BY <2>1, <2>2, <2>3
<1>7. \A k \in 1..h : LineStart(pos + k) = start
  BY <1>2, <1>3
<1> HIDE DEF start
<1> TAKE k \in 1..h
<1>8. ((pos + k) - LineStart(pos + k)) % Room = 0 <=> k = Room
  <2>1. k \in 1..Room /\ (pos + k) - start = (pos - start) + k
    BY <1>1, <1>5
  <2>2. ((pos - start) + k) % Room = 0 <=> k = Room
    BY <1>1, <1>6, <2>1, NextMultiple
  <2> QED BY <1>7, <2>1, <2>2
<1>9. EndsLine(pos + k) <=> NewlineAt(pos + k) \/ pos + k = n \/ k = Room
  BY <1>8 DEF EndsLine, NewlineAt, Room
<1>10. CASE k = h
  BY <1>9, <1>10
<1>11. CASE k # h
  <2>1. k \in 1..h - 1 /\ pos + k # n /\ k # Room
    BY <1>1, <1>11
  <2> QED BY <1>9, <1>11, <2>1
<1> QED BY <1>10, <1>11

-----------------------------------------------------------------------------
(* The inductive invariant.                                                *)
States  == {"fgets", "split", "tag", "token", "end", "overrun"}
Cutting == {"split", "tag", "token", "overrun"}

LineTokens == [token : [Index -> Text], num : 0..CPW_CONFIG_MAX_LINE_TOKEN, is_tag : BOOLEAN,
               tag_name_index : Index, is_opening_tag : BOOLEAN, is_closing_tag : BOOLEAN]

TypeOK ==
  /\ line \in Text /\ p \in Text
  /\ linetoken \in LineTokens
  /\ pc \in States
  /\ ends \in Seq(Nat)

(* Every token has room for its NUL.                                       *)
TokensFit == \A i \in Index : Len(linetoken.token[i]) < CPW_CONFIG_MAX_TAG_LENGTH

(* How far the line is cut up. *)
CutTo ==
  /\ Cut \in 0..Len(line) /\ p = SubSeq(line, Cut + 1, Len(line))
  /\ Len(ends) = linetoken.num + 1 /\ ends[linetoken.num + 1] = Cut
  /\ \A k \in 1..linetoken.num + 1 : ends[k] \in 0..Len(line)

(* What it has been cut into. *)
Words ==
  /\ \A i \in 1..ends[1] : cpw_is_space(line[i])
  /\ \A k \in 1..linetoken.num : IsWord(line, linetoken.token[k - 1], ends[k], ends[k + 1])
  /\ \A i \in Index : i >= linetoken.num => linetoken.token[i] = <<>>

(* Nothing but a comment is left, if there was room for it.                *)
RestIsComment ==
  pc # "split" => linetoken.num = CPW_CONFIG_MAX_LINE_TOKEN \/ AtEnd(SkipSpace(p))

(* The end of the tag is not in the tokens.                                *)
NoTagEnd(token) == \A i \in Index : token[i] # <<>> /\ ">" \notin ToSet(token[i])

CutInv ==
  pc \in Cutting =>
    CutTo /\ Words /\ RestIsComment /\ (pc = "overrun" => NoTagEnd(linetoken.token))

TokensInv == TypeOK /\ TokensFit /\ ReadTo /\ CutInv

-----------------------------------------------------------------------------
LEMMA InitInv == Init => TokensInv
<1> SUFFICES ASSUME Init
             PROVE  TokensInv
  OBVIOUS
<1>1. <<>> \in Text /\ Len(<<>>) = 0
  BY DEF Text
<1>2. linetoken.token = NoTokens /\ NoTokens \in [Index -> Text]
  BY <1>1 DEF Init, NoTokens, Index
<1>3. 0 \in Index /\ 0 \in 0..CPW_CONFIG_MAX_LINE_TOKEN
  BY TokensAssumption DEF Index
<1>4. TypeOK
  <2>1. linetoken \in LineTokens
    BY <1>2, <1>3 DEF Init, LineTokens
  <2>2. ends \in Seq(Nat)
    BY DEF Init
  <2> QED BY <1>1, <2>1, <2>2 DEF Init, TypeOK, States
<1>5. TokensFit
  <2>1. \A i \in Index : linetoken.token[i] = <<>>
    BY <1>2 DEF NoTokens, Index
  <2> QED BY <1>1, <2>1, TokensAssumption DEF TokensFit
<1>6. ReadTo
  <2>1. file \in Files /\ pos = 0 /\ line_num = 0
    BY DEF Init
  <2>2. {i \in 1..pos : EndsLine(i)} = {}
    BY <2>1
  <2>3. Len(file.text) \in Nat
    BY <2>1, TextIs
  <2> QED BY <2>1, <2>2, <2>3, FS_EmptySet DEF ReadTo
<1>7. CutInv
  BY DEF Init, CutInv, Cutting
<1> QED BY <1>4, <1>5, <1>6, <1>7 DEF TokensInv

-----------------------------------------------------------------------------
(* The lines are counted as they are read. *)
LEMMA LineIsCounted ==
  ASSUME ReadTo, NextLine
  PROVE  ReadTo'
<1> DEFINE n == Len(file.text)
           Ends(m) == {i \in 1..m : EndsLine(i)}
<1>1. /\ fgets # <<>> /\ file' = file /\ pos' = pos + Len(fgets) /\ line_num' = line_num + 1
  BY DEF NextLine
<1>2. /\ n \in Nat /\ pos \in 0..n /\ file \in Files
      /\ line_num = Cardinality(Ends(pos))
  BY TextIs DEF ReadTo
<1>3. PICK h \in 0..n - pos :
        /\ Len(fgets) = h /\ h <= Room
        /\ \A i \in 1..h - 1 : ~NewlineAt(pos + i)
        /\ h > 0 => NewlineAt(pos + h) \/ pos + h = n \/ h = Room
        /\ fgets # <<>> => h > 0
  BY <1>2, FgetsIs
<1>4. h > 0 /\ h \in 1..n - pos /\ pos' = pos + h
  BY <1>1, <1>2, <1>3
<1>5. \A k \in 1..h : EndsLine(pos + k) <=> k = h
  BY <1>3, <1>4, NextEnd
<1>6. Ends(pos + h) = Ends(pos) \cup {pos + h}
  <2>1. \A i \in 1..pos + h : i \in 1..pos \/ (i - pos \in 1..h /\ pos + (i - pos) = i)
    BY <1>2, <1>4
  <2>2. \A i \in 1..pos + h : i \notin 1..pos => (EndsLine(i) <=> i = pos + h)
    <3> TAKE i \in 1..pos + h
    <3> HAVE i \notin 1..pos
    <3>1. i - pos \in 1..h /\ pos + (i - pos) = i
      BY <2>1
    <3>2. EndsLine(pos + (i - pos)) <=> i - pos = h
      BY <1>5, <3>1
    <3>3. i - pos = h <=> i = pos + h
      BY <1>2, <1>4
    <3> QED BY <3>1, <3>2, <3>3
  <2>3. \A i \in 1..pos : i \in 1..pos + h
    BY <1>2, <1>4
  <2>4. pos + h \in 1..pos + h /\ pos + h \notin 1..pos
    BY <1>2, <1>4
  <2>5. \A i : i \in Ends(pos + h) <=> i \in Ends(pos) \/ i = pos + h
    BY <2>2, <2>3, <2>4
  <2> HIDE DEF Ends
  <2> QED BY <2>5
<1>7. Cardinality(Ends(pos + h)) = line_num + 1
  <2>1. IsFiniteSet(1..pos) /\ Ends(pos) \subseteq 1..pos
    BY <1>2, FS_Interval
  <2>2. IsFiniteSet(Ends(pos))
    BY <2>1, FS_Subset
  <2>3. pos + h \notin Ends(pos)
    BY <1>2, <1>4
  <2> HIDE DEF Ends
  <2> QED BY <1>2, <1>6, <2>2, <2>3, FS_AddElement
<1>8. \A i : EndsLine(i)' <=> EndsLine(i)
  BY <1>1 DEF EndsLine, LineStart
<1>9. EndsLine(pos + h)
  BY <1>4, <1>5
<1>10. {i \in 1..pos : EndsLine(i)}' = Ends(pos + h)
  BY <1>4, <1>8
<1>11. pos + h \in 0..n
  BY <1>2, <1>4
<1> QED BY <1>1, <1>2, <1>4, <1>7, <1>8, <1>9, <1>10, <1>11 DEF ReadTo

(* The count does not change where nothing is read. *)
LEMMA ReadToStays ==
  ASSUME ReadTo, UNCHANGED <<file, pos, line_num>>
  PROVE  ReadTo'
BY DEF ReadTo, EndsLine, LineStart

-----------------------------------------------------------------------------
(* A word of what is left of a string behind some space is the next word   *)
(* of the string.                                                          *)
LEMMA WordOfRest ==
  ASSUME NEW s \in Text, NEW o \in 0..Len(s), NEW n \in 0..Len(s) - o,
         \A i \in 1..n : cpw_is_space(s[o + i]),
         NEW word, NEW r \in 0..Len(s) - (o + n),
         IsWord(SubSeq(s, o + n + 1, Len(s)), word, 0, r)
  PROVE  IsWord(s, word, o, o + n + r)
<1> DEFINE b == o + n
           t == SubSeq(s, b + 1, Len(s))
<1>1. Len(s) \in Nat /\ b \in 0..Len(s) /\ o \in Nat /\ n \in Nat /\ r \in Nat
      /\ Len(s) \in b..Len(s) /\ b = o + n
  BY DEF Text
<1>2. \A i \in 1..Len(s) - b : t[i] = s[b + i]
  BY <1>1, RestIs
<1>3. Len(t) = Len(s) - b
  BY <1>1, RestIs
<1>4. PICK from \in 0..r, to \in 0..r :
        /\ word = Truncated(SubSeq(t, from + 1, to))
        /\ \/ BareWord(t, 0, from, to) /\ r = to
           \/ QuotedWord(t, 0, from, to) /\ r = Min({to + 1, Len(t)})
  BY DEF IsWord
<1> HIDE DEF b, t
<1>5. b + from \in o..b + r /\ b + to \in o..b + r /\ from <= to
  BY <1>1, <1>4 DEF BareWord, QuotedWord
<1>6. word = Truncated(SubSeq(s, b + from + 1, b + to))
  <2>1. to \in from..Len(s) - b /\ from \in Nat /\ b \in Nat
    BY <1>1, <1>5 DEF b
  <2>2. SubSeq(t, from + 1, to) = SubSeq(s, b + from + 1, b + to)
    BY <1>1, <2>1, PieceOfPiece DEF t
  <2> QED BY <1>4, <2>2
<1>7. ASSUME NEW m \in 0..r, \A i \in 0 + 1..m : cpw_is_space(t[i]), NEW i \in o + 1..b + m
      PROVE  cpw_is_space(s[i])
  <2>1. CASE i <= b
    <3>1. i - o \in 1..n /\ o + (i - o) = i
      BY <1>1, <2>1
    <3>2. cpw_is_space(s[o + (i - o)])
      BY <3>1
    <3> QED BY <3>1, <3>2
  <2>2. CASE i > b
    <3>1. i - b \in 0 + 1..m /\ i - b \in 1..Len(s) - b /\ b + (i - b) = i
      BY <1>1, <2>2 DEF b
    <3> QED BY <1>2, <1>7, <3>1
  <2> QED BY <1>1, <2>1, <2>2
<1>8. \A i \in b + from + 1..b + to : i - b \in from + 1..to /\ t[i - b] = s[i]
  <2> TAKE i \in b + from + 1..b + to
  <2>1. i - b \in from + 1..to /\ i - b \in 1..Len(s) - b /\ b + (i - b) = i
    BY <1>1 DEF b
  <2> QED BY <1>2, <2>1
<1>9. b + to < Len(s) => to < Len(t) /\ t[to + 1] = s[b + to + 1]
  <2> HAVE b + to < Len(s)
  <2>1. to < Len(t) /\ to + 1 \in 1..Len(s) - b /\ b + (to + 1) = b + to + 1
    BY <1>1, <1>3
  <2> QED BY <1>2, <2>1
<1>10. CASE BareWord(t, 0, from, to) /\ r = to
  <2>1. b + from < b + to /\ b + from + 1 \in b + from + 1..b + to /\ b + from + 1 - b = from + 1
    BY <1>1, <1>10 DEF BareWord
  <2>2. s[b + from + 1] \notin Quotes
    <3>1. from + 1 \in 1..Len(s) - b /\ b + (from + 1) = b + from + 1
      BY <1>1, <1>10, <2>1 DEF b
    <3>2. t[from + 1] = s[b + (from + 1)]
      BY <1>2, <3>1
    <3>3. t[from + 1] \notin Quotes
      BY <1>10 DEF BareWord
    <3> QED BY <3>1, <3>2, <3>3
  <2>3. \A i \in o + 1..b + from : cpw_is_space(s[i])
    BY <1>7, <1>10 DEF BareWord
  <2>4. \A i \in b + from + 1..b + to : ~cpw_is_space(s[i])
    BY <1>8, <1>10 DEF BareWord
  <2>5. b + to < Len(s) => cpw_is_space(s[b + to + 1])
    BY <1>9, <1>10 DEF BareWord
  <2>6. BareWord(s, o, b + from, b + to)
    BY <2>1, <2>2, <2>3, <2>4, <2>5 DEF BareWord
  <2>7. IsWord(s, word, o, b + r)
    BY <1>5, <1>6, <1>10, <2>6 DEF IsWord
  <2> QED BY <2>7 DEF b
<1>11. CASE QuotedWord(t, 0, from, to) /\ r = Min({to + 1, Len(t)})
  <2>1. 0 < from /\ from <= to
    BY <1>11 DEF QuotedWord
  <2>2. o < b + from /\ b + from <= b + to /\ from - 1 \in 0..r /\ b + from - 1 = b + (from - 1)
    BY <1>1, <2>1
  <2>3. t[from] = s[b + from]
    <3>1. from \in 1..Len(s) - b
      BY <1>1, <2>1 DEF b
    <3> QED BY <1>2, <3>1
  <2>4. s[b + from] \in Quotes
    BY <1>11, <2>3 DEF QuotedWord
  <2>5. \A i \in o + 1..b + from - 1 : cpw_is_space(s[i])
    <3> DEFINE m == from - 1
    <3>1. \A i \in 0 + 1..m : cpw_is_space(t[i])
      BY <1>11 DEF QuotedWord
    <3>2. m \in 0..r /\ b + from - 1 = b + m
      BY <2>2
    <3> HIDE DEF m
    <3> QED BY <1>7, <3>1, <3>2
  <2>6. \A i \in b + from + 1..b + to : s[i] # s[b + from]
    BY <1>8, <1>11, <2>3 DEF QuotedWord
  <2>7. b + to < Len(s) => s[b + to + 1] = s[b + from]
    BY <1>9, <1>11, <2>3 DEF QuotedWord
  <2>8. QuotedWord(s, o, b + from, b + to)
    <3> DEFINE x == b + from
               y == b + to
    <3>1. o < x /\ x <= y /\ s[x] \in Quotes
      BY <2>2, <2>4
    <3>2. \A i \in o + 1..x - 1 : cpw_is_space(s[i])
      BY <1>1, <2>5
    <3>3. \A i \in x + 1..y : s[i] # s[x]
      BY <2>6
    <3>4. y < Len(s) => s[y + 1] = s[x]
      BY <2>7
    <3> HIDE DEF x, y
    <3>5. QuotedWord(s, o, x, y)
      BY <3>1, <3>2, <3>3, <3>4 DEF QuotedWord
    <3> QED BY <3>5 DEF x, y
  <2>9. b + r = Min({b + to + 1, Len(s)})
    <3>1. Len(t) \in Nat /\ to + 1 \in Nat /\ b + to + 1 \in Nat
      BY <1>1, <1>3
    <3>2. r = IF to + 1 <= Len(t) THEN to + 1 ELSE Len(t)
      BY <1>11, <3>1, MinOfTwo
    <3>3. Min({b + to + 1, Len(s)}) = IF b + to + 1 <= Len(s) THEN b + to + 1 ELSE Len(s)
      BY <1>1, <3>1, MinOfTwo
    <3>4. to + 1 <= Len(t) <=> b + to + 1 <= Len(s)
      BY <1>1, <1>3
    <3>5. CASE to + 1 <= Len(t)
      BY <1>1, <3>2, <3>3, <3>4, <3>5
    <3>6. CASE ~(to + 1 <= Len(t))
      <4>1. b + Len(t) = Len(s)
        BY <1>1, <1>3
      <4> QED BY <3>2, <3>3, <3>4, <3>6, <4>1
    <3> QED BY <3>5, <3>6
  <2>10. IsWord(s, word, o, b + r)
    BY <1>5, <1>6, <2>8, <2>9 DEF IsWord
  <2> QED BY <2>10 DEF b
<1> QED BY <1>4, <1>10, <1>11

(* The next token of a line is its next word. *)
LEMMA TakenIs ==
  ASSUME NEW s \in Text, NEW o \in 0..Len(s), ~AtEnd(SkipSpace(SubSeq(s, o + 1, Len(s))))
  PROVE  LET found == cpw_get_arg(SkipSpace(SubSeq(s, o + 1, Len(s)))) IN
         \E r \in o..Len(s) : /\ IsWord(s, found.arg, o, r)
                              /\ found.rest = SubSeq(s, r + 1, Len(s))
<1> DEFINE u == SubSeq(s, o + 1, Len(s))
           t == SkipSpace(u)
           found == cpw_get_arg(t)
<1>1. Len(s) \in Nat /\ o \in Nat
  BY DEF Text
<1>2. u \in Text /\ Len(u) = Len(s) - o /\ \A i \in 1..Len(s) - o : u[i] = s[o + i]
  BY RestIs
<1>3. ~AtEnd(t)
  OBVIOUS
<1> HIDE DEF t
<1>4. PICK n \in 0..Len(u) : /\ t = SubSeq(u, n + 1, Len(u))
                             /\ \A i \in 1..n : cpw_is_space(u[i])
                             /\ n < Len(u) => ~cpw_is_space(u[n + 1])
  BY <1>2, SkipSpaceIs DEF t
<1>5. t = SubSeq(s, o + n + 1, Len(s)) /\ o + n \in 0..Len(s)
  BY <1>2, <1>4, RestOfRest
<1>6. t \in Text /\ Len(t) = Len(s) - (o + n)
  BY <1>5, RestIs
<1>7. 1 <= Len(t)
  BY <1>3 DEF AtEnd, At
<1>8. ~cpw_is_space(t[1])
  <2>1. /\ Len(t) = Len(u) - n
        /\ \A i \in 1..Len(u) - n : t[i] = u[n + i]
    BY <1>2, <1>4, RestIs
  <2>2. n < Len(u) /\ 1 \in 1..Len(u) - n
    BY <1>1, <1>2, <1>7, <2>1
  <2> QED BY <1>4, <2>1, <2>2
<1>9. PICK r \in 0..Len(t) : /\ IsWord(t, found.arg, 0, r)
                             /\ found.rest = SubSeq(t, r + 1, Len(t))
  BY <1>6, <1>7, <1>8, GetArgIs
<1>10. found.rest = SubSeq(s, o + n + r + 1, Len(s)) /\ o + n + r \in 0..Len(s)
  <2> DEFINE b == o + n
  <2>1. b \in 0..Len(s) /\ r \in 0..Len(s) - b /\ t = SubSeq(s, b + 1, Len(s))
    BY <1>5, <1>6, <1>9
  <2> HIDE DEF b
  <2>2. SubSeq(t, r + 1, Len(t)) = SubSeq(s, b + r + 1, Len(s)) /\ b + r \in 0..Len(s)
    BY <2>1, RestOfRest
  <2> QED BY <1>9, <2>2 DEF b
<1>11. \A i \in 1..n : cpw_is_space(s[o + i])
  <2> TAKE i \in 1..n
  <2>1. i \in 1..Len(s) - o
    BY <1>1, <1>2
  <2> QED BY <1>2, <1>4, <2>1
<1>12. IsWord(s, found.arg, o, o + n + r)
  <2>1. n \in 0..Len(s) - o /\ r \in 0..Len(s) - (o + n)
    BY <1>2, <1>4, <1>6, <1>9
  <2> HIDE DEF found
  <2> QED BY <1>5, <1>9, <1>11, <2>1, WordOfRest
<1>13. o + n + r \in o..Len(s)
  BY <1>1, <1>2, <1>6, <1>10
<1> QED BY <1>10, <1>12, <1>13 DEF t

(* A word is a piece of the string, between what is not in words.          *)
LEMMA WordIsPiece ==
  ASSUME NEW s \in Text, NEW o \in Nat, NEW r \in o..Len(s), NEW word, IsWord(s, word, o, r)
  PROVE  \E from, to \in o..r :
           /\ word = Truncated(SubSeq(s, from + 1, to))
           /\ from <= to
           /\ \A i \in o + 1..r : i \in from + 1..to \/ cpw_is_space(s[i]) \/ s[i] \in Quotes
<1>1. Len(s) \in Nat /\ r \in Nat /\ o \in Nat
  BY DEF Text
<1>2. PICK from \in o..r, to \in o..r :
        /\ word = Truncated(SubSeq(s, from + 1, to))
        /\ \/ BareWord(s, o, from, to) /\ r = to
           \/ QuotedWord(s, o, from, to) /\ r = Min({to + 1, Len(s)})
  BY DEF IsWord
<1>3. from <= to
  BY <1>1, <1>2 DEF BareWord, QuotedWord
<1>4. ASSUME NEW i \in o + 1..r, i \notin from + 1..to
      PROVE  cpw_is_space(s[i]) \/ s[i] \in Quotes
  <2>1. CASE BareWord(s, o, from, to) /\ r = to
    <3>1. i \in o + 1..from
      BY <1>1, <1>4, <2>1
    <3> QED BY <2>1, <3>1 DEF BareWord
  <2>2. CASE QuotedWord(s, o, from, to) /\ r = Min({to + 1, Len(s)})
    <3>1. to + 1 \in Nat
      BY <1>1
    <3>2. r = IF to + 1 <= Len(s) THEN to + 1 ELSE Len(s)
      BY <1>1, <2>2, <3>1, MinOfTwo
    <3>3. CASE i < from
      <4>1. i \in o + 1..from - 1
        BY <1>1, <3>3
      <4> QED BY <2>2, <4>1 DEF QuotedWord
    <3>4. CASE i = from
      BY <2>2, <3>4 DEF QuotedWord
    <3>5. CASE i > from
      <4>1. i = to + 1 /\ to < Len(s)
        BY <1>1, <1>4, <3>2, <3>5
      <4> QED BY <2>2, <4>1 DEF QuotedWord
    <3> QED BY <1>1, <3>3, <3>4, <3>5
  <2> QED BY <1>2, <2>1, <2>2
<1> QED BY <1>2, <1>3, <1>4

(* A word fits the room for a token. *)
LEMMA WordFits ==
  ASSUME NEW s \in Text, NEW o \in Nat, NEW r \in o..Len(s), NEW word, IsWord(s, word, o, r)
  PROVE  word \in Text /\ Len(word) < CPW_CONFIG_MAX_TAG_LENGTH
<1>1. PICK from \in o..r, to \in o..r : /\ word = Truncated(SubSeq(s, from + 1, to))
                                        /\ from <= to
  BY WordIsPiece
<1>2. from \in Nat /\ to \in from..Len(s)
  BY <1>1 DEF Text
<1>3. SubSeq(s, from + 1, to) \in Text
  BY <1>2, PieceIs
<1> QED BY <1>1, <1>3, TruncatedIs

-----------------------------------------------------------------------------
(* One step each. *)
LEMMA NextLineStep ==
  ASSUME TokensInv, NextLine
  PROVE  TokensInv'
<1>1. /\ TypeOK /\ TokensFit /\ ReadTo /\ pc = "fgets" /\ line' = fgets
      /\ p' = SkipSpace(line') /\ ends' = <<Cut'>>
      /\ \/ AtEnd(p') /\ UNCHANGED <<pc, linetoken>>
         \/ pc' = "split" /\ linetoken' = [linetoken EXCEPT !.token = NoTokens, !.num = 0]
  BY DEF TokensInv, NextLine
<1>2. ReadTo'
  BY <1>1, LineIsCounted
<1>3. line' \in Text
  BY <1>1, FgetsIs DEF ReadTo
<1>4. PICK n \in 0..Len(line') : /\ p' = SubSeq(line', n + 1, Len(line'))
                                 /\ \A i \in 1..n : cpw_is_space(line'[i])
  BY <1>1, <1>3, SkipSpaceIs
<1>5. p' \in Text /\ Len(p') = Len(line') - n /\ Len(line') \in Nat /\ n \in Nat
  BY <1>3, <1>4, RestIs DEF Text
<1>6. Cut' = n
  BY <1>5 DEF Cut
<1>7. ends' = <<n>> /\ ends' \in Seq(Nat) /\ Len(ends') = 1 /\ ends'[1] = n
  BY <1>1, <1>5, <1>6
<1>8. /\ NoTokens \in [Index -> Text] /\ \A i \in Index : NoTokens[i] = <<>> /\ Len(NoTokens[i]) = 0
      /\ 0 \in 0..CPW_CONFIG_MAX_LINE_TOKEN
  <2>1. <<>> \in Text /\ Len(<<>>) = 0
    BY DEF Text
  <2> QED BY <2>1, TokensAssumption DEF NoTokens, Index
<1>9. CASE AtEnd(p') /\ UNCHANGED <<pc, linetoken>>
  <2>1. TypeOK' /\ TokensFit'
    BY <1>1, <1>3, <1>5, <1>7, <1>9 DEF TypeOK, TokensFit
  <2>2. CutInv'
    BY <1>1, <1>9 DEF CutInv, Cutting
  <2> QED BY <1>2, <2>1, <2>2 DEF TokensInv
<1>10. CASE pc' = "split" /\ linetoken' = [linetoken EXCEPT !.token = NoTokens, !.num = 0]
  <2>1. linetoken' \in LineTokens /\ linetoken'.token = NoTokens /\ linetoken'.num = 0
    BY <1>1, <1>8, <1>10 DEF TypeOK, LineTokens
  <2>2. TypeOK'
    BY <1>3, <1>5, <1>7, <1>10, <2>1 DEF TypeOK, States
  <2>3. TokensFit'
    BY <1>8, <2>1, TokensAssumption DEF TokensFit
  <2>4. CutTo'
    <3>1. linetoken'.num + 1 = 1
      BY <2>1
    <3>2. \A k \in 1..1 : ends'[k] \in 0..Len(line')
      BY <1>4, <1>7
    <3> QED BY <1>4, <1>5, <1>6, <1>7, <3>1, <3>2 DEF CutTo
  <2>5. Words'
    <3>1. \A i \in 1..ends'[1] : cpw_is_space(line'[i])
      BY <1>4, <1>7
    <3>2. 1..linetoken'.num = {}
      BY <2>1
    <3> QED BY <1>8, <2>1, <3>1, <3>2 DEF Words
  <2>6. CutInv'
    BY <1>10, <2>4, <2>5 DEF CutInv, RestIsComment
  <2> QED BY <1>2, <2>2, <2>3, <2>6 DEF TokensInv
<1> QED BY <1>1, <1>9, <1>10

LEMMA SplitTokenStep ==
  ASSUME TokensInv, SplitToken
  PROVE  TokensInv'
<1> DEFINE num   == linetoken.num
           token == linetoken.token
           found == cpw_get_arg(SkipSpace(p))
<1>1. /\ TypeOK /\ TokensFit /\ ReadTo /\ CutInv /\ pc = "split" /\ num < CPW_CONFIG_MAX_LINE_TOKEN
      /\ ~AtEnd(SkipSpace(p))
      /\ UNCHANGED <<file, pos, line_num, line, pc, read>>
      /\ linetoken' = [linetoken EXCEPT !.token[linetoken.num] = found.arg, !.num = @ + 1]
      /\ p' = found.rest /\ ends' = Append(ends, Cut')
  BY DEF TokensInv, SplitToken
<1>2. CutTo /\ Words
  BY <1>1 DEF CutInv, Cutting
<1>3. /\ num \in Nat /\ num \in Index /\ num + 1 \in 1..CPW_CONFIG_MAX_LINE_TOKEN
      /\ token \in [Index -> Text] /\ linetoken \in LineTokens /\ line \in Text
      /\ CPW_CONFIG_MAX_LINE_TOKEN \in Nat /\ num + 1 \in 0..CPW_CONFIG_MAX_LINE_TOKEN
  BY <1>1, TokensAssumption DEF TypeOK, LineTokens, Index
<1>4. Cut \in 0..Len(line) /\ p = SubSeq(line, Cut + 1, Len(line)) /\ Cut \in Nat /\ Len(line) \in Nat
  BY <1>2, <1>3 DEF CutTo, Text
<1> HIDE DEF num, token
<1>5. PICK r \in Cut..Len(line) : /\ IsWord(line, found.arg, Cut, r)
                                  /\ found.rest = SubSeq(line, r + 1, Len(line))
  <2> DEFINE o == Cut
  <2>1. o \in 0..Len(line) /\ p = SubSeq(line, o + 1, Len(line)) /\ ~AtEnd(SkipSpace(p))
    BY <1>1, <1>4
  <2> HIDE DEF o
  <2>2. \E r \in o..Len(line) : /\ IsWord(line, found.arg, o, r)
                                /\ found.rest = SubSeq(line, r + 1, Len(line))
    BY <1>3, <2>1, TakenIs
  <2> QED BY <2>2 DEF o
<1> HIDE DEF found
<1>6. found.arg \in Text /\ Len(found.arg) < CPW_CONFIG_MAX_TAG_LENGTH
  BY <1>3, <1>4, <1>5, WordFits
<1>7. r \in 0..Len(line) /\ r \in Nat
  BY <1>4
<1>8. p' = SubSeq(line, r + 1, Len(line)) /\ p' \in Text /\ Len(p') = Len(line) - r
  BY <1>1, <1>3, <1>5, <1>7, RestIs
<1>9. Cut' = r
  BY <1>1, <1>4, <1>7, <1>8 DEF Cut
<1>10. /\ linetoken' \in LineTokens
       /\ linetoken'.num = num + 1 /\ linetoken'.token = [token EXCEPT ![num] = found.arg]
  <2>1. [token EXCEPT ![num] = found.arg] \in [Index -> Text]
    BY <1>3, <1>6
  <2>2. linetoken' = [linetoken EXCEPT !.token = [token EXCEPT ![num] = found.arg], !.num = num + 1]
    BY <1>1, <1>3 DEF LineTokens, num, token
  <2> QED BY <1>3, <2>1, <2>2 DEF LineTokens
<1>11. /\ linetoken'.token[num] = found.arg
       /\ \A i \in Index : i # num => linetoken'.token[i] = token[i]
  BY <1>3, <1>10
<1>12. /\ Len(ends) = num + 1 /\ ends \in Seq(Nat) /\ ends[num + 1] = Cut
       /\ \A k \in 1..num + 1 : ends[k] \in 0..Len(line)
  BY <1>1, <1>2 DEF CutTo, TypeOK, num
<1>13. /\ ends' \in Seq(Nat) /\ Len(ends') = num + 2 /\ ends'[num + 2] = r
       /\ \A k \in 1..num + 1 : ends'[k] = ends[k]
  BY <1>1, <1>3, <1>7, <1>9, <1>12
<1>14. TypeOK'
  BY <1>1, <1>8, <1>10, <1>13 DEF TypeOK
<1>15. TokensFit'
  <2> SUFFICES ASSUME NEW i \in Index
               PROVE  Len(linetoken'.token[i]) < CPW_CONFIG_MAX_TAG_LENGTH
    BY DEF TokensFit
  <2>1. Len(token[i]) < CPW_CONFIG_MAX_TAG_LENGTH
    BY <1>1 DEF TokensFit, token
  <2> QED BY <1>6, <1>11, <2>1
<1>16. CutTo'
  <2>1. num + 1 + 1 = num + 2
    BY <1>3
  <2>2. \A k \in 1..num + 2 : ends'[k] \in 0..Len(line')
    <3> TAKE k \in 1..num + 2
    <3>1. k \in 1..num + 1 \/ k = num + 2
      BY <1>3
    <3> QED BY <1>1, <1>7, <1>12, <1>13, <3>1
  <2> QED BY <1>1, <1>7, <1>8, <1>9, <1>10, <1>13, <2>1, <2>2 DEF CutTo
<1>17. Words'
  <2>1. \A i \in 1..ends'[1] : cpw_is_space(line'[i])
    <3>1. ends'[1] = ends[1]
      BY <1>3, <1>13
    <3> QED BY <1>1, <1>2, <3>1 DEF Words
  <2>2. ASSUME NEW k \in 1..num + 1
        PROVE  IsWord(line', linetoken'.token[k - 1], ends'[k], ends'[k + 1])
    <3>1. CASE k = num + 1
      <4>1. k - 1 = num /\ k + 1 = num + 2 /\ ends'[k] = Cut
        BY <1>3, <1>12, <1>13, <3>1
      <4> QED BY <1>1, <1>5, <1>11, <1>13, <4>1
    <3>2. CASE k # num + 1
      <4>1. k \in 1..num /\ k \in 1..num + 1 /\ k + 1 \in 1..num + 1 /\ k - 1 \in Index /\ k - 1 # num
        BY <1>3, <3>2 DEF Index
      <4>2. IsWord(line, token[k - 1], ends[k], ends[k + 1])
        BY <1>2, <4>1 DEF Words, num, token
      <4> QED BY <1>1, <1>11, <1>13, <4>1, <4>2
    <3> QED BY <3>1, <3>2
  <2>3. ASSUME NEW i \in Index, i >= num + 1
        PROVE  linetoken'.token[i] = <<>>
    <3>1. i >= num /\ i # num
      BY <1>3, <2>3 DEF Index
    <3>2. token[i] = <<>>
      BY <1>2, <3>1 DEF Words, num, token
    <3> QED BY <1>11, <3>1, <3>2
  <2> QED BY <1>10, <2>1, <2>2, <2>3 DEF Words
<1>18. CutInv'
  BY <1>1, <1>16, <1>17 DEF CutInv, RestIsComment
<1>19. ReadTo'
  BY <1>1, ReadToStays
<1> QED BY <1>14, <1>15, <1>18, <1>19 DEF TokensInv

(* An index beyond the array means that no token ends the tag. *)
LEMMA TagEndIsAbsent ==
  ASSUME NEW token \in [Index -> Text], cpw_get_tag_name_index(token) \notin Index
  PROVE  NoTagEnd(token)
<1> DEFINE stops == {i \in DOMAIN token : token[i] = <<>> \/ ">" \in ToSet(token[i])}
           i     == Min(stops)
           alone == At(token[i], 1) = ">" /\ i >= 2
<1>1. /\ stops # {} /\ alone => cpw_get_tag_name_index(token) = i - 1
      /\ stops # {} /\ ~alone => cpw_get_tag_name_index(token) = i
  BY DEF cpw_get_tag_name_index
<1>2. stops \in SUBSET Index /\ Index \in SUBSET Nat /\ CPW_CONFIG_MAX_LINE_TOKEN \in Nat
  BY TokensAssumption DEF Index
<1>3. stops = {}
  <2> SUFFICES ASSUME stops # {}
               PROVE  FALSE
    OBVIOUS
  <2> HIDE DEF stops
  <2>1. i \in stops /\ i \in Index
    BY <1>2, MinIs
  <2>2. i >= 2 => i - 1 \in Index
    BY <2>1, TokensAssumption DEF Index
  <2> HIDE DEF i
  <2> QED BY <1>1, <2>1, <2>2
<1> QED BY <1>3 DEF NoTagEnd

LEMMA ClassifyStep ==
  ASSUME TokensInv, Classify
  PROVE  TokensInv'
<1> DEFINE token == linetoken.token
           index == cpw_get_tag_name_index(token)
<1>1. TypeOK /\ TokensFit /\ ReadTo /\ CutInv /\ token \in [Index -> Text] /\ linetoken \in LineTokens
  BY DEF TokensInv, TypeOK, LineTokens
<1>2. /\ pc = "tag"
      /\ UNCHANGED <<file, pos, line_num, line, p, read, ends>>
  BY DEF Classify
<1>3. PICK tag \in BOOLEAN, opening \in BOOLEAN, closing \in BOOLEAN, i \in DOMAIN token \cup {0} :
        \/ /\ linetoken' = [linetoken EXCEPT !.is_tag = tag, !.is_opening_tag = opening,
                                             !.is_closing_tag = closing, !.tag_name_index = i]
           /\ pc' = "token"
        \/ index \notin DOMAIN token /\ pc' = "overrun" /\ UNCHANGED linetoken
  BY DEF Classify
<1>4. DOMAIN token = Index /\ 0 \in Index
  BY <1>1, TokensAssumption DEF Index
<1>5. /\ linetoken' \in LineTokens
      /\ linetoken'.token = token /\ linetoken'.num = linetoken.num
  <2>1. i \in Index => [linetoken EXCEPT !.is_tag = tag, !.is_opening_tag = opening,
                                         !.is_closing_tag = closing, !.tag_name_index = i] \in LineTokens
    BY <1>1 DEF LineTokens
  <2> QED BY <1>1, <1>3, <1>4, <2>1 DEF LineTokens
<1>6. pc' \in {"token", "overrun"}
  BY <1>3
<1>7. TypeOK' /\ TokensFit' /\ ReadTo'
  BY <1>1, <1>2, <1>5, <1>6, ReadToStays DEF TypeOK, States, TokensFit
<1>8. CutTo /\ Words /\ RestIsComment
  BY <1>1, <1>2 DEF CutInv, Cutting
<1>9. CutTo' /\ Words'
  BY <1>2, <1>5, <1>8 DEF CutTo, Words, Cut
<1>10. RestIsComment'
  BY <1>2, <1>5, <1>8 DEF RestIsComment
<1>11. pc' = "overrun" => NoTagEnd(linetoken.token)'
  BY <1>1, <1>3, <1>4, <1>5, TagEndIsAbsent
<1> QED BY <1>7, <1>9, <1>10, <1>11 DEF TokensInv, CutInv

LEMMA NextInv == TokensInv /\ [Next]_vars => TokensInv'
<1> SUFFICES ASSUME TokensInv, [Next]_vars
             PROVE  TokensInv'
  OBVIOUS
<1>1. CASE NextLine
  BY <1>1, NextLineStep
<1>2. CASE NoMoreLines
  <2>1. pc' = "end" /\ UNCHANGED <<file, pos, line_num, line, p, linetoken, read, ends>>
    BY <1>2 DEF NoMoreLines
  <2> QED BY <2>1, ReadToStays DEF TokensInv, TypeOK, States, TokensFit, CutInv, Cutting
<1>3. CASE SplitToken
  BY <1>3, SplitTokenStep
<1>4. CASE SplitDone
  <2>1. /\ pc = "split" /\ pc' = "tag"
        /\ UNCHANGED <<file, pos, line_num, line, p, linetoken, read, ends>>
        /\ linetoken.num = CPW_CONFIG_MAX_LINE_TOKEN \/ AtEnd(SkipSpace(p))
    BY <1>4 DEF SplitDone
  <2>2. TypeOK' /\ TokensFit' /\ ReadTo'
    BY <2>1, ReadToStays DEF TokensInv, TypeOK, States, TokensFit
  <2>3. CutTo' /\ Words'
    BY <2>1 DEF TokensInv, CutInv, Cutting, CutTo, Words, Cut
  <2>4. RestIsComment'
    BY <2>1 DEF RestIsComment
  <2> QED BY <2>1, <2>2, <2>3, <2>4 DEF TokensInv, CutInv
<1>5. CASE Classify
  BY <1>5, ClassifyStep
<1>6. CASE TakeTokens
  <2>1. pc' = "fgets" /\ UNCHANGED <<file, pos, line_num, line, p, linetoken, ends>>
    BY <1>6 DEF TakeTokens
  <2> QED BY <2>1, ReadToStays DEF TokensInv, TypeOK, States, TokensFit, CutInv, Cutting
<1>7. CASE UNCHANGED vars
  <2>1. UNCHANGED <<file, pos, line_num, line, p, linetoken, pc, read, ends>>
    BY <1>7 DEF vars
  <2>2. TypeOK' /\ TokensFit' /\ ReadTo'
    BY <2>1, ReadToStays DEF TokensInv, TypeOK, TokensFit
  <2>3. CutInv'
    BY <2>1 DEF TokensInv, CutInv, CutTo, Words, RestIsComment, NoTagEnd, Cut
  <2> QED BY <2>2, <2>3 DEF TokensInv
<1> QED BY <1>1, <1>2, <1>3, <1>4, <1>5, <1>6, <1>7 DEF Next

-----------------------------------------------------------------------------
(* Every line the tokeniser reads, every token it cuts and every position  *)
(* it keeps are as the invariant says, whatever the files hold.            *)
THEOREM TokensInvariant == Spec => []TokensInv
<1>1. Init => TokensInv
  BY InitInv
<1>2. TokensInv /\ [Next]_vars => TokensInv'
  BY NextInv
<1> QED BY <1>1, <1>2, PTL DEF Spec

(* The tokens of a line are its words in their order, whole or cut because *)
(* they are too long, and nothing follows the last but a comment, if there *)
(* was room for another (helper.c:45-70, 142-152).                         *)
THEOREM TokensAreTheWords == Spec => []TokensAreWords
<1>1. TokensInv => TokensAreWords
  <2> SUFFICES ASSUME TokensInv, pc \in Cutting
               PROVE  /\ \A i \in 1..ends[1] : cpw_is_space(line[i])
                      /\ \A k \in 1..linetoken.num :
                           IsWord(line, linetoken.token[k - 1], ends[k], ends[k + 1])
                      /\ ends[linetoken.num + 1] = Cut
                      /\ pc # "split" =>
                           linetoken.num = CPW_CONFIG_MAX_LINE_TOKEN \/ AtEnd(SkipSpace(p))
    BY DEF TokensAreWords, Cutting
  <2> QED BY DEF TokensInv, CutInv, CutTo, Words, RestIsComment
<1> QED BY <1>1, TokensInvariant, PTL

(* The line number is the number of lines read, whatever is on them        *)
(* (config.c:149-155).                                                     *)
THEOREM EveryLineIsCounted == Spec => []LinesAreCounted
<1>1. TokensInv => LinesAreCounted
  BY DEF TokensInv, ReadTo, LinesAreCounted
<1> QED BY <1>1, TokensInvariant, PTL

(* A ">" in what is cut up is in one of the tokens, if none is cut short.  *)
LEMMA TagEndIsKept ==
  ASSUME TypeOK, CutTo, Words,
         \A i \in Index : Len(linetoken.token[i]) # CPW_CONFIG_MAX_TAG_LENGTH - 1,
         TokensFit, NEW j \in 1..Cut, line[j] = ">"
  PROVE  \E i \in Index : ">" \in ToSet(linetoken.token[i])
<1> DEFINE num == linetoken.num
           S   == {k \in 1..num + 1 : j <= ends[k]}
           m   == Min(S)
<1>1. /\ num \in Nat /\ num <= CPW_CONFIG_MAX_LINE_TOKEN /\ CPW_CONFIG_MAX_LINE_TOKEN \in Nat
      /\ CPW_CONFIG_MAX_TAG_LENGTH \in Nat /\ line \in Text /\ Len(line) \in Nat
      /\ linetoken.token \in [Index -> Text]
  BY TokensAssumption DEF TypeOK, LineTokens, Text
<1>2. /\ Cut \in 0..Len(line) /\ ends[num + 1] = Cut
      /\ \A k \in 1..num + 1 : ends[k] \in 0..Len(line)
  BY DEF CutTo
<1>3. ~cpw_is_space(">") /\ ">" \notin Quotes
  BY DEF cpw_is_space, Quotes
<1> HIDE DEF num
<1>4. num + 1 \in S /\ S \in SUBSET Nat
  BY <1>1, <1>2
<1>5. m \in S /\ \A k \in S : m <= k
  <2> HIDE DEF S
  <2> QED BY <1>4, MinIs
<1>6. m \in 1..num + 1 /\ j <= ends[m] /\ \A k \in 1..num + 1 : j <= ends[k] => m <= k
  BY <1>5
<1> HIDE DEF S, m
<1>7. m # 1
  <2> SUFFICES ASSUME m = 1
               PROVE  FALSE
    OBVIOUS
  <2>1. j \in 1..ends[1]
    BY <1>2, <1>6
  <2> QED BY <1>3, <2>1 DEF Words
<1> DEFINE k == m - 1
<1>8. k \in 1..num /\ k + 1 = m /\ k \in 1..num + 1
  BY <1>1, <1>6, <1>7
<1>9. ~(j <= ends[k])
  <2>1. ~(m <= k)
    BY <1>1, <1>6
  <2> HIDE DEF k
  <2> QED BY <1>6, <1>8, <2>1
<1> HIDE DEF k
<1>10. /\ ends[k] \in 0..Len(line) /\ ends[k + 1] \in 0..Len(line)
       /\ j \in ends[k] + 1..ends[k + 1]
  BY <1>2, <1>6, <1>8, <1>9
<1>11. PICK from \in ends[k]..ends[k + 1], to \in ends[k]..ends[k + 1] :
         /\ linetoken.token[k - 1] = Truncated(SubSeq(line, from + 1, to))
         /\ \A i \in ends[k] + 1..ends[k + 1] :
              i \in from + 1..to \/ cpw_is_space(line[i]) \/ line[i] \in Quotes
  <2> DEFINE o == ends[k]
             r == ends[k + 1]
  <2>1. o \in Nat /\ r \in o..Len(line)
    BY <1>1, <1>10
  <2>2. IsWord(line, linetoken.token[k - 1], o, r)
    BY <1>8 DEF Words, num
  <2> HIDE DEF o, r
  <2>3. \E from, to \in o..r :
          /\ linetoken.token[k - 1] = Truncated(SubSeq(line, from + 1, to))
          /\ \A i \in o + 1..r : i \in from + 1..to \/ cpw_is_space(line[i]) \/ line[i] \in Quotes
    <3>1. \E from, to \in o..r :
            /\ linetoken.token[k - 1] = Truncated(SubSeq(line, from + 1, to))
            /\ from <= to
            /\ \A i \in o + 1..r : i \in from + 1..to \/ cpw_is_space(line[i]) \/ line[i] \in Quotes
      BY <1>1, <2>1, <2>2, WordIsPiece
    <3> QED BY <3>1
  <2> QED BY <2>3 DEF o, r
<1>12. j \in from + 1..to
  BY <1>3, <1>10, <1>11
<1> DEFINE piece == SubSeq(line, from + 1, to)
<1>13. from \in Nat /\ to \in from..Len(line) /\ to - from \in Nat
       /\ j - from \in 1..to - from /\ from + (j - from) = j
  BY <1>1, <1>10, <1>12
<1>14. piece \in Text /\ Len(piece) = to - from /\ \A i \in 1..to - from : piece[i] = line[from + i]
  BY <1>1, <1>13, PieceIs
<1> HIDE DEF piece
<1>15. k - 1 \in Index
  BY <1>1, <1>8 DEF Index
<1>16. linetoken.token[k - 1] = piece
  <2>1. Len(linetoken.token[k - 1]) # CPW_CONFIG_MAX_TAG_LENGTH - 1
    BY <1>15
  <2>2. linetoken.token[k - 1] = Truncated(piece)
    BY <1>11 DEF piece
  <2>3. Len(Truncated(piece)) \in Nat
    BY <1>14, TruncatedIs DEF Text
  <2>4. Len(Truncated(piece)) < CPW_CONFIG_MAX_TAG_LENGTH - 1
    BY <1>1, <1>14, <2>1, <2>2, <2>3, TruncatedIs
  <2> QED BY <1>14, <2>2, <2>4, TruncatedIs
<1>17. ">" \in ToSet(piece)
  <2>1. j - from \in DOMAIN piece /\ piece[j - from] = ">"
    BY <1>13, <1>14 DEF Text
  <2> QED BY <2>1 DEF ToSet
<1> QED BY <1>15, <1>16, <1>17

(* Every token has room for its NUL, and the array of tokens is read       *)
(* beyond its end only for a line that fills it and shows no end of the    *)
(* tag, or whose ">" was in a word too long (helper.c:61-66, 158-188).     *)
THEOREM TokensStayInArrays == Spec => []StaysInArrays
<1>1. TokensInv => StaysInArrays
  <2> SUFFICES ASSUME TokensInv
               PROVE  StaysInArrays
    OBVIOUS
  <2>1. /\ linetoken.num \in 0..CPW_CONFIG_MAX_LINE_TOKEN
        /\ linetoken.token \in [Index -> Text] /\ DOMAIN linetoken.token = Index
        /\ TypeOK /\ TokensFit
    BY DEF TokensInv, TypeOK, LineTokens
  <2>2. \A i \in DOMAIN linetoken.token : Len(linetoken.token[i]) < CPW_CONFIG_MAX_TAG_LENGTH
    BY <2>1 DEF TokensFit
  <2>3. ASSUME pc = "overrun"
        PROVE  /\ linetoken.token[CPW_CONFIG_MAX_LINE_TOKEN - 1] # <<>>
               /\ \/ ">" \notin ToSet(SubSeq(line, 1, Cut))
                  \/ \E i \in DOMAIN linetoken.token :
                       Len(linetoken.token[i]) = CPW_CONFIG_MAX_TAG_LENGTH - 1
    <3>1. CutTo /\ Words /\ NoTagEnd(linetoken.token)
      BY <2>3 DEF TokensInv, CutInv, Cutting
    <3>2. CPW_CONFIG_MAX_LINE_TOKEN - 1 \in Index
      BY TokensAssumption DEF Index
    <3>3. ASSUME \A i \in Index : Len(linetoken.token[i]) # CPW_CONFIG_MAX_TAG_LENGTH - 1,
                 ">" \in ToSet(SubSeq(line, 1, Cut))
          PROVE  FALSE
      <4>1. line \in Text /\ Cut \in 0..Len(line) /\ Cut - 0 = Cut /\ 0 + 1 = 1
        BY <2>1, <3>1 DEF TypeOK, CutTo, Text
      <4>2. Len(SubSeq(line, 1, Cut)) = Cut /\ SubSeq(line, 1, Cut) \in Text
            /\ \A i \in 1..Cut : SubSeq(line, 1, Cut)[i] = line[0 + i]
        <5> DEFINE c == Cut
        <5>1. c \in 0..Len(line) /\ 0 \in Nat /\ c - 0 = c
          BY <4>1
        <5> HIDE DEF c
        <5>2. /\ SubSeq(line, 0 + 1, c) \in Text /\ Len(SubSeq(line, 0 + 1, c)) = c - 0
              /\ \A i \in 1..c - 0 : SubSeq(line, 0 + 1, c)[i] = line[0 + i]
          BY <4>1, <5>1, PieceIs
        <5> QED BY <4>1, <5>1, <5>2 DEF c
      <4>3. PICK j \in 1..Cut : line[j] = ">"
        <5>1. \A i \in 1..Cut : 0 + i = i
          OBVIOUS
        <5>2. DOMAIN SubSeq(line, 1, Cut) = 1..Cut
          BY <4>2 DEF Text
        <5> QED BY <3>3, <4>2, <5>1, <5>2 DEF ToSet
      <4>4. \E i \in Index : ">" \in ToSet(linetoken.token[i])
        BY <2>1, <3>1, <3>3, <4>3, TagEndIsKept
      <4> QED BY <3>1, <4>4 DEF NoTagEnd
    <3>4. linetoken.token[CPW_CONFIG_MAX_LINE_TOKEN - 1] # <<>>
      BY <3>1, <3>2 DEF NoTagEnd
    <3> QED BY <2>1, <3>3, <3>4
  <2> QED BY <2>1, <2>2, <2>3 DEF StaysInArrays
<1> QED BY <1>1, TokensInvariant, PTL
=============================================================================
