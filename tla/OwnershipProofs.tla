--------------------------- MODULE OwnershipProofs ---------------------------
(***************************************************************************)
(* Proofs about the memory of Ownership: nothing is freed twice or used    *)
(* after it was freed, and what a call loses is known.                     *)
(***************************************************************************)
EXTENDS Ownership, SequenceTheorems, TLAPS

(* Which struct has which field, by kind. *)
Parts ==
  Dropped \cup Forgotten \cup
  {<<"caller", "context">>, <<"caller", "parsecontext">>,
   <<"caller", "source">>, <<"caller", "output">>, <<"linetoken", "token">>,
   <<"command", "args">>, <<"process", "args">>,
   <<"process", "source">>, <<"process", "output">>}

Lent   == {"source", "output"}             \* the caller has a pointer to them as well
Shared == {"command"} \cup Lent            \* more than one pointer may lead to them
Kept   == {"caller", "process"} \cup Shared  \* never freed

TypeOK ==
  /\ kind \in Seq({"caller"} \cup Kind)
  /\ live \subseteq DOMAIN kind
  /\ points \subseteq (DOMAIN kind) \X (DOMAIN kind)
  /\ badfree \in BOOLEAN /\ crashed \in BOOLEAN

CallerOK ==
  /\ Caller \in live /\ kind[Caller] = "caller"
  /\ \A o \in DOMAIN kind : kind[o] = "caller" => o = Caller

PartsOK   == \A e \in points : <<kind[e[1]], kind[e[2]]>> \in Parts
OneHolder == \A e, f \in points : e[2] = f[2] => kind[e[2]] \in Shared \/ e[1] = f[1]
KeptLive  == \A o \in DOMAIN kind : kind[o] \in Kept => o \in live
LentOK    == \A o \in DOMAIN kind : kind[o] \in Lent => <<Caller, o>> \in points

IInv == TypeOK /\ CallerOK /\ PartsOK /\ OneHolder /\ KeptLive /\ LentOK /\ HeldIsLive

(* What a call must see to when it makes its change. *)
FreesItsOwn(freed) ==
  /\ freed \subseteq live
  /\ \A o \in freed : kind[o] \notin Kept

SetsWell(new, set) ==
  /\ new \in Seq(Kind)
  /\ set \subseteq (DOMAIN kind') \X (DOMAIN kind')
  /\ \A e \in set : <<kind'[e[1]], kind'[e[2]]>> \in Parts
  /\ \A e \in set : e[2] \in DOMAIN kind => kind[e[2]] \in Shared /\ e[2] \in live \ Lost
  /\ \A e, f \in set : e[2] = f[2] => kind'[e[2]] \in Shared \/ e[1] = f[1]
  /\ \A i \in DOMAIN new : new[i] \in Lent => <<Caller, NewObject(i)>> \in set

ClearsAll(freed, cleared) ==
  /\ \A e \in points \ cleared : e[2] \in freed => e[1] \in freed \cup Lost'
  /\ \A e \in cleared : kind[e[2]] \in Lent => e[1] # Caller

LosesOnly(new, freed, cleared, set) ==
  /\ \A e \in points : e[1] \in freed /\ e[2] \notin freed =>
       <<kind[e[1]], kind[e[2]]>> \in Dropped
  /\ \A e \in points \cap cleared : e[1] \notin freed /\ e[2] \notin freed =>
       <<kind[e[1]], kind[e[2]]>> \in Forgotten \cup ({"process"} \X Lent)
  /\ \A i \in DOMAIN new :
       \/ new[i] \in {"configerror", "command", "process"}
       \/ \E e \in set : e[1] \in live' /\ e[2] = NewObject(i)

Sound(new, freed, cleared, set) ==
  /\ FreesItsOwn(freed) /\ SetsWell(new, set) /\ ClearsAll(freed, cleared)
  /\ LosesOnly(new, freed, cleared, set)

-----------------------------------------------------------------------------
LEMMA ConcatFacts ==
  ASSUME NEW S, NEW s \in Seq(S), NEW t \in Seq(S)
  PROVE  /\ s \o t \in Seq(S) /\ Len(s \o t) = Len(s) + Len(t)
         /\ DOMAIN s = 1..Len(s) /\ DOMAIN t = 1..Len(t)
         /\ DOMAIN (s \o t) = 1..(Len(s) + Len(t))
         /\ Len(s) \in Nat /\ Len(t) \in Nat
         /\ \A i \in 1..(Len(s) + Len(t)) :
              (s \o t)[i] = IF i <= Len(s) THEN s[i] ELSE t[i - Len(s)]
OBVIOUS

(* The objects after a change: those of before and the new ones. *)
LEMMA ChangeFacts ==
  ASSUME TypeOK, NEW new \in Seq(Kind), NEW freed, NEW cleared, NEW set,
         Change(new, freed, cleared, set)
  PROVE  /\ kind' \in Seq({"caller"} \cup Kind)
         /\ Len(kind) \in Nat /\ Len(new) \in Nat
         /\ DOMAIN kind = 1..Len(kind) /\ DOMAIN new = 1..Len(new)
         /\ DOMAIN kind' = 1..(Len(kind) + Len(new))
         /\ \A o \in DOMAIN kind : o \in DOMAIN kind' /\ kind'[o] = kind[o]
         /\ \A i \in DOMAIN new :
              /\ NewObject(i) \in DOMAIN kind' \ DOMAIN kind
              /\ kind'[NewObject(i)] = new[i]
         /\ \A o \in DOMAIN kind' \ DOMAIN kind :
              \E i \in DOMAIN new : o = NewObject(i) /\ kind'[o] = new[i]
<1> DEFINE K == {"caller"} \cup Kind
<1>1. kind \in Seq(K) /\ new \in Seq(K) /\ kind' = kind \o new
  BY DEF TypeOK, Change
<1> HIDE DEF K
<1>2. /\ kind' \in Seq(K) /\ Len(kind) \in Nat /\ Len(new) \in Nat
      /\ DOMAIN kind = 1..Len(kind) /\ DOMAIN new = 1..Len(new)
      /\ DOMAIN kind' = 1..(Len(kind) + Len(new))
      /\ \A i \in 1..(Len(kind) + Len(new)) :
           kind'[i] = IF i <= Len(kind) THEN kind[i] ELSE new[i - Len(kind)]
  BY <1>1, ConcatFacts
<1>3. \A i \in DOMAIN new :
        /\ NewObject(i) \in DOMAIN kind' \ DOMAIN kind
        /\ kind'[NewObject(i)] = new[i]
  <2> TAKE i \in DOMAIN new
  <2>1. i \in 1..Len(new) /\ Len(kind) + i \in 1..(Len(kind) + Len(new)) /\ ~(Len(kind) + i <= Len(kind))
        /\ (Len(kind) + i) - Len(kind) = i
    BY <1>2
  <2>2. kind'[Len(kind) + i] = new[i]
    BY <1>2, <2>1
  <2> QED
    BY <1>2, <2>1, <2>2 DEF NewObject
<1>4. \A o \in DOMAIN kind' \ DOMAIN kind :
        \E i \in DOMAIN new : o = NewObject(i) /\ kind'[o] = new[i]
  <2> TAKE o \in DOMAIN kind' \ DOMAIN kind
  <2>1. o \in 1..(Len(kind) + Len(new)) /\ ~(o <= Len(kind)) /\ o - Len(kind) \in 1..Len(new)
        /\ o = Len(kind) + (o - Len(kind))
    BY <1>2
  <2>2. kind'[o] = new[o - Len(kind)]
    BY <1>2, <2>1
  <2> QED
    BY <1>2, <2>1, <2>2 DEF NewObject
<1>5. \A o \in DOMAIN kind : o \in DOMAIN kind' /\ kind'[o] = kind[o]
  BY <1>2
<1> QED
  BY <1>2, <1>3, <1>4, <1>5 DEF K

(* What is reached from what is not lost is not lost, nor freed. *)
LEMMA FieldHeld ==
  ASSUME IInv, NEW h \in live \ Lost, NEW name, NEW o \in Field(h, name)
  PROVE  /\ o \in live \ Lost /\ o \in DOMAIN kind /\ <<h, o>> \in points /\ kind[o] = name
BY DEF IInv, HeldIsLive, Field, Lost

LEMMA CallerHeld ==
  ASSUME IInv
  PROVE  Caller \in live \ Lost /\ Caller \in DOMAIN kind /\ kind[Caller] = "caller"
BY DEF IInv, CallerOK, TypeOK, Lost

LEMMA ConfigHeld ==
  ASSUME IInv, NEW g \in Config
  PROVE  g \in live \ Lost /\ g \in DOMAIN kind /\ kind[g] = "config"
<1>1. PICK c \in Field(Caller, "context") : g \in Field(c, "config")
  BY DEF Config
<1>2. c \in live \ Lost
  BY <1>1, CallerHeld, FieldHeld
<1> QED
  BY <1>1, <1>2, FieldHeld

LEMMA ParsecontextHeld ==
  ASSUME IInv, NEW p \in Parsecontexts
  PROVE  p \in live \ Lost /\ p \in DOMAIN kind /\ kind[p] = "parsecontext"
<1>1. PICK h \in {Caller} \cup Config : p \in Field(h, "parsecontext")
  BY DEF Parsecontexts
<1>2. h \in live \ Lost
  BY <1>1, CallerHeld, ConfigHeld
<1> QED
  BY <1>1, <1>2, FieldHeld

-----------------------------------------------------------------------------
(* A sound change keeps the invariant. *)
LEMMA SoundKeeps ==
  ASSUME IInv, NEW new, NEW freed, NEW cleared, NEW set,
         Change(new, freed, cleared, set), Sound(new, freed, cleared, set)
  PROVE  IInv'
<1>1. new \in Seq(Kind)
  BY DEF Sound, SetsWell
<1>2. /\ kind' \in Seq({"caller"} \cup Kind)
      /\ \A o \in DOMAIN kind : o \in DOMAIN kind' /\ kind'[o] = kind[o]
      /\ \A i \in DOMAIN new : NewObject(i) \in DOMAIN kind' \ DOMAIN kind /\ kind'[NewObject(i)] = new[i]
      /\ \A o \in DOMAIN kind' \ DOMAIN kind :
           \E i \in DOMAIN new : o = NewObject(i) /\ kind'[o] = new[i]
  BY <1>1, ChangeFacts DEF IInv
<1>3. /\ live' = (live \ freed) \cup {NewObject(i) : i \in DOMAIN new}
      /\ points' = (points \ cleared) \cup set
      /\ badfree' = (badfree \/ ~(freed \subseteq live)) /\ crashed' = crashed
  BY DEF Change
<1>4. \A o \in DOMAIN kind : o \in live' => o \in live /\ o \notin freed
  BY <1>2, <1>3
<1>5. \A o \in DOMAIN kind' \ DOMAIN kind : o \in live'
  BY <1>2, <1>3
<1>6. \A i \in DOMAIN new : new[i] \in Kind /\ new[i] # "caller"
  BY <1>1 DEF Kind
<1>7. TypeOK'
  <2>1. live' \subseteq DOMAIN kind'
    BY <1>2, <1>3 DEF IInv, TypeOK
  <2>2. points' \subseteq (DOMAIN kind') \X (DOMAIN kind')
    <3>1. points \subseteq (DOMAIN kind') \X (DOMAIN kind')
      BY <1>2 DEF IInv, TypeOK
    <3> QED
      BY <1>3, <3>1 DEF Sound, SetsWell
  <2> QED
    BY <1>2, <1>3, <2>1, <2>2 DEF IInv, TypeOK
<1>8. CallerOK'
  <2>1. Caller \in DOMAIN kind /\ Caller \notin freed
    BY DEF IInv, TypeOK, CallerOK, Sound, FreesItsOwn, Kept
  <2>2. \A o \in DOMAIN kind' : kind'[o] = "caller" => o \in DOMAIN kind
    BY <1>2, <1>6
  <2> QED
    BY <1>2, <1>3, <2>1, <2>2 DEF IInv, CallerOK, Caller
<1>9. PartsOK'
  <2>1. \A e \in points : e[1] \in DOMAIN kind /\ e[2] \in DOMAIN kind
    BY DEF IInv, TypeOK
  <2> QED
    BY <1>2, <1>3, <2>1 DEF IInv, PartsOK, Sound, SetsWell
<1>10. OneHolder'
  <2>1. \A e \in points : e[1] \in DOMAIN kind /\ e[2] \in DOMAIN kind
    BY DEF IInv, TypeOK
  <2> SUFFICES ASSUME NEW e \in points', NEW f \in points', e[2] = f[2]
               PROVE  kind'[e[2]] \in Shared \/ e[1] = f[1]
    BY DEF OneHolder
  <2>2. CASE e \in points /\ f \in points
    BY <1>2, <2>1, <2>2 DEF IInv, OneHolder
  <2>3. CASE e \in set /\ f \in set
    BY <2>3 DEF Sound, SetsWell
  <2>4. CASE e \in set /\ f \in points
    BY <1>2, <2>1, <2>4 DEF Sound, SetsWell
  <2>5. CASE e \in points /\ f \in set
    BY <1>2, <2>1, <2>5 DEF Sound, SetsWell
  <2> QED
    BY <1>3, <2>2, <2>3, <2>4, <2>5
<1>11. KeptLive'
  BY <1>2, <1>3, <1>5 DEF IInv, KeptLive, Sound, FreesItsOwn
<1>12. LentOK'
  <2> SUFFICES ASSUME NEW o \in DOMAIN kind', kind'[o] \in Lent
               PROVE  <<Caller, o>> \in points'
    BY DEF LentOK, Caller
  <2>1. CASE o \in DOMAIN kind
    <3>1. kind[o] \in Lent /\ <<Caller, o>> \in points
      BY <1>2, <2>1 DEF IInv, LentOK
    <3>2. <<Caller, o>> \notin cleared
      BY <3>1 DEF Sound, ClearsAll
    <3> QED
      BY <1>3, <3>1, <3>2
  <2>2. CASE o \notin DOMAIN kind
    BY <1>2, <1>3, <2>2 DEF Sound, SetsWell
  <2> QED
    BY <2>1, <2>2
<1>13. HeldIsLive'
  <2>1. ~badfree'
    BY <1>3 DEF IInv, HeldIsLive, Sound, FreesItsOwn
  <2>2. \A e \in points : e[1] \in DOMAIN kind /\ e[2] \in DOMAIN kind
    BY DEF IInv, TypeOK
  <2>3. ASSUME NEW o \in DOMAIN kind, o \in live' \ Lost'
        PROVE  o \in live \ Lost
    <3>1. o \in live
      BY <1>4, <2>3
    <3>2. CASE o = Caller
      BY <3>1, <3>2 DEF Lost
    <3>3. CASE o # Caller
      <4>1. PICK h \in live' : <<h, o>> \in points'
        BY <2>3, <3>3 DEF Lost, Caller
      <4>2. CASE <<h, o>> \in points
        <5>1. h \in live
          BY <1>4, <2>2, <4>1, <4>2
        <5> QED
          BY <3>1, <4>2, <5>1 DEF Lost
      <4>3. CASE <<h, o>> \in set
        BY <2>3, <4>3 DEF Sound, SetsWell
      <4> QED
        BY <1>3, <4>1, <4>2, <4>3
    <3> QED
      BY <3>2, <3>3
  <2>4. ASSUME NEW e \in points', e[1] \in live' \ Lost'
        PROVE  e[2] \in live'
    <3>1. CASE e \in set
      <4>1. e[2] \in DOMAIN kind'
        BY <3>1 DEF Sound, SetsWell
      <4>2. CASE e[2] \in DOMAIN kind
        <5>1. kind[e[2]] \in Shared /\ e[2] \in live
          BY <3>1, <4>2 DEF Sound, SetsWell
        <5>2. e[2] \notin freed
          BY <5>1 DEF Sound, FreesItsOwn, Kept
        <5> QED
          BY <1>3, <5>1, <5>2
      <4> QED
        BY <1>5, <4>1, <4>2
    <3>2. CASE e \in points \ cleared
      <4>1. e[1] \in live \ Lost
        BY <2>2, <2>3, <2>4, <3>2
      <4>2. e[2] \in live
        BY <3>2, <4>1 DEF IInv, HeldIsLive
      <4>3. e[1] \notin freed /\ e[1] \notin Lost'
        BY <1>4, <2>2, <2>4, <3>2
      <4>4. e[2] \notin freed
        BY <3>2, <4>3 DEF Sound, ClearsAll
      <4> QED
        BY <1>3, <4>2, <4>4
    <3> QED
      BY <1>3, <2>4, <3>1, <3>2
  <2> QED
    BY <2>1, <2>4 DEF HeldIsLive
<1> QED
  BY <1>7, <1>8, <1>9, <1>10, <1>11, <1>12, <1>13 DEF IInv

(* A sound change loses nothing but what is known. *)
LEMMA SoundLoses ==
  ASSUME IInv, NEW new, NEW freed, NEW cleared, NEW set,
         Change(new, freed, cleared, set), Sound(new, freed, cleared, set)
  PROVE  \A o \in Lost' \ Lost : KnownLoss(o)
<1>1. new \in Seq(Kind)
  BY DEF Sound, SetsWell
<1>2. /\ \A o \in DOMAIN kind : o \in DOMAIN kind' /\ kind'[o] = kind[o]
      /\ \A i \in DOMAIN new : NewObject(i) \in DOMAIN kind' \ DOMAIN kind /\ kind'[NewObject(i)] = new[i]
  BY <1>1, ChangeFacts DEF IInv
<1>3. /\ live' = (live \ freed) \cup {NewObject(i) : i \in DOMAIN new}
      /\ points' = (points \ cleared) \cup set
  BY DEF Change
<1>4. IInv'
  BY SoundKeeps
<1> TAKE o \in Lost' \ Lost
<1>5. o \in live' /\ o # Caller /\ \A h \in live' : <<h, o>> \notin points'
  BY DEF Lost, Caller
<1>6. CASE o \notin DOMAIN kind
  <2>1. PICK i \in DOMAIN new : o = NewObject(i)
    BY <1>3, <1>5, <1>6 DEF IInv, TypeOK
  <2>2. new[i] \in {"configerror", "command", "process"}
    <3>1. SUFFICES ASSUME NEW e \in set, e[1] \in live', e[2] = NewObject(i)
                   PROVE  FALSE
      BY DEF Sound, LosesOnly
    <3>2. e = <<e[1], e[2]>>
      BY <3>1 DEF Sound, SetsWell
    <3> QED
      BY <1>3, <1>5, <2>1, <3>1, <3>2
  <2> QED
    BY <1>2, <1>6, <2>1, <2>2 DEF KnownLoss
<1>7. CASE o \in DOMAIN kind
  <2>1. o \in live /\ o \notin freed
    BY <1>2, <1>3, <1>5, <1>7
  <2>2. PICK h \in live : <<h, o>> \in points
    BY <1>5, <2>1 DEF Lost
  <2>3. h \in DOMAIN kind
    BY DEF IInv, TypeOK
  <2>4. CASE h \in live'
    <3>1. h \notin freed
      BY <1>2, <1>3, <2>3, <2>4
    <3>2. <<h, o>> \in cleared
      BY <1>3, <1>5, <2>2, <2>4
    <3>3. <<kind[h], kind[o]>> \in Forgotten \cup ({"process"} \X Lent)
      <4> DEFINE e == <<h, o>>
      <4>1. e \in points \cap cleared /\ e[1] \notin freed /\ e[2] \notin freed
        BY <2>1, <2>2, <3>1, <3>2
      <4> QED
        BY <4>1 DEF Sound, LosesOnly
    <3>4. kind[o] \notin Lent
      <4>1. SUFFICES ASSUME kind[o] \in Lent PROVE FALSE
        OBVIOUS
      <4>2. <<Caller, o>> \in points' /\ Caller \in live'
        BY <1>2, <1>4, <1>7, <4>1 DEF IInv, LentOK, CallerOK, Caller
      <4> QED
        BY <1>5, <4>2
    <3>5. <<kind[h], kind[o]>> \in Forgotten
      BY <3>3, <3>4
    <3> QED
      BY <2>2, <2>4, <3>5 DEF KnownLoss
  <2>5. CASE h \notin live'
    <3>1. h \in freed
      BY <1>3, <2>5
    <3>2. <<kind[h], kind[o]>> \in Dropped
      <4> DEFINE e == <<h, o>>
      <4>1. e \in points /\ e[1] \in freed /\ e[2] \notin freed
        BY <2>1, <2>2, <3>1
      <4> QED
        BY <4>1 DEF Sound, LosesOnly
    <3> QED
      BY <2>2, <2>5, <3>2 DEF KnownLoss
  <2> QED
    BY <2>4, <2>5
<1> QED
  BY <1>6, <1>7

-----------------------------------------------------------------------------
(* Changes that only add, clear fields and lead to nothing old. *)
LEMMA AddsSound ==
  ASSUME IInv, NEW new \in Seq(Kind), NEW cleared, NEW set, Change(new, {}, cleared, set),
         set \subseteq (DOMAIN kind') \X (DOMAIN kind' \ DOMAIN kind),
         \A e \in set : <<kind'[e[1]], kind'[e[2]]>> \in Parts,
         \A e, f \in set : e[2] = f[2] => kind'[e[2]] \in Shared \/ e[1] = f[1],
         \A i \in DOMAIN new : new[i] \in Lent => <<Caller, NewObject(i)>> \in set,
         \A e \in cleared : <<kind[e[1]], kind[e[2]]>> \in Forgotten,
         \A i \in DOMAIN new :
           \/ new[i] \in {"configerror", "command", "process"}
           \/ \E e \in set : e[1] \in live' /\ e[2] = NewObject(i)
  PROVE  Sound(new, {}, cleared, set)
<1>1. FreesItsOwn({})
  BY DEF FreesItsOwn
<1>2. SetsWell(new, set)
  BY DEF SetsWell
<1>3. ClearsAll({}, cleared)
  BY DEF ClearsAll, Forgotten, Lent
<1>4. LosesOnly(new, {}, cleared, set)
  BY DEF LosesOnly
<1> QED
  BY <1>1, <1>2, <1>3, <1>4 DEF Sound

(* Changes that only free and clear. *)
LEMMA FreesSound ==
  ASSUME IInv, NEW freed, NEW cleared,
         FreesItsOwn(freed), ClearsAll(freed, cleared), LosesOnly(<<>>, freed, cleared, {})
  PROVE  Sound(<<>>, freed, cleared, {})
BY DEF Sound, SetsWell

LEMMA OneOfKind ==
  ASSUME NEW name \in Kind
  PROVE  <<name>> \in Seq(Kind) /\ DOMAIN <<name>> = {1} /\ <<name>>[1] = name
OBVIOUS

(* One new object, a part of one that is held. *)
LEMMA AddOneSound ==
  ASSUME IInv, NEW name \in Kind \ Lent, NEW h \in live,
         <<kind[h], name>> \in Parts,
         Change(<<name>>, {}, {}, {<<h, NewObject(1)>>})
  PROVE  Sound(<<name>>, {}, {}, {<<h, NewObject(1)>>})
<1> DEFINE new == <<name>>
           set == {<<h, NewObject(1)>>}
<1>1. new \in Seq(Kind) /\ DOMAIN new = {1} /\ new[1] = name
  BY OneOfKind
<1>2. Change(new, {}, {}, set)
  OBVIOUS
<1> HIDE DEF new
<1>3. h \in DOMAIN kind /\ h \in live'
  BY <1>2 DEF IInv, TypeOK, Change
<1>4. /\ h \in DOMAIN kind' /\ kind'[h] = kind[h]
      /\ NewObject(1) \in DOMAIN kind' \ DOMAIN kind /\ kind'[NewObject(1)] = name
  BY <1>1, <1>2, <1>3, ChangeFacts DEF IInv
<1>5. \A e \in set : e[1] = h /\ e[2] = NewObject(1)
  OBVIOUS
<1>6. \E e \in set : e[1] = h /\ e[2] = NewObject(1)
  OBVIOUS
<1>7. set \subseteq (DOMAIN kind') \X (DOMAIN kind' \ DOMAIN kind)
  BY <1>4
<1> HIDE DEF set
<1>8. \A e \in set : <<kind'[e[1]], kind'[e[2]]>> \in Parts
  BY <1>4, <1>5
<1>9. \A i \in DOMAIN new : new[i] \notin Lent /\ \E e \in set : e[1] \in live' /\ e[2] = NewObject(i)
  BY <1>1, <1>3, <1>6
<1>10. Sound(new, {}, {}, set)
  BY <1>1, <1>2, <1>5, <1>7, <1>8, <1>9, AddsSound
<1> QED
  BY <1>10 DEF new, set

LEMMA NewOfCallerSound ==
  ASSUME IInv, NEW name \in {"context", "parsecontext", "command", "process"}, NewOfCaller(name)
  PROVE  Sound(<<name>>, {}, {}, {<<Caller, NewObject(1)>>})
<1>1. name \in Kind \ Lent /\ <<"caller", name>> \in Parts
  BY DEF Kind, Lent, Parts, Forgotten
<1>2. Change(<<name>>, {}, {}, {<<Caller, NewObject(1)>>})
  BY DEF NewOfCaller
<1> QED
  BY <1>1, <1>2, CallerHeld, AddOneSound

LEMMA AddToOwnSound ==
  ASSUME IInv, NEW owner \in {"command", "process"}, NEW o \in Field(Caller, owner),
         Change(<<"args">>, {}, {}, {<<o, NewObject(1)>>})
  PROVE  Sound(<<"args">>, {}, {}, {<<o, NewObject(1)>>})
<1>1. "args" \in Kind \ Lent /\ <<owner, "args">> \in Parts
  BY DEF Kind, Lent, Parts
<1>2. o \in live /\ kind[o] = owner
  BY CallerHeld, FieldHeld
<1> QED
  BY <1>1, <1>2, AddOneSound

LEMMA AddOfCallerSound ==
  ASSUME IInv, NEW name \in Lent, NEW o \in Field(Caller, "process"),
         Change(<<name>>, {}, {}, {<<o, NewObject(1)>>, <<Caller, NewObject(1)>>})
  PROVE  Sound(<<name>>, {}, {}, {<<o, NewObject(1)>>, <<Caller, NewObject(1)>>})
<1> DEFINE new == <<name>>
           set == {<<o, NewObject(1)>>, <<Caller, NewObject(1)>>}
<1>1. new \in Seq(Kind) /\ DOMAIN new = {1} /\ new[1] = name
  BY OneOfKind DEF Kind, Lent
<1>2. Change(new, {}, {}, set)
  OBVIOUS
<1> HIDE DEF new
<1>3. o \in live /\ o \in DOMAIN kind /\ kind[o] = "process"
  BY CallerHeld, FieldHeld
<1>4. /\ o \in DOMAIN kind' /\ kind'[o] = "process"
      /\ Caller \in DOMAIN kind' /\ kind'[Caller] = "caller"
      /\ NewObject(1) \in DOMAIN kind' \ DOMAIN kind /\ kind'[NewObject(1)] = name
  BY <1>1, <1>2, <1>3, CallerHeld, ChangeFacts DEF IInv
<1>5. Caller \in live'
  BY <1>2, CallerHeld DEF Change
<1>6. <<"process", name>> \in Parts /\ <<"caller", name>> \in Parts /\ name \in Shared
  BY DEF Parts, Lent, Shared
<1>7. \A e \in set : e[2] = NewObject(1) /\ e[1] \in {o, Caller}
  OBVIOUS
<1>8. <<Caller, NewObject(1)>> \in set
  OBVIOUS
<1>9. set \subseteq (DOMAIN kind') \X (DOMAIN kind' \ DOMAIN kind)
  BY <1>4
<1> HIDE DEF set
<1>10. \A e \in set : <<kind'[e[1]], kind'[e[2]]>> \in Parts
  BY <1>4, <1>6, <1>7
<1>11. \A i \in DOMAIN new : \E e \in set : e[1] \in live' /\ e[2] = NewObject(i)
  BY <1>1, <1>5, <1>8
<1>12. Sound(new, {}, {}, set)
  BY <1>1, <1>2, <1>4, <1>6, <1>7, <1>8, <1>9, <1>10, <1>11, AddsSound
<1> QED
  BY <1>12 DEF new, set

LEMMA ContextInitSound ==
  ASSUME IInv, NEW c \in Field(Caller, "context"),
         NEW got \in {<<>>, <<"config">>, <<"arguments">>, <<"config", "arguments">>},
         Change(got, {}, EdgesOf(c, {"config", "arguments"}),
                EdgesTo(c, {NewObject(i) : i \in DOMAIN got}))
  PROVE  Sound(got, {}, EdgesOf(c, {"config", "arguments"}),
               EdgesTo(c, {NewObject(i) : i \in DOMAIN got}))
<1> DEFINE set == EdgesTo(c, {NewObject(i) : i \in DOMAIN got})
           cleared == EdgesOf(c, {"config", "arguments"})
<1>1. got \in Seq(Kind) /\ \A i \in DOMAIN got : got[i] \in {"config", "arguments"}
  <2>1. CASE got = <<>>
    BY <2>1
  <2>2. CASE got \in {<<"config">>, <<"arguments">>}
    BY <2>2, OneOfKind DEF Kind
  <2>3. CASE got = <<"config", "arguments">>
    BY <2>3 DEF Kind
  <2> QED
    BY <2>1, <2>2, <2>3
<1>2. c \in live /\ c \in DOMAIN kind /\ kind[c] = "context"
  BY CallerHeld, FieldHeld
<1>3. /\ c \in DOMAIN kind' /\ kind'[c] = "context"
      /\ \A i \in DOMAIN got :
           NewObject(i) \in DOMAIN kind' \ DOMAIN kind /\ kind'[NewObject(i)] = got[i]
  BY <1>1, <1>2, ChangeFacts DEF IInv
<1>4. c \in live'
  BY <1>2 DEF Change
<1>5. \A e \in set : e[1] = c /\ \E i \in DOMAIN got : e[2] = NewObject(i)
  BY DEF EdgesTo
<1>6. \A i \in DOMAIN got : \E e \in set : e[1] = c /\ e[2] = NewObject(i)
  <2> TAKE i \in DOMAIN got
  <2>1. <<c, NewObject(i)>> \in set
    BY DEF EdgesTo
  <2> QED
    BY <2>1
<1>7. set \subseteq (DOMAIN kind') \X (DOMAIN kind' \ DOMAIN kind)
  BY <1>3 DEF EdgesTo
<1>8. \A e \in cleared : <<kind[e[1]], kind[e[2]]>> \in Forgotten
  BY <1>2 DEF EdgesOf, Forgotten
<1>9. Change(got, {}, cleared, set)
  OBVIOUS
<1> HIDE DEF set, cleared
<1>10. \A e \in set : <<kind'[e[1]], kind'[e[2]]>> \in Parts
  BY <1>1, <1>3, <1>5 DEF Parts, Forgotten
<1>11. \A i \in DOMAIN got : got[i] \notin Lent
  BY <1>1 DEF Lent
<1>12. Sound(got, {}, cleared, set)
  BY <1>1, <1>4, <1>5, <1>6, <1>7, <1>8, <1>9, <1>10, <1>11, AddsSound
<1> QED
  BY <1>12 DEF set, cleared

LEMMA ContextFreeSound ==
  ASSUME IInv, NEW c \in Field(Caller, "context")
  PROVE  Sound(<<>>, {c} \cup Field(c, "config") \cup Field(c, "arguments"),
               EdgesTo(Caller, {c}), {})
<1> DEFINE freed == {c} \cup Field(c, "config") \cup Field(c, "arguments")
           cleared == EdgesTo(Caller, {c})
<1>1. c \in live \ Lost /\ c \in DOMAIN kind /\ kind[c] = "context" /\ <<Caller, c>> \in points
  BY CallerHeld, FieldHeld
<1>2. \A name : \A o \in Field(c, name) : /\ o \in live /\ kind[o] = name /\ <<c, o>> \in points
  BY <1>1, FieldHeld
<1>3. FreesItsOwn(freed)
  BY <1>1, <1>2 DEF FreesItsOwn, Kept, Shared, Lent
<1>4. ASSUME NEW e \in points, e[2] \in freed
      PROVE  e \in cleared \/ e[1] \in freed
  <2>1. CASE e[2] = c
    <3>1. <<Caller, c>>[2] = e[2] /\ <<Caller, c>>[1] = Caller
      BY <2>1
    <3>2. e[1] = Caller
      BY <1>1, <2>1, <3>1 DEF IInv, OneHolder, Shared, Lent
    <3> QED
      BY <2>1, <3>2 DEF EdgesTo, IInv, TypeOK
  <2>2. CASE e[2] # c
    <3>1. <<c, e[2]>> \in points /\ kind[e[2]] \in {"config", "arguments"}
      BY <1>2, <1>4, <2>2
    <3>2. <<c, e[2]>>[2] = e[2] /\ <<c, e[2]>>[1] = c
      OBVIOUS
    <3>3. e[1] = c
      BY <3>1, <3>2 DEF IInv, OneHolder, Shared, Lent
    <3> QED
      BY <3>3
  <2> QED
    BY <2>1, <2>2
<1>5. ClearsAll(freed, cleared)
  BY <1>1, <1>4 DEF ClearsAll, EdgesTo, Lent
<1>6. LosesOnly(<<>>, freed, cleared, {})
  <2>1. ASSUME NEW e \in points, e[1] \in freed, e[2] \notin freed
        PROVE  <<kind[e[1]], kind[e[2]]>> \in Dropped
    <3>1. <<kind[e[1]], kind[e[2]]>> \in Parts /\ e[2] \in DOMAIN kind /\ e = <<e[1], e[2]>>
      BY DEF IInv, PartsOK, TypeOK
    <3>2. CASE e[1] = c
      <4>1. kind[e[2]] \in {"config", "arguments"}
        BY <1>1, <3>1, <3>2 DEF Parts, Dropped, Forgotten
      <4>2. e[2] \in Field(c, kind[e[2]])
        BY <3>1, <3>2 DEF Field
      <4> QED
        BY <2>1, <4>1, <4>2
    <3>3. CASE e[1] # c
      <4>1. kind[e[1]] \in {"config", "arguments"}
        BY <1>2, <2>1, <3>3
      <4> QED
        BY <3>1, <4>1 DEF Parts, Dropped, Forgotten
    <3> QED
      BY <3>2, <3>3
  <2>2. \A e \in cleared : e[2] \in freed
    BY DEF EdgesTo
  <2>3. DOMAIN <<>> = {}
    OBVIOUS
  <2> HIDE DEF freed, cleared
  <2> QED
    BY <2>1, <2>2, <2>3 DEF LosesOnly
<1> QED
  BY <1>3, <1>5, <1>6, FreesSound

-----------------------------------------------------------------------------
LEMMA InitialFacts ==
  ASSUME NEW got \in Initial
  PROVE  /\ got \in Seq(Kind) /\ Len(got) \in Nat /\ DOMAIN got = 1..Len(got)
         /\ \A i \in DOMAIN got : got[i] \in {"configfile_path", "stream", "linetoken", "token"}
         /\ \A i \in DOMAIN got : got[i] = "token" => 3 \in DOMAIN got /\ got[3] = "linetoken"
<1> DEFINE K == {"configfile_path", "stream", "linetoken", "token"}
<1>1. K \subseteq Kind
  BY DEF Kind
<1>2. /\ got \in Seq(K) /\ Len(got) \in Nat /\ DOMAIN got = 1..Len(got)
      /\ \A i \in DOMAIN got : got[i] = "token" => 3 \in DOMAIN got /\ got[3] = "linetoken"
  <2>1. Assigned \in Seq(K) /\ Len(Assigned) = 3 /\ Assigned[1] = "configfile_path"
        /\ Assigned[2] = "stream" /\ Assigned[3] = "linetoken"
    BY DEF Assigned
  <2>2. ASSUME NEW n \in 0..2, got = SubSeq(Assigned, 1, n)
        PROVE  <1>2
    <3>1. /\ got \in Seq(K) /\ Len(got) = n /\ DOMAIN got = 1..n
          /\ \A i \in 1..n : got[i] = Assigned[i]
      BY <2>1, <2>2 DEF Assigned
    <3>2. \A i \in 1..n : Assigned[i] # "token"
      BY <2>1
    <3> QED
      BY <3>1, <3>2
  <2>3. ASSUME NEW n \in Tokens, got = Assigned \o [i \in 1..n |-> "token"]
        PROVE  <1>2
    <3> DEFINE t == [i \in 1..n |-> "token"]
    <3>1. n \in Nat
      BY OwnershipAssumption, <2>3 DEF Tokens
    <3>2. t \in Seq(K) /\ Len(t) = n
      BY <3>1
    <3> HIDE DEF t, K
    <3>3. got = Assigned \o t
      BY <2>3 DEF t
    <3>4. /\ got \in Seq(K) /\ Len(got) = 3 + n /\ DOMAIN got = 1..(3 + n)
          /\ \A i \in 1..(3 + n) : i <= 3 => got[i] = Assigned[i]
      <4>1. /\ got \in Seq(K) /\ Len(got) = Len(Assigned) + Len(t)
            /\ DOMAIN got = 1..(Len(Assigned) + Len(t))
            /\ \A i \in 1..(Len(Assigned) + Len(t)) :
                 got[i] = IF i <= Len(Assigned) THEN Assigned[i] ELSE t[i - Len(Assigned)]
        <5>1. Assigned \in Seq(K) /\ t \in Seq(K)
          BY <2>1, <3>2
        <5> QED
          BY <3>3, <5>1, ConcatFacts
      <4> QED
        BY <2>1, <3>2, <4>1
    <3>5. 3 \in 1..(3 + n) /\ 3 + n \in Nat
      BY <3>1
    <3>6. got[3] = "linetoken"
      BY <2>1, <3>4, <3>5
    <3> QED
      BY <3>4, <3>5, <3>6
  <2> QED
    BY <2>2, <2>3 DEF Initial
<1> HIDE DEF K
<1>3. \A i \in DOMAIN got : got[i] \in K
  BY <1>2
<1>4. got \in Seq(Kind)
  BY <1>1, <1>2
<1> QED
  BY <1>2, <1>3, <1>4 DEF K

(* The pointers that an initialisation sets; d objects are made before.    *)
SetsGot(made, got, d) ==
  /\ made \subseteq (DOMAIN kind') \X (DOMAIN kind' \ DOMAIN kind)
  /\ \A e \in made : /\ <<kind'[e[1]], kind'[e[2]]>> \in Parts
                     /\ \E i \in DOMAIN got : e[2] = NewObject(d + i)
  /\ \A e, f \in made : e[2] = f[2] => e[1] = f[1]
  /\ \A i \in DOMAIN got : \E e \in made : e[1] \in live' /\ e[2] = NewObject(d + i)

LEMMA InitialisedFacts ==
  ASSUME IInv, NEW got \in Initial, NEW d \in {0, 1}, NEW p \in DOMAIN kind', NEW new \in Seq(Kind),
         NEW cleared, NEW set, Change(new, {}, cleared, set),
         p \in live', kind'[p] = "parsecontext",
         \A i \in DOMAIN got : d + i \in DOMAIN new /\ new[d + i] = got[i]
  PROVE  SetsGot(Initialised(p, got, Len(kind) + d), got, d)
<1> DEFINE made == Initialised(p, got, Len(kind) + d)
           token(i) == got[i] = "token"
<1>1. /\ Len(got) \in Nat /\ DOMAIN got = 1..Len(got)
      /\ \A i \in DOMAIN got : got[i] \in {"configfile_path", "stream", "linetoken", "token"}
      /\ \A i \in DOMAIN got : token(i) => 3 \in DOMAIN got /\ got[3] = "linetoken"
  BY InitialFacts
<1>2. /\ Len(kind) \in Nat
      /\ \A i \in DOMAIN new :
           NewObject(i) \in DOMAIN kind' \ DOMAIN kind /\ kind'[NewObject(i)] = new[i]
  BY ChangeFacts DEF IInv
<1>3. \A i \in DOMAIN got :
        /\ (Len(kind) + d) + i = NewObject(d + i)
        /\ NewObject(d + i) \in DOMAIN kind' \ DOMAIN kind
        /\ kind'[NewObject(d + i)] = got[i]
        /\ NewObject(d + i) \in live'
  <2> TAKE i \in DOMAIN got
  <2>1. (Len(kind) + d) + i = NewObject(d + i)
    BY <1>1, <1>2 DEF NewObject
  <2>2. NewObject(d + i) \in live'
    BY DEF Change
  <2> QED
    BY <1>2, <2>1, <2>2
<1>4. \A i, j \in DOMAIN got : NewObject(d + i) = NewObject(d + j) => i = j
  BY <1>1, <1>2 DEF NewObject
<1>5. \A e \in made :
        \E i \in DOMAIN got :
          \/ ~token(i) /\ e = <<p, NewObject(d + i)>>
          \/ token(i) /\ 3 \in DOMAIN got /\ e = <<NewObject(d + 3), NewObject(d + i)>>
  <2> SUFFICES ASSUME NEW e \in made
               PROVE  <1>5!(e)
    OBVIOUS
  <2>1. PICK i \in DOMAIN got :
          \/ ~token(i) /\ e = <<p, (Len(kind) + d) + i>>
          \/ token(i) /\ e = <<(Len(kind) + d) + 3, (Len(kind) + d) + i>>
    BY DEF Initialised
  <2>2. token(i) => 3 \in DOMAIN got
    BY <1>1
  <2> HIDE DEF token, made
  <2> QED
    BY <1>3, <2>1, <2>2
<1>6. \A i \in DOMAIN got :
        \/ ~token(i) /\ <<p, NewObject(d + i)>> \in made
        \/ token(i) /\ 3 \in DOMAIN got /\ <<NewObject(d + 3), NewObject(d + i)>> \in made
  BY <1>1, <1>3 DEF Initialised
<1> HIDE DEF made
<1>7. made \subseteq (DOMAIN kind') \X (DOMAIN kind' \ DOMAIN kind)
  BY <1>3, <1>5
<1>8. \A e \in made : /\ <<kind'[e[1]], kind'[e[2]]>> \in Parts
                      /\ \E i \in DOMAIN got : e[2] = NewObject(d + i)
  <2> TAKE e \in made
  <2>1. PICK i \in DOMAIN got :
          \/ ~token(i) /\ e = <<p, NewObject(d + i)>>
          \/ token(i) /\ 3 \in DOMAIN got /\ e = <<NewObject(d + 3), NewObject(d + i)>>
    BY <1>5
  <2>2. CASE ~token(i)
    <3>1. kind'[e[1]] = "parsecontext" /\ kind'[e[2]] \in {"configfile_path", "stream", "linetoken"}
      BY <1>1, <1>3, <2>1, <2>2
    <3> QED
      BY <2>1, <2>2, <3>1 DEF Parts, Forgotten
  <2>3. CASE token(i)
    <3>1. kind'[e[1]] = "linetoken" /\ kind'[e[2]] = "token"
      BY <1>1, <1>3, <2>1, <2>3
    <3> QED
      BY <2>1, <2>3, <3>1 DEF Parts
  <2> QED
    BY <2>2, <2>3
<1>9. \A e, f \in made : e[2] = f[2] => e[1] = f[1]
  <2> SUFFICES ASSUME NEW e \in made, NEW f \in made, e[2] = f[2] PROVE e[1] = f[1]
    OBVIOUS
  <2>1. PICK i \in DOMAIN got :
          \/ ~token(i) /\ e = <<p, NewObject(d + i)>>
          \/ token(i) /\ 3 \in DOMAIN got /\ e = <<NewObject(d + 3), NewObject(d + i)>>
    BY <1>5
  <2>2. PICK j \in DOMAIN got :
          \/ ~token(j) /\ f = <<p, NewObject(d + j)>>
          \/ token(j) /\ 3 \in DOMAIN got /\ f = <<NewObject(d + 3), NewObject(d + j)>>
    BY <1>5
  <2>3. i = j
    BY <1>4, <2>1, <2>2
  <2> QED
    BY <2>1, <2>2, <2>3
<1>10. \A i \in DOMAIN got : \E e \in made : e[1] \in live' /\ e[2] = NewObject(d + i)
  <2> TAKE i \in DOMAIN got
  <2>1. CASE ~token(i)
    <3>1. <<p, NewObject(d + i)>> \in made
      BY <1>6, <2>1
    <3> QED
      BY <3>1
  <2>2. CASE token(i)
    <3>1. 3 \in DOMAIN got /\ <<NewObject(d + 3), NewObject(d + i)>> \in made
      BY <1>6, <2>2
    <3>2. NewObject(d + 3) \in live'
      BY <1>3, <3>1
    <3> QED
      BY <3>1, <3>2
  <2> QED
    BY <2>1, <2>2
<1> QED
  BY <1>7, <1>8, <1>9, <1>10 DEF made, SetsGot

LEMMA ParsecontextInitSound ==
  ASSUME IInv, NEW p \in Parsecontexts, NEW got \in Initial,
         Change(got, {}, EdgesOf(p, Overwritten(got)), Initialised(p, got, Len(kind)))
  PROVE  Sound(got, {}, EdgesOf(p, Overwritten(got)), Initialised(p, got, Len(kind)))
<1> DEFINE cleared == EdgesOf(p, Overwritten(got))
           set == Initialised(p, got, Len(kind))
<1>1. p \in live /\ p \in DOMAIN kind /\ kind[p] = "parsecontext"
  BY ParsecontextHeld
<1>2. /\ got \in Seq(Kind) /\ Len(got) \in Nat /\ DOMAIN got = 1..Len(got)
      /\ \A i \in DOMAIN got : got[i] \in {"configfile_path", "stream", "linetoken", "token"}
  BY InitialFacts
<1>3. Change(got, {}, cleared, set)
  OBVIOUS
<1>4. \A e \in cleared : <<kind[e[1]], kind[e[2]]>> \in Forgotten
  <2>1. Overwritten(got) \subseteq {"configfile_path", "stream", "linetoken", "configerror"}
    <3>1. CASE Len(got) >= 3
      BY <3>1 DEF Overwritten, Assigned, ToSet
    <3>2. CASE ~(Len(got) >= 3)
      <4>1. \A i \in 1..Len(got) + 1 : i \in 1..3
        BY <1>2, <3>2
      <4>2. \A i \in 1..3 : Assigned[i] \in {"configfile_path", "stream", "linetoken"}
        BY DEF Assigned
      <4> QED
        BY <3>2, <4>1, <4>2 DEF Overwritten
    <3> QED
      BY <3>1, <3>2
  <2> QED
    BY <1>1, <2>1 DEF EdgesOf, Forgotten
<1> HIDE DEF cleared
<1>5. p \in DOMAIN kind' /\ kind'[p] = "parsecontext" /\ p \in live'
  <2>1. p \in live'
    BY <1>1, <1>3 DEF Change
  <2> QED
    BY <1>1, <1>2, <1>3, <2>1, ChangeFacts DEF IInv
<1>6. Len(kind) + 0 = Len(kind) /\ \A i \in DOMAIN got : 0 + i = i
  BY <1>2, <1>3, ChangeFacts DEF IInv
<1>7. /\ set \subseteq (DOMAIN kind') \X (DOMAIN kind' \ DOMAIN kind)
      /\ \A e \in set : <<kind'[e[1]], kind'[e[2]]>> \in Parts
      /\ \A e, f \in set : e[2] = f[2] => e[1] = f[1]
      /\ \A i \in DOMAIN got : \E e \in set : e[1] \in live' /\ e[2] = NewObject(i)
  <2> DEFINE d == 0
             made == Initialised(p, got, Len(kind) + d)
  <2>1. \A i \in DOMAIN got : d + i \in DOMAIN got /\ got[d + i] = got[i]
    BY <1>6
  <2>2. d \in {0, 1}
    OBVIOUS
  <2> HIDE DEF d
  <2>3. SetsGot(made, got, d)
    BY <1>2, <1>3, <1>5, <2>1, <2>2, InitialisedFacts
  <2>4. made = set /\ \A i \in DOMAIN got : d + i = i
    BY <1>6 DEF d
  <2> HIDE DEF made
  <2> QED
    BY <2>3, <2>4 DEF SetsGot
<1> HIDE DEF set
<1>8. \A i \in DOMAIN got : got[i] \notin Lent
  BY <1>2 DEF Lent
<1>9. Sound(got, {}, cleared, set)
  BY <1>2, <1>3, <1>4, <1>7, <1>8, AddsSound
<1> QED
  BY <1>9 DEF cleared, set

(* A config of which the fields are overwritten, its parse context not had *)
(* or a new one.                                                           *)
ConfigFields(g) == EdgesOf(g, {"parsecontext", "command", "process"})

LEMMA ConfigFieldsForgotten ==
  ASSUME IInv, NEW g \in Config
  PROVE  \A e \in ConfigFields(g) : <<kind[e[1]], kind[e[2]]>> \in Forgotten
<1>1. kind[g] = "config"
  BY ConfigHeld
<1> QED
  BY <1>1 DEF ConfigFields, EdgesOf, Forgotten

LEMMA ConfigClearSound ==
  ASSUME IInv, NEW g \in Config, Change(<<>>, {}, ConfigFields(g), {})
  PROVE  Sound(<<>>, {}, ConfigFields(g), {})
<1> DEFINE new == <<>>
           set == {}
<1>1. new \in Seq(Kind) /\ DOMAIN new = {}
  OBVIOUS
<1>2. Change(new, {}, ConfigFields(g), set)
  OBVIOUS
<1>3. \A e \in set : FALSE
  OBVIOUS
<1>4. set \subseteq (DOMAIN kind') \X (DOMAIN kind' \ DOMAIN kind)
  OBVIOUS
<1> HIDE DEF new, set
<1>5. Sound(new, {}, ConfigFields(g), set)
  BY <1>1, <1>2, <1>3, <1>4, ConfigFieldsForgotten, AddsSound
<1> QED
  BY <1>5 DEF new, set

LEMMA ConfigInitSound ==
  ASSUME IInv, NEW g \in Config, NEW got \in Initial,
         Change(<<"parsecontext">> \o got, {}, ConfigFields(g),
                {<<g, NewObject(1)>>} \cup Initialised(NewObject(1), got, NewObject(1)))
  PROVE  Sound(<<"parsecontext">> \o got, {}, ConfigFields(g),
               {<<g, NewObject(1)>>} \cup Initialised(NewObject(1), got, NewObject(1)))
<1> DEFINE new  == <<"parsecontext">> \o got
           made == Initialised(NewObject(1), got, NewObject(1))
           set  == {<<g, NewObject(1)>>} \cup made
<1>1. g \in live /\ g \in DOMAIN kind /\ kind[g] = "config"
  BY ConfigHeld
<1>2. /\ got \in Seq(Kind) /\ Len(got) \in Nat /\ DOMAIN got = 1..Len(got)
      /\ \A i \in DOMAIN got : got[i] \in {"configfile_path", "stream", "linetoken", "token"}
  BY InitialFacts
<1>3. Change(new, {}, ConfigFields(g), set)
  OBVIOUS
<1>4. /\ new \in Seq(Kind) /\ 1 \in DOMAIN new /\ new[1] = "parsecontext"
      /\ \A i \in DOMAIN got : 1 + i \in DOMAIN new /\ new[1 + i] = got[i]
      /\ \A i \in DOMAIN new : i = 1 \/ \E j \in DOMAIN got : i = 1 + j
  <2> DEFINE one == <<"parsecontext">>
  <2>1. one \in Seq(Kind) /\ Len(one) = 1 /\ one[1] = "parsecontext"
    BY DEF Kind
  <2> HIDE DEF one
  <2>2. /\ new \in Seq(Kind) /\ DOMAIN new = 1..(1 + Len(got))
        /\ \A i \in 1..(1 + Len(got)) : new[i] = IF i <= 1 THEN one[i] ELSE got[i - 1]
    <3>1. /\ one \o got \in Seq(Kind) /\ DOMAIN (one \o got) = 1..(Len(one) + Len(got))
          /\ \A i \in 1..(Len(one) + Len(got)) :
               (one \o got)[i] = IF i <= Len(one) THEN one[i] ELSE got[i - Len(one)]
      <4>1. one \in Seq(Kind) /\ got \in Seq(Kind)
        BY <1>2, <2>1
      <4> QED
        BY <4>1, ConcatFacts
    <3>2. new = one \o got
      BY DEF one
    <3> QED
      BY <2>1, <3>1, <3>2
  <2> HIDE DEF new
  <2>3. \A i \in DOMAIN got : 1 + i \in 1..(1 + Len(got)) /\ ~(1 + i <= 1) /\ (1 + i) - 1 = i
    BY <1>2
  <2>4. \A i \in 1..(1 + Len(got)) : i = 1 \/ (i - 1 \in 1..Len(got) /\ i = 1 + (i - 1))
    BY <1>2
  <2>5. 1 \in 1..(1 + Len(got)) /\ 1 <= 1
    BY <1>2
  <2> QED
    BY <1>2, <2>1, <2>2, <2>3, <2>4, <2>5
<1> HIDE DEF new
<1>5. /\ Len(kind) \in Nat
      /\ g \in DOMAIN kind' /\ kind'[g] = "config"
      /\ NewObject(1) \in DOMAIN kind' \ DOMAIN kind /\ kind'[NewObject(1)] = "parsecontext"
  BY <1>1, <1>3, <1>4, ChangeFacts DEF IInv
<1>6. g \in live' /\ NewObject(1) \in live'
  BY <1>1, <1>3, <1>4 DEF Change
<1>7. SetsGot(made, got, 1)
  <2> DEFINE d == 1
  <2>1. d \in {0, 1} /\ \A i \in DOMAIN got : d + i \in DOMAIN new /\ new[d + i] = got[i]
    BY <1>4
  <2> HIDE DEF d, set
  <2>2. SetsGot(Initialised(NewObject(1), got, Len(kind) + d), got, d)
    BY <1>3, <1>4, <1>5, <1>6, <2>1, InitialisedFacts
  <2>3. Len(kind) + d = NewObject(1)
    BY DEF d, NewObject
  <2> QED
    BY <2>2, <2>3 DEF d
<1>8. \A i \in DOMAIN got : NewObject(1 + i) # NewObject(1)
  BY <1>2, <1>5 DEF NewObject
<1> HIDE DEF made
<1>9. \A e \in set : \/ e[1] = g /\ e[2] = NewObject(1)
                     \/ e \in made /\ e[2] # NewObject(1)
  <2>1. \A e \in made : \E i \in DOMAIN got : e[2] = NewObject(1 + i)
    BY <1>7 DEF SetsGot
  <2>2. \A e \in made : e[2] # NewObject(1)
    BY <1>8, <2>1
  <2> QED
    BY <2>2
<1>10. set \subseteq (DOMAIN kind') \X (DOMAIN kind' \ DOMAIN kind)
  BY <1>5, <1>7 DEF SetsGot
<1>11. \A i \in DOMAIN new : \E e \in set : e[1] \in live' /\ e[2] = NewObject(i)
  <2>1. <<g, NewObject(1)>> \in set
    OBVIOUS
  <2>2. \A i \in DOMAIN got : \E e \in made : e[1] \in live' /\ e[2] = NewObject(1 + i)
    BY <1>7 DEF SetsGot
  <2>3. made \subseteq set
    OBVIOUS
  <2> HIDE DEF set
  <2> TAKE i \in DOMAIN new
  <2>4. CASE i = 1
    BY <1>6, <2>1, <2>4
  <2>5. ASSUME NEW j \in DOMAIN got, i = 1 + j
        PROVE  \E e \in set : e[1] \in live' /\ e[2] = NewObject(i)
    BY <2>2, <2>3, <2>5
  <2> QED
    BY <1>4, <2>4, <2>5
<1> HIDE DEF set
<1>12. \A e \in set : <<kind'[e[1]], kind'[e[2]]>> \in Parts
  <2>1. <<"config", "parsecontext">> \in Parts
    BY DEF Parts, Dropped
  <2>2. \A e \in made : <<kind'[e[1]], kind'[e[2]]>> \in Parts
    BY <1>7 DEF SetsGot
  <2> QED
    BY <1>5, <1>9, <2>1, <2>2
<1>13. \A e, f \in set : e[2] = f[2] => e[1] = f[1]
  <2>1. \A e, f \in made : e[2] = f[2] => e[1] = f[1]
    BY <1>7 DEF SetsGot
  <2> QED
    BY <1>9, <2>1
<1>14. \A i \in DOMAIN new : new[i] \notin Lent
  <2> TAKE i \in DOMAIN new
  <2>1. CASE i = 1
    BY <1>4, <2>1 DEF Lent
  <2>2. ASSUME NEW j \in DOMAIN got, i = 1 + j
        PROVE  new[i] \notin Lent
    BY <1>2, <1>4, <2>2 DEF Lent
  <2> QED
    BY <1>4, <2>1, <2>2
<1>15. Sound(new, {}, ConfigFields(g), set)
  BY <1>3, <1>4, <1>10, <1>11, <1>12, <1>13, <1>14, ConfigFieldsForgotten, AddsSound
<1> QED
  BY <1>15 DEF new, set, made

LEMMA AddErrorSound ==
  ASSUME IInv, NEW p \in Parsecontexts, NEW error \in {<<>>} \cup AnError,
         Change(error, {}, {}, Appended(p, error))
  PROVE  Sound(error, {}, {}, Appended(p, error))
<1> DEFINE set == Appended(p, error)
<1>1. p \in live /\ p \in DOMAIN kind /\ kind[p] = "parsecontext"
  BY ParsecontextHeld
<1>2. \/ error = <<>> /\ error \in Seq(Kind) /\ DOMAIN error = {} /\ set = {}
      \/ error \in Seq(Kind) /\ DOMAIN error = {1} /\ error[1] = "configerror" /\ set = {}
      \/ /\ error \in Seq(Kind) /\ DOMAIN error = {1, 2}
         /\ error[1] = "configerror" /\ error[2] = "error_message"
         /\ set = {<<p, NewObject(1)>>, <<NewObject(1), NewObject(2)>>}
  <2>1. CASE error = <<>>
    BY <2>1 DEF Appended
  <2>2. CASE error = <<"configerror">>
    BY <2>2 DEF Appended, Kind
  <2>3. CASE error = <<"configerror", "error_message">>
    BY <2>3 DEF Appended, Kind
  <2> QED
    BY <2>1, <2>2, <2>3 DEF AnError
<1>3. Change(error, {}, {}, set)
  OBVIOUS
<1> HIDE DEF set
<1>4. /\ error \in Seq(Kind)
      /\ p \in DOMAIN kind' /\ kind'[p] = "parsecontext" /\ p \in live'
      /\ \A i \in DOMAIN error : /\ NewObject(i) \in DOMAIN kind' \ DOMAIN kind
                                 /\ kind'[NewObject(i)] = error[i] /\ NewObject(i) \in live'
  <2>1. error \in Seq(Kind)
    BY <1>2
  <2>2. p \in live' /\ \A i \in DOMAIN error : NewObject(i) \in live'
    BY <1>1, <1>3 DEF Change
  <2>3. /\ \A o \in DOMAIN kind : o \in DOMAIN kind' /\ kind'[o] = kind[o]
        /\ \A i \in DOMAIN error : /\ NewObject(i) \in DOMAIN kind' \ DOMAIN kind
                                   /\ kind'[NewObject(i)] = error[i]
    BY <1>3, <2>1, ChangeFacts DEF IInv
  <2> QED
    BY <1>1, <2>1, <2>2, <2>3
<1>5. CASE set = {}
  <2>1. \A i \in DOMAIN error : error[i] = "configerror"
    BY <1>2, <1>5
  <2>2. \A e \in set : FALSE
    BY <1>5
  <2>3. set \subseteq (DOMAIN kind') \X (DOMAIN kind' \ DOMAIN kind)
    BY <1>5
  <2>4. Sound(error, {}, {}, set)
    BY <1>3, <1>4, <2>1, <2>2, <2>3, AddsSound DEF Lent
  <2> QED
    BY <2>4 DEF set
<1>6. CASE set # {}
  <2>1. /\ DOMAIN error = {1, 2} /\ error[1] = "configerror" /\ error[2] = "error_message"
        /\ set = {<<p, NewObject(1)>>, <<NewObject(1), NewObject(2)>>}
    BY <1>2, <1>6
  <2>2. NewObject(1) # NewObject(2)
    BY <1>4, <2>1
  <2>3. \A e \in set : \/ e[1] = p /\ e[2] = NewObject(1)
                       \/ e[1] = NewObject(1) /\ e[2] = NewObject(2)
    BY <2>1
  <2>4. set \subseteq (DOMAIN kind') \X (DOMAIN kind' \ DOMAIN kind)
    BY <1>4, <2>1
  <2>5. \A i \in DOMAIN error : \E e \in set : e[1] \in live' /\ e[2] = NewObject(i)
    <3>1. /\ <<p, NewObject(1)>> \in set /\ <<NewObject(1), NewObject(2)>> \in set
      BY <2>1
    <3> QED
      BY <1>4, <2>1, <3>1
  <2>6. <<"parsecontext", "configerror">> \in Parts /\ <<"configerror", "error_message">> \in Parts
    BY DEF Parts, Dropped, Forgotten
  <2>7. \A e \in set : <<kind'[e[1]], kind'[e[2]]>> \in Parts
    BY <1>4, <2>1, <2>3, <2>6
  <2>8. \A e, f \in set : e[2] = f[2] => e[1] = f[1]
    BY <2>2, <2>3
  <2>9. \A i \in DOMAIN error : error[i] \notin Lent
    BY <2>1 DEF Lent
  <2>10. Sound(error, {}, {}, set)
    BY <1>3, <1>4, <2>4, <2>5, <2>7, <2>8, <2>9, AddsSound
  <2> QED
    BY <2>10 DEF set
<1> QED
  BY <1>5, <1>6

LEMMA SetCommandSound ==
  ASSUME IInv, NEW o \in Field(Caller, "process"), NEW h \in {Caller} \cup Config,
         NEW c \in Field(h, "command"),
         Change(<<>>, {}, EdgesOf(o, {"command"}), {<<o, c>>})
  PROVE  Sound(<<>>, {}, EdgesOf(o, {"command"}), {<<o, c>>})
<1> DEFINE new == <<>>
           cleared == EdgesOf(o, {"command"})
           set == {<<o, c>>}
<1>1. new \in Seq(Kind) /\ DOMAIN new = {}
  OBVIOUS
<1>2. Change(new, {}, cleared, set)
  OBVIOUS
<1> HIDE DEF new
<1>3. o \in live /\ o \in DOMAIN kind /\ kind[o] = "process"
  BY CallerHeld, FieldHeld
<1>4. c \in live \ Lost /\ c \in DOMAIN kind /\ kind[c] = "command"
  BY CallerHeld, ConfigHeld, FieldHeld
<1>5. o \in DOMAIN kind' /\ c \in DOMAIN kind' /\ kind'[o] = "process" /\ kind'[c] = "command"
  BY <1>1, <1>2, <1>3, <1>4, ChangeFacts DEF IInv
<1>6. \A e \in set : e[1] = o /\ e[2] = c
  OBVIOUS
<1>7. set \subseteq (DOMAIN kind') \X (DOMAIN kind')
  BY <1>5
<1>8. \A e \in cleared : <<kind[e[1]], kind[e[2]]>> \in Forgotten /\ kind[e[2]] \notin Lent
  BY <1>3 DEF EdgesOf, Forgotten, Lent
<1> HIDE DEF set, cleared
<1>9. <<"process", "command">> \in Parts /\ "command" \in Shared
  BY DEF Parts, Forgotten, Shared
<1>10. SetsWell(new, set)
  BY <1>1, <1>4, <1>5, <1>6, <1>7, <1>9 DEF SetsWell
<1>11. FreesItsOwn({}) /\ ClearsAll({}, cleared) /\ LosesOnly(new, {}, cleared, set)
  BY <1>1, <1>8 DEF FreesItsOwn, ClearsAll, LosesOnly
<1>12. Sound(new, {}, cleared, set)
  BY <1>10, <1>11 DEF Sound
<1> QED
  BY <1>12 DEF new, set, cleared

(* The done function of a command and the free function of a process. *)
LEMMA DoneSound ==
  ASSUME IInv, NEW owner \in {"command", "process"}, NEW o \in Field(Caller, owner), NEW names,
         "args" \in names, names \subseteq {"args"} \cup Lent, owner = "command" => names = {"args"}
  PROVE  Sound(<<>>, Field(o, "args"), EdgesTo(Caller, {o}) \cup EdgesOf(o, names), {})
<1> DEFINE freed == Field(o, "args")
           cleared == EdgesTo(Caller, {o}) \cup EdgesOf(o, names)
<1>1. o \in live \ Lost /\ o \in DOMAIN kind /\ kind[o] = owner
  BY CallerHeld, FieldHeld
<1>2. \A a \in freed : a \in live /\ kind[a] = "args" /\ <<o, a>> \in points
  BY <1>1, FieldHeld
<1>3. \A e \in cleared : \/ e[1] = Caller /\ e[2] = o
                         \/ /\ e \in points /\ e[1] = o /\ e[2] \in DOMAIN kind
                            /\ kind[e[2]] \in names /\ e = <<o, e[2]>>
  BY DEF EdgesTo, EdgesOf, IInv, TypeOK
<1>4. ASSUME NEW e \in points, e[2] \in freed
      PROVE  e \in cleared
  <2>1. <<o, e[2]>> \in points /\ kind[e[2]] = "args"
    BY <1>2, <1>4
  <2>2. <<o, e[2]>>[2] = e[2] /\ <<o, e[2]>>[1] = o
    OBVIOUS
  <2>3. e[1] = o
    BY <2>1, <2>2 DEF IInv, OneHolder, Shared, Lent
  <2> QED
    BY <2>1, <2>3 DEF EdgesOf
<1>5. \A e \in cleared : e[1] = o /\ kind[e[2]] = "args" => e[2] \in freed
  <2> TAKE e \in cleared
  <2>1. CASE e[1] = Caller /\ e[2] = o
    BY <1>1, <2>1
  <2>2. CASE e \in points /\ e[1] = o /\ e[2] \in DOMAIN kind /\ e = <<o, e[2]>>
    BY <2>2 DEF Field
  <2> QED
    BY <1>3, <2>1, <2>2
<1> HIDE DEF freed, cleared
<1>6. FreesItsOwn(freed)
  BY <1>2 DEF FreesItsOwn, Kept, Shared, Lent
<1>7. ClearsAll(freed, cleared)
  <2>1. \A e \in points \ cleared : e[2] \notin freed
    BY <1>4
  <2>2. \A e \in cleared : kind[e[2]] \in Lent => e[1] # Caller
    <3>1. o # Caller /\ kind[o] \notin Lent
      BY <1>1, CallerHeld DEF Lent
    <3> QED
      BY <1>3, <3>1
  <2> QED
    BY <2>1, <2>2 DEF ClearsAll
<1>8. LosesOnly(<<>>, freed, cleared, {})
  <2>1. \A e \in points : e[1] \notin freed
    <3> TAKE e \in points
    <3>1. <<kind[e[1]], kind[e[2]]>> \in Parts
      BY DEF IInv, PartsOK
    <3>2. kind[e[1]] # "args"
      BY <3>1 DEF Parts, Dropped, Forgotten
    <3> QED
      BY <1>2, <3>2
  <2>2. ASSUME NEW e \in points \cap cleared, e[2] \notin freed
        PROVE  <<kind[e[1]], kind[e[2]]>> \in Forgotten \cup ({"process"} \X Lent)
    <3>1. CASE e[1] = Caller /\ e[2] = o
      BY <1>1, <3>1, CallerHeld DEF Forgotten
    <3>2. CASE e[1] = o /\ kind[e[2]] \in names
      <4>1. kind[e[2]] # "args"
        BY <1>5, <2>2, <3>2
      <4>2. kind[e[2]] \in Lent
        BY <3>2, <4>1
      <4>3. owner = "process"
        <5>1. owner # "command"
          BY <3>2, <4>1
        <5> QED
          BY <5>1
      <4> QED
        BY <1>1, <3>2, <4>2, <4>3
    <3> QED
      BY <1>3, <3>1, <3>2
  <2>3. DOMAIN <<>> = {}
    OBVIOUS
  <2> QED
    BY <2>1, <2>2, <2>3 DEF LosesOnly
<1>9. Sound(<<>>, freed, cleared, {})
  BY <1>6, <1>7, <1>8, FreesSound
<1> QED
  BY <1>9 DEF freed, cleared

(* The linetoken of a parse context that is done with is lost, so that the *)
(* tokens that it still points to are out of reach.                        *)
LEMMA ParsecontextDoneSound ==
  ASSUME IInv, NEW h \in {Caller} \cup Config, NEW p \in Field(h, "parsecontext"), NEW freed,
         freed = {p} \cup Field(p, "stream") \cup Field(p, "configfile_path")
                   \cup Field(p, "configerror")
                   \cup UNION {Field(l, "token") : l \in Field(p, "linetoken")},
         Change(<<>>, freed, EdgesTo(h, {p}), {})
  PROVE  Sound(<<>>, freed, EdgesTo(h, {p}), {})
<1> DEFINE cleared == EdgesTo(h, {p})
           OwnField(o) == \E k \in {"stream", "configfile_path", "configerror"} : o \in Field(p, k)
           Token(o) == \E l \in Field(p, "linetoken") : o \in Field(l, "token")
<1>1. h \in live \ Lost
  BY CallerHeld, ConfigHeld
<1>2. p \in live \ Lost /\ p \in DOMAIN kind /\ kind[p] = "parsecontext" /\ <<h, p>> \in points
  BY <1>1, FieldHeld
<1>3. \A o \in freed : o = p \/ OwnField(o) \/ Token(o)
  OBVIOUS
<1>4. \A o : OwnField(o) => /\ o \in freed /\ o \in live /\ <<p, o>> \in points
                            /\ kind[o] \in {"stream", "configfile_path", "configerror"}
  <2> SUFFICES ASSUME NEW o, NEW k \in {"stream", "configfile_path", "configerror"}, o \in Field(p, k)
               PROVE  /\ o \in freed /\ o \in live /\ <<p, o>> \in points
                      /\ kind[o] \in {"stream", "configfile_path", "configerror"}
    OBVIOUS
  <2>1. o \in live /\ <<p, o>> \in points /\ kind[o] = k
    BY <1>2, FieldHeld
  <2> QED
    BY <2>1
<1>5. \A l \in Field(p, "linetoken") :
        l \in live \ Lost /\ l \in DOMAIN kind /\ kind[l] = "linetoken" /\ <<p, l>> \in points
  BY <1>2, FieldHeld
<1>6. \A o : Token(o) => /\ o \in live /\ kind[o] = "token"
                         /\ \E l \in Field(p, "linetoken") : <<l, o>> \in points
  BY <1>5, FieldHeld
<1>7. \A e \in cleared : e[1] = h /\ e[2] = p
  BY DEF EdgesTo
<1>8. <<h, p>> \in cleared
  BY DEF EdgesTo
<1>9. \A o : o \in Field(p, "linetoken") => kind[o] = "linetoken"
  BY <1>5
<1>10. p \in freed
  OBVIOUS
<1>11. Change(<<>>, freed, cleared, {})
  OBVIOUS
<1>12. \A e \in points : /\ e = <<e[1], e[2]>> /\ e[1] \in DOMAIN kind /\ e[2] \in DOMAIN kind
                         /\ <<kind[e[1]], kind[e[2]]>> \in Parts
  BY DEF IInv, TypeOK, PartsOK
<1>13. ASSUME NEW e \in points, NEW g, <<g, e[2]>> \in points, kind[e[2]] \notin Shared
       PROVE  e[1] = g
  <2> DEFINE f == <<g, e[2]>>
  <2>1. f \in points /\ f[2] = e[2] /\ f[1] = g
    BY <1>13
  <2> HIDE DEF f
  <2> QED
    BY <1>13, <2>1 DEF IInv, OneHolder
<1> HIDE DEF cleared, OwnField, Token
<1>14. FreesItsOwn(freed)
  BY <1>2, <1>3, <1>4, <1>6 DEF FreesItsOwn, Kept, Shared, Lent
<1>15. live' = live \ freed /\ points' = points \ cleared
  <2>1. DOMAIN <<>> = {}
    OBVIOUS
  <2> QED
    BY <1>11, <2>1 DEF Change
<1>16. Field(p, "linetoken") \subseteq Lost'
  <2> SUFFICES ASSUME NEW l \in Field(p, "linetoken") PROVE l \in Lost'
    OBVIOUS
  <2>1. l \in live /\ kind[l] = "linetoken" /\ <<p, l>> \in points
    BY <1>5
  <2>2. l \notin freed
    BY <1>2, <1>3, <1>4, <1>6, <2>1
  <2>3. l # Caller
    BY <2>1, CallerHeld
  <2>4. ASSUME NEW g \in live', <<g, l>> \in points'
        PROVE  FALSE
    <3> DEFINE e == <<g, l>>
    <3>1. e \in points /\ e[2] = l /\ e[1] = g
      BY <1>15, <2>4
    <3> HIDE DEF e
    <3>2. e[1] = p
      BY <1>13, <2>1, <3>1 DEF Shared, Lent
    <3> QED
      BY <1>10, <1>15, <2>4, <3>1, <3>2
  <2> QED
    BY <1>15, <2>1, <2>2, <2>3, <2>4 DEF Lost, Caller
<1>17. ClearsAll(freed, cleared)
  <2>1. ASSUME NEW e \in points \ cleared, e[2] \in freed
        PROVE  e[1] \in freed \cup Lost'
    <3>1. CASE e[2] = p
      BY <1>2, <1>8, <1>12, <1>13, <2>1, <3>1 DEF Shared, Lent
    <3>2. CASE OwnField(e[2])
      <4>1. <<p, e[2]>> \in points /\ kind[e[2]] \notin Shared
        BY <1>4, <3>2 DEF Shared, Lent
      <4>2. e[1] = p
        BY <1>13, <2>1, <4>1
      <4> QED
        BY <1>10, <4>2
    <3>3. CASE Token(e[2])
      <4>1. PICK l \in Field(p, "linetoken") : <<l, e[2]>> \in points
        BY <1>6, <3>3
      <4>2. kind[e[2]] \notin Shared
        BY <1>6, <3>3 DEF Shared, Lent
      <4>3. e[1] = l
        BY <1>13, <2>1, <4>1, <4>2
      <4> QED
        BY <1>16, <4>1, <4>3
    <3> QED
      BY <1>3, <2>1, <3>1, <3>2, <3>3
  <2>2. \A e \in cleared : kind[e[2]] \notin Lent
    BY <1>2, <1>7 DEF Lent
  <2> QED
    BY <2>1, <2>2 DEF ClearsAll
<1>18. LosesOnly(<<>>, freed, cleared, {})
  <2>1. ASSUME NEW e \in points, e[1] \in freed, e[2] \notin freed
        PROVE  <<kind[e[1]], kind[e[2]]>> \in Dropped
    <3>1. CASE e[1] = p
      <4>1. kind[e[2]] \in {"stream", "configfile_path", "configerror", "linetoken"}
        BY <1>2, <1>12, <3>1 DEF Parts, Dropped, Forgotten
      <4>2. e[2] \in Field(p, kind[e[2]])
        BY <1>12, <3>1 DEF Field
      <4>3. kind[e[2]] = "linetoken"
        <5>1. SUFFICES ASSUME kind[e[2]] \in {"stream", "configfile_path", "configerror"} PROVE FALSE
          BY <4>1
        <5>2. OwnField(e[2])
          BY <4>2, <5>1 DEF OwnField
        <5> QED
          BY <1>4, <2>1, <5>2
      <4> QED
        BY <1>2, <3>1, <4>3 DEF Dropped
    <3>2. CASE e[1] # p
      <4>1. kind[e[1]] \in {"stream", "configfile_path", "configerror", "token"}
        BY <1>3, <1>4, <1>6, <2>1, <3>2
      <4> QED
        BY <1>12, <4>1 DEF Parts, Dropped, Forgotten
    <3> QED
      BY <3>1, <3>2
  <2>2. \A e \in cleared : e[2] \in freed
    BY <1>7, <1>10
  <2>3. DOMAIN <<>> = {}
    OBVIOUS
  <2> QED
    BY <2>1, <2>2, <2>3 DEF LosesOnly
<1>19. Sound(<<>>, freed, cleared, {})
  BY <1>14, <1>17, <1>18, FreesSound
<1> QED
  BY <1>19 DEF cleared

-----------------------------------------------------------------------------
(* What the logic pass allocates: an error perhaps, then definitions.      *)
LEMMA LogicAllocates ==
  ASSUME NEW error \in {<<>>} \cup AnError, NEW made \in Made
  PROVE  LET new == error \o made
         IN  /\ new \in Seq(Kind)
             /\ \A i \in DOMAIN new :
                  new[i] \in {"configerror", "error_message", "command", "process", "args"}
             /\ \A i \in DOMAIN new : new[i] = "configerror" => i = 1
             /\ \A i \in DOMAIN new : new[i] = "error_message" => i = 2 /\ Len(error) = 2
             /\ Len(error) = 2 => /\ 1 \in DOMAIN new /\ new[1] = "configerror"
                                  /\ 2 \in DOMAIN new /\ new[2] = "error_message"
<1> DEFINE D == {"command", "process", "args"}
           new == error \o made
<1>1. made \in Seq(D) /\ Len(made) \in Nat /\ DOMAIN made = 1..Len(made)
  <2>1. PICK m \in 0..MaxMade : made \in [1..m -> D]
    BY DEF Made, SeqOf
  <2>2. m \in Nat
    BY <2>1, OwnershipAssumption
  <2> HIDE DEF D
  <2> QED
    BY <2>1, <2>2
<1>2. \A i \in DOMAIN made : made[i] \in D
  <2> HIDE DEF D
  <2> QED
    BY <1>1
<1>3. /\ error \in Seq(Kind) /\ Len(error) \in 0..2 /\ DOMAIN error = 1..Len(error)
      /\ Len(error) >= 1 => error[1] = "configerror"
      /\ Len(error) >= 2 => error[2] = "error_message"
  <2>1. CASE error = <<>>
    BY <2>1
  <2>2. CASE error = <<"configerror">>
    BY <2>2 DEF Kind
  <2>3. CASE error = <<"configerror", "error_message">>
    BY <2>3 DEF Kind
  <2> QED
    BY <2>1, <2>2, <2>3 DEF AnError
<1>4. made \in Seq(Kind)
  <2>1. D \subseteq Kind
    BY DEF Kind
  <2> HIDE DEF D
  <2> QED
    BY <1>1, <2>1
<1>5. /\ new \in Seq(Kind) /\ DOMAIN new = 1..(Len(error) + Len(made))
      /\ \A i \in 1..(Len(error) + Len(made)) :
           new[i] = IF i <= Len(error) THEN error[i] ELSE made[i - Len(error)]
  BY <1>3, <1>4, ConcatFacts
<1> HIDE DEF new
<1>6. ASSUME NEW i \in DOMAIN new
      PROVE  \/ i = 1 /\ new[i] = "configerror"
             \/ i = 2 /\ new[i] = "error_message" /\ Len(error) = 2
             \/ new[i] \in D
  <2>1. i \in 1..(Len(error) + Len(made))
    BY <1>5
  <2>2. CASE i <= Len(error)
    <3>1. i = 1 \/ (i = 2 /\ Len(error) = 2)
      BY <1>1, <1>3, <2>1, <2>2
    <3> QED
      BY <1>3, <1>5, <2>1, <2>2, <3>1
  <2>3. CASE ~(i <= Len(error))
    <3>1. i - Len(error) \in 1..Len(made)
      BY <1>1, <1>3, <2>1, <2>3
    <3>2. new[i] = made[i - Len(error)]
      BY <1>5, <2>1, <2>3
    <3> QED
      BY <1>1, <1>2, <3>1, <3>2
  <2> QED
    BY <2>2, <2>3
<1>7. Len(error) = 2 => /\ 1 \in DOMAIN new /\ new[1] = "configerror"
                        /\ 2 \in DOMAIN new /\ new[2] = "error_message"
  <2> SUFFICES ASSUME Len(error) = 2 PROVE <1>7!2
    OBVIOUS
  <2>1. 1 \in 1..(Len(error) + Len(made)) /\ 2 \in 1..(Len(error) + Len(made))
    BY <1>1
  <2> QED
    BY <1>3, <1>5, <2>1
<1> QED
  BY <1>5, <1>6, <1>7 DEF new

(* What the logic pass chooses, the fields it overwrites and those it sets.*)
Owners(new) == [At(new, {"args"}) -> At(new, {"command", "process"})]
Uses(new)   == [At(new, {"process"}) -> At(new, {"command"}) \cup {0}]
OneConfig   == {{}} \cup {{g} : g \in Config}

LogicClears(valid, config) ==
  {e \in points : valid /\ e[1] \in config /\ kind[e[2]] \in {"command", "process"}}

LogicSets(p, error, new, owner, uses, valid, config) ==
  Appended(p, error) \cup Defined(new, owner, uses)
    \cup IF valid THEN config \X At(new, {"command", "process"}) ELSE {}

LEMMA LogicSound ==
  ASSUME IInv, NEW p \in Parsecontexts, NEW made \in Made, NEW error \in {<<>>} \cup AnError,
         NEW new, new = error \o made, NEW valid \in BOOLEAN,
         NEW owner \in Owners(new), NEW uses \in Uses(new), NEW config \in OneConfig,
         Change(new, {}, LogicClears(valid, config),
                LogicSets(p, error, new, owner, uses, valid, config))
  PROVE  Sound(new, {}, LogicClears(valid, config),
               LogicSets(p, error, new, owner, uses, valid, config))
<1> PICK lists, cleared, set :
      /\ lists = At(new, {"command", "process"})
      /\ cleared = LogicClears(valid, config)
      /\ set = LogicSets(p, error, new, owner, uses, valid, config)
  OBVIOUS
<1>0. /\ owner \in [At(new, {"args"}) -> lists]
      /\ uses \in [At(new, {"process"}) -> At(new, {"command"}) \cup {0}]
      /\ config \in {{}} \cup {{g} : g \in Config}
      /\ cleared = {e \in points :
                      valid /\ e[1] \in config /\ kind[e[2]] \in {"command", "process"}}
      /\ set = Appended(p, error) \cup Defined(new, owner, uses)
                  \cup IF valid THEN config \X lists ELSE {}
      /\ Change(new, {}, cleared, set)
  BY DEF Owners, Uses, OneConfig, LogicClears, LogicSets
<1> USE <1>0
<1>1. p \in live /\ p \in DOMAIN kind /\ kind[p] = "parsecontext"
  BY ParsecontextHeld
<1>2. \A g \in config : g \in live /\ g \in DOMAIN kind /\ kind[g] = "config"
  BY ConfigHeld
<1>3. \A g, k \in config : g = k
  OBVIOUS
<1>4. /\ new \in Seq(Kind)
      /\ \A i \in DOMAIN new :
           new[i] \in {"configerror", "error_message", "command", "process", "args"}
      /\ \A i \in DOMAIN new : new[i] = "configerror" => i = 1
      /\ \A i \in DOMAIN new : new[i] = "error_message" => i = 2 /\ Len(error) = 2
      /\ Len(error) = 2 => /\ 1 \in DOMAIN new /\ new[1] = "configerror"
                           /\ 2 \in DOMAIN new /\ new[2] = "error_message"
  BY LogicAllocates
<1>5. /\ \A o \in DOMAIN kind : o \in DOMAIN kind' /\ kind'[o] = kind[o]
      /\ \A i \in DOMAIN new : NewObject(i) \in DOMAIN kind' \ DOMAIN kind /\ kind'[NewObject(i)] = new[i]
  BY <1>4, ChangeFacts DEF IInv
<1>6. /\ \A i \in DOMAIN new : NewObject(i) \in live'
      /\ \A o \in live : o \in live'
  BY DEF Change
<1>7. ASSUME NEW names, NEW o \in At(new, names)
      PROVE  \E i \in DOMAIN new : o = NewObject(i) /\ new[i] \in names
  BY <1>7 DEF At
<1>8. ASSUME NEW names, NEW i \in DOMAIN new, new[i] \in names
      PROVE  NewObject(i) \in At(new, names)
  BY <1>8 DEF At
<1>9. ASSUME NEW names, NEW o \in At(new, names)
      PROVE  o \in DOMAIN kind' \ DOMAIN kind /\ o \in live' /\ kind'[o] \in names
  BY <1>5, <1>6, <1>7, <1>9
<1>10. ASSUME NEW e \in set
       PROVE  /\ e[1] \in DOMAIN kind' /\ e[2] \in DOMAIN kind' \ DOMAIN kind /\ e = <<e[1], e[2]>>
              /\ \/ kind'[e[2]] = "configerror" /\ e[1] = p
                 \/ kind'[e[2]] = "error_message" /\ e[1] = NewObject(1)
                      /\ kind'[NewObject(1)] = "configerror"
                 \/ kind'[e[2]] = "args" /\ e[1] = owner[e[2]] /\ kind'[e[1]] \in {"command", "process"}
                 \/ kind'[e[2]] = "command" /\ kind'[e[1]] = "process"
                 \/ kind'[e[2]] \in {"command", "process"} /\ e[1] \in config
  <2>1. CASE e \in Appended(p, error)
    <3>1. Len(error) = 2 /\ (e = <<p, NewObject(1)>> \/ e = <<NewObject(1), NewObject(2)>>)
      BY <2>1 DEF Appended
    <3>2. /\ NewObject(1) \in DOMAIN kind' \ DOMAIN kind /\ kind'[NewObject(1)] = "configerror"
          /\ NewObject(2) \in DOMAIN kind' \ DOMAIN kind /\ kind'[NewObject(2)] = "error_message"
      BY <1>4, <1>5, <3>1
    <3>3. p \in DOMAIN kind'
      BY <1>1, <1>5
    <3>4. CASE e = <<p, NewObject(1)>>
      <4>1. e[1] = p /\ e[2] = NewObject(1)
        BY <3>4
      <4> QED
        BY <3>2, <3>3, <3>4, <4>1
    <3>5. CASE e = <<NewObject(1), NewObject(2)>>
      <4>1. e[1] = NewObject(1) /\ e[2] = NewObject(2)
        BY <3>5
      <4> QED
        BY <3>2, <3>5, <4>1
    <3> QED
      BY <3>1, <3>4, <3>5
  <2>2. CASE e \in Defined(new, owner, uses)
    <3>1. CASE \E a \in At(new, {"args"}) : e = <<owner[a], a>>
      <4>1. PICK a \in At(new, {"args"}) : e = <<owner[a], a>>
        BY <3>1
      <4>2. owner[a] \in At(new, {"command", "process"})
        OBVIOUS
      <4>3. /\ a \in DOMAIN kind' \ DOMAIN kind /\ kind'[a] \in {"args"}
            /\ owner[a] \in DOMAIN kind' /\ kind'[owner[a]] \in {"command", "process"}
        BY <1>9, <4>2
      <4> QED
        BY <4>1, <4>3
    <3>2. CASE \E o \in At(new, {"process"}) : uses[o] # 0 /\ e = <<o, uses[o]>>
      <4>1. PICK o \in At(new, {"process"}) : uses[o] # 0 /\ e = <<o, uses[o]>>
        BY <3>2
      <4>2. uses[o] \in At(new, {"command"})
        BY <4>1
      <4>3. /\ o \in DOMAIN kind' \ DOMAIN kind /\ kind'[o] \in {"process"}
            /\ uses[o] \in DOMAIN kind' \ DOMAIN kind /\ kind'[uses[o]] \in {"command"}
        BY <1>9, <4>2
      <4> QED
        BY <4>1, <4>3
    <3> QED
      BY <2>2, <3>1, <3>2 DEF Defined
  <2>3. CASE e \in config \X lists
    <3>1. e[1] \in config /\ e[2] \in At(new, {"command", "process"}) /\ e = <<e[1], e[2]>>
      BY <2>3
    <3>2. e[2] \in DOMAIN kind' \ DOMAIN kind /\ kind'[e[2]] \in {"command", "process"}
      BY <1>9, <3>1
    <3> QED
      BY <1>2, <1>5, <3>1, <3>2
  <2> QED
    BY <2>1, <2>2, <2>3
<1>11. set \subseteq (DOMAIN kind') \X (DOMAIN kind' \ DOMAIN kind)
  BY <1>10
<1>12. \A e \in set : <<kind'[e[1]], kind'[e[2]]>> \in Parts
  <2> TAKE e \in set
  <2>1. \/ kind'[e[2]] = "configerror" /\ kind'[e[1]] = "parsecontext"
        \/ kind'[e[2]] = "error_message" /\ kind'[e[1]] = "configerror"
        \/ kind'[e[2]] = "args" /\ kind'[e[1]] \in {"command", "process"}
        \/ kind'[e[2]] = "command" /\ kind'[e[1]] = "process"
        \/ kind'[e[2]] \in {"command", "process"} /\ kind'[e[1]] = "config"
    BY <1>1, <1>2, <1>5, <1>10
  <2> QED
    BY <2>1 DEF Parts, Dropped, Forgotten
<1>13. \A e, f \in set : e[2] = f[2] => kind'[e[2]] \in Shared \/ e[1] = f[1]
  <2> SUFFICES ASSUME NEW e \in set, NEW f \in set, e[2] = f[2], kind'[e[2]] # "command"
               PROVE  e[1] = f[1]
    BY DEF Shared
  <2>1. \/ kind'[e[2]] = "configerror" /\ e[1] = p
        \/ kind'[e[2]] = "error_message" /\ e[1] = NewObject(1)
        \/ kind'[e[2]] = "args" /\ e[1] = owner[e[2]]
        \/ kind'[e[2]] = "process" /\ e[1] \in config
    BY <1>10
  <2>2. \/ kind'[f[2]] = "configerror" /\ f[1] = p
        \/ kind'[f[2]] = "error_message" /\ f[1] = NewObject(1)
        \/ kind'[f[2]] = "args" /\ f[1] = owner[f[2]]
        \/ kind'[f[2]] = "process" /\ f[1] \in config
    BY <1>10
  <2> QED
    BY <1>3, <2>1, <2>2
<1>14. \A i \in DOMAIN new :
         \/ new[i] \in {"configerror", "command", "process"}
         \/ \E e \in set : e[1] \in live' /\ e[2] = NewObject(i)
  <2> TAKE i \in DOMAIN new
  <2>1. CASE new[i] = "error_message"
    <3>1. i = 2 /\ Len(error) = 2 /\ 1 \in DOMAIN new
      BY <1>4, <2>1
    <3>2. <<NewObject(1), NewObject(2)>> \in set
      BY <3>1 DEF Appended
    <3> QED
      BY <1>6, <3>1, <3>2
  <2>2. CASE new[i] = "args"
    <3> DEFINE a == NewObject(i)
    <3>1. a \in At(new, {"args"})
      BY <1>8, <2>2
    <3>2. <<owner[a], a>> \in set
      BY <3>1 DEF Defined
    <3>3. owner[a] \in At(new, {"command", "process"})
      BY <3>1
    <3>4. owner[a] \in live'
      BY <1>9, <3>3
    <3> QED
      BY <3>2, <3>4
  <2> QED
    BY <1>4, <2>1, <2>2
<1>15. \A e \in cleared : <<kind[e[1]], kind[e[2]]>> \in Forgotten
  BY <1>2 DEF Forgotten
<1>16. \A i \in DOMAIN new : new[i] \notin Lent
  BY <1>4 DEF Lent
<1>17. FreesItsOwn({})
  BY DEF FreesItsOwn
<1>18. SetsWell(new, set)
  <2>1. \A e \in set : e[2] \notin DOMAIN kind
    BY <1>11
  <2>2. set \subseteq (DOMAIN kind') \X (DOMAIN kind')
    BY <1>11
  <2>3. new \in Seq(Kind)
    BY <1>4
  <2> QED
    BY <1>12, <1>13, <1>16, <2>1, <2>2, <2>3 DEF SetsWell
<1>19. ClearsAll({}, cleared)
  <2>1. \A e \in cleared : kind[e[2]] \notin Lent
    BY <1>15 DEF Forgotten, Lent
  <2> QED
    BY <2>1 DEF ClearsAll
<1>20. LosesOnly(new, {}, cleared, set)
  BY <1>14, <1>15 DEF LosesOnly
<1> QED
  BY <1>17, <1>18, <1>19, <1>20 DEF Sound

-----------------------------------------------------------------------------
(* Every step is a sound change, the end of the program, or none. *)
SoundChange ==
  \E new, freed, cleared, set :
    Change(new, freed, cleared, set) /\ Sound(new, freed, cleared, set)

LEMMA SoundChangeFacts ==
  ASSUME NEW new, NEW freed, NEW cleared, NEW set,
         Change(new, freed, cleared, set), Sound(new, freed, cleared, set)
  PROVE  SoundChange
BY DEF SoundChange

LEMMA ContextSteps ==
  ASSUME IInv, cpw_context_new \/ cpw_context_init \/ cpw_context_free
  PROVE  SoundChange
<1>1. CASE cpw_context_new
  <2>1. NewOfCaller("context")
    BY <1>1 DEF cpw_context_new
  <2>2. Change(<<"context">>, {}, {}, {<<Caller, NewObject(1)>>})
    BY <2>1 DEF NewOfCaller
  <2> QED
    BY <2>1, <2>2, NewOfCallerSound, SoundChangeFacts
<1>2. CASE cpw_context_init
  <2>1. PICK c \in Field(Caller, "context"),
             got \in {<<>>, <<"config">>, <<"arguments">>, <<"config", "arguments">>} :
          Change(got, {}, EdgesOf(c, {"config", "arguments"}),
                 EdgesTo(c, {NewObject(i) : i \in DOMAIN got}))
    BY <1>2 DEF cpw_context_init
  <2> QED
    BY <2>1, ContextInitSound, SoundChangeFacts
<1>3. CASE cpw_context_free
  <2>1. PICK c \in Field(Caller, "context") :
          Change(<<>>, {c} \cup Field(c, "config") \cup Field(c, "arguments"),
                 EdgesTo(Caller, {c}), {})
    BY <1>3 DEF cpw_context_free
  <2> QED
    BY <2>1, ContextFreeSound, SoundChangeFacts
<1> QED
  BY <1>1, <1>2, <1>3

LEMMA ParsecontextSteps ==
  ASSUME IInv, \/ cpw_parsecontext_new \/ cpw_parsecontext_init \/ cpw_config_init
               \/ cpw_parsecontext_add_config_error \/ cpw_parsecontext_done
  PROVE  SoundChange \/ Crash
<1>1. CASE cpw_parsecontext_new
  <2>1. NewOfCaller("parsecontext")
    BY <1>1 DEF cpw_parsecontext_new
  <2>2. Change(<<"parsecontext">>, {}, {}, {<<Caller, NewObject(1)>>})
    BY <2>1 DEF NewOfCaller
  <2> QED
    BY <2>1, <2>2, NewOfCallerSound, SoundChangeFacts
<1>2. CASE cpw_parsecontext_init
  <2>1. PICK p \in Parsecontexts, got \in Initial :
          Change(got, {}, EdgesOf(p, Overwritten(got)), Initialised(p, got, Len(kind)))
    BY <1>2 DEF cpw_parsecontext_init
  <2> QED
    BY <2>1, ParsecontextInitSound, SoundChangeFacts
<1>3. CASE cpw_config_init
  <2>1. PICK g \in Config :
          \/ Change(<<>>, {}, ConfigFields(g), {})
          \/ \E got \in Initial :
               Change(<<"parsecontext">> \o got, {}, ConfigFields(g),
                      {<<g, NewObject(1)>>} \cup Initialised(NewObject(1), got, NewObject(1)))
    BY <1>3 DEF cpw_config_init, ConfigFields
  <2>2. CASE Change(<<>>, {}, ConfigFields(g), {})
    BY <2>2, ConfigClearSound, SoundChangeFacts
  <2>3. CASE \E got \in Initial :
               Change(<<"parsecontext">> \o got, {}, ConfigFields(g),
                      {<<g, NewObject(1)>>} \cup Initialised(NewObject(1), got, NewObject(1)))
    <3>1. PICK got \in Initial :
               Change(<<"parsecontext">> \o got, {}, ConfigFields(g),
                      {<<g, NewObject(1)>>} \cup Initialised(NewObject(1), got, NewObject(1)))
      BY <2>3
    <3> QED
      BY <3>1, ConfigInitSound, SoundChangeFacts
  <2> QED
    BY <2>1, <2>2, <2>3
<1>4. CASE cpw_parsecontext_add_config_error
  <2>1. PICK p \in Parsecontexts, error \in {<<>>} \cup AnError :
          Change(error, {}, {}, Appended(p, error))
    BY <1>4 DEF cpw_parsecontext_add_config_error
  <2> QED
    BY <2>1, AddErrorSound, SoundChangeFacts
<1>5. CASE cpw_parsecontext_done
  <2>1. PICK h \in {Caller} \cup Config :
          \/ \E p \in Field(h, "parsecontext") :
               Change(<<>>, {p} \cup Field(p, "stream") \cup Field(p, "configfile_path")
                              \cup Field(p, "configerror")
                              \cup UNION {Field(l, "token") : l \in Field(p, "linetoken")},
                      EdgesTo(h, {p}), {})
          \/ Crash
    BY <1>5 DEF cpw_parsecontext_done
  <2>2. CASE ~Crash
    <3>1. PICK p \in Field(h, "parsecontext") :
            Change(<<>>, {p} \cup Field(p, "stream") \cup Field(p, "configfile_path")
                           \cup Field(p, "configerror")
                           \cup UNION {Field(l, "token") : l \in Field(p, "linetoken")},
                   EdgesTo(h, {p}), {})
      BY <2>1, <2>2
    <3> QED
      BY <3>1, ParsecontextDoneSound, SoundChangeFacts
  <2> QED
    BY <2>2
<1> QED
  BY <1>1, <1>2, <1>3, <1>4, <1>5

LEMMA ValidateSteps ==
  ASSUME IInv, cpw_config_validate_configfile_syntax \/ cpw_config_validate_configfile_logic
  PROVE  SoundChange \/ Crash
<1>1. CASE cpw_config_validate_configfile_syntax
  <2>1. CASE ~Crash
    <3>1. PICK p \in Parsecontexts, error \in {<<>>} \cup AnError :
            Change(error, {}, {}, Appended(p, error))
      BY <1>1, <2>1 DEF cpw_config_validate_configfile_syntax
    <3> QED
      BY <3>1, AddErrorSound, SoundChangeFacts
  <2> QED
    BY <2>1
<1>2. CASE cpw_config_validate_configfile_logic
  <2>1. CASE ~Crash
    <3>1. PICK p \in Parsecontexts, made \in Made : \E error \in {<<>>} \cup AnError :
            LET new   == error \o made
                lists == At(new, {"command", "process"})
                valid == Field(p, "configerror") = {} /\ Len(error) # 2
            IN  /\ CanRead(p, new)
                /\ \E owner \in [At(new, {"args"}) -> lists],
                      uses \in [At(new, {"process"}) -> At(new, {"command"}) \cup {0}],
                      config \in {{}} \cup {{g} : g \in Config} :
                     /\ \A a \in DOMAIN owner : owner[a] < a
                     /\ Change(new, {},
                          {e \in points : valid /\ e[1] \in config /\ kind[e[2]] \in {"command", "process"}},
                          Appended(p, error) \cup Defined(new, owner, uses)
                            \cup IF valid THEN config \X lists ELSE {})
      BY <1>2, <2>1, Zenon DEF cpw_config_validate_configfile_logic
    <3>2. PICK error \in {<<>>} \cup AnError :
            LET new   == error \o made
                lists == At(new, {"command", "process"})
                valid == Field(p, "configerror") = {} /\ Len(error) # 2
            IN  /\ CanRead(p, new)
                /\ \E owner \in [At(new, {"args"}) -> lists],
                      uses \in [At(new, {"process"}) -> At(new, {"command"}) \cup {0}],
                      config \in {{}} \cup {{g} : g \in Config} :
                     /\ \A a \in DOMAIN owner : owner[a] < a
                     /\ Change(new, {},
                          {e \in points : valid /\ e[1] \in config /\ kind[e[2]] \in {"command", "process"}},
                          Appended(p, error) \cup Defined(new, owner, uses)
                            \cup IF valid THEN config \X lists ELSE {})
      BY <3>1, Zenon
    <3> DEFINE new   == error \o made
               lists == At(new, {"command", "process"})
               valid == Field(p, "configerror") = {} /\ Len(error) # 2
    <3>3. PICK owner \in [At(new, {"args"}) -> lists],
               uses \in [At(new, {"process"}) -> At(new, {"command"}) \cup {0}],
               config \in {{}} \cup {{g} : g \in Config} :
            /\ \A a \in DOMAIN owner : owner[a] < a
            /\ Change(new, {},
                 {e \in points : valid /\ e[1] \in config /\ kind[e[2]] \in {"command", "process"}},
                 Appended(p, error) \cup Defined(new, owner, uses)
                   \cup IF valid THEN config \X lists ELSE {})
      BY <3>2, Zenon
    <3>4. /\ owner \in Owners(new) /\ uses \in Uses(new) /\ config \in OneConfig
          /\ Change(new, {}, LogicClears(valid, config),
                    LogicSets(p, error, new, owner, uses, valid, config))
      BY <3>3, Zenon DEF Owners, Uses, OneConfig, LogicClears, LogicSets
    <3>5. valid \in BOOLEAN /\ new = error \o made
      OBVIOUS
    <3> HIDE DEF valid, new
    <3>6. Sound(new, {}, LogicClears(valid, config),
                LogicSets(p, error, new, owner, uses, valid, config))
      BY <3>4, <3>5, LogicSound
    <3> QED
      BY <3>4, <3>6, SoundChangeFacts
  <2> QED
    BY <2>1
<1> QED
  BY <1>1, <1>2

LEMMA CallerSteps ==
  ASSUME IInv, \/ cpw_command_new \/ cpw_command_add_arg \/ cpw_command_done
               \/ cpw_process_new \/ cpw_process_add_arg
               \/ cpw_process_add_source \/ cpw_process_add_output
               \/ cpw_process_set_command \/ cpw_process_free
  PROVE  SoundChange
<1>1. ASSUME NEW name \in {"command", "process"}, NewOfCaller(name)
      PROVE  SoundChange
  <2>1. Change(<<name>>, {}, {}, {<<Caller, NewObject(1)>>})
    BY <1>1 DEF NewOfCaller
  <2> QED
    BY <1>1, <2>1, NewOfCallerSound, SoundChangeFacts
<1>2. ASSUME NEW owner \in {"command", "process"}, AddToOwn(owner, "args")
      PROVE  SoundChange
  <2>1. PICK o \in Field(Caller, owner) : Change(<<"args">>, {}, {}, {<<o, NewObject(1)>>})
    BY <1>2 DEF AddToOwn
  <2> QED
    BY <2>1, AddToOwnSound, SoundChangeFacts
<1>3. ASSUME NEW name \in Lent, AddOfCaller(name)
      PROVE  SoundChange
  <2>1. PICK o \in Field(Caller, "process") :
          Change(<<name>>, {}, {}, {<<o, NewObject(1)>>, <<Caller, NewObject(1)>>})
    BY <1>3 DEF AddOfCaller
  <2> QED
    BY <2>1, AddOfCallerSound, SoundChangeFacts
<1>4. CASE cpw_process_set_command
  <2>1. PICK o \in Field(Caller, "process"), h \in {Caller} \cup Config :
          \E c \in Field(h, "command") :
            Change(<<>>, {}, EdgesOf(o, {"command"}), {<<o, c>>})
    BY <1>4 DEF cpw_process_set_command
  <2>2. PICK c \in Field(h, "command") : Change(<<>>, {}, EdgesOf(o, {"command"}), {<<o, c>>})
    BY <2>1
  <2> QED
    BY <2>2, SetCommandSound, SoundChangeFacts
<1>5. CASE cpw_command_done
  <2>1. PICK c \in Field(Caller, "command") :
          Change(<<>>, Field(c, "args"), EdgesTo(Caller, {c}) \cup EdgesOf(c, {"args"}), {})
    BY <1>5 DEF cpw_command_done
  <2>2. Sound(<<>>, Field(c, "args"), EdgesTo(Caller, {c}) \cup EdgesOf(c, {"args"}), {})
    BY DoneSound
  <2> QED
    BY <2>1, <2>2, SoundChangeFacts
<1>6. CASE cpw_process_free
  <2> DEFINE names == {"args", "source", "output"}
  <2>1. PICK o \in Field(Caller, "process") :
          Change(<<>>, Field(o, "args"), EdgesTo(Caller, {o}) \cup EdgesOf(o, names), {})
    BY <1>6 DEF cpw_process_free
  <2>2. "args" \in names /\ names \subseteq {"args"} \cup Lent
    BY DEF Lent
  <2> HIDE DEF names
  <2>3. Sound(<<>>, Field(o, "args"), EdgesTo(Caller, {o}) \cup EdgesOf(o, names), {})
    BY <2>2, DoneSound
  <2> QED
    BY <2>1, <2>3, SoundChangeFacts
<1> QED
  BY <1>1, <1>2, <1>3, <1>4, <1>5, <1>6
  DEF Lent, cpw_command_new, cpw_command_add_arg, cpw_process_new, cpw_process_add_arg,
      cpw_process_add_source, cpw_process_add_output

LEMMA NextSteps ==
  ASSUME IInv, Next
  PROVE  SoundChange \/ Crash
BY ContextSteps, ParsecontextSteps, ValidateSteps, CallerSteps DEF Next

(* When the program ends there is the caller and no memory. *)
LEMMA CrashKeeps ==
  ASSUME IInv, Crash
  PROVE  IInv' /\ Lost' = {}
<1>1. /\ kind' = <<"caller">> /\ live' = {1} /\ points' = {} /\ badfree' = FALSE
      /\ crashed' = TRUE
  BY DEF Crash, Caller, IInv, HeldIsLive, TypeOK
<1>2. DOMAIN kind' = {1} /\ kind'[1] = "caller"
  BY <1>1
<1>3. kind' \in Seq({"caller"} \cup Kind)
  BY <1>1
<1>4. TypeOK'
  BY <1>1, <1>2, <1>3 DEF TypeOK
<1>5. CallerOK'
  BY <1>1, <1>2 DEF CallerOK, Caller
<1>6. PartsOK' /\ OneHolder'
  BY <1>1 DEF PartsOK, OneHolder
<1>7. KeptLive' /\ LentOK'
  BY <1>1, <1>2 DEF KeptLive, LentOK, Lent, Kept
<1>8. HeldIsLive' /\ Lost' = {}
  BY <1>1 DEF HeldIsLive, Lost, Caller
<1> QED
  BY <1>4, <1>5, <1>6, <1>7, <1>8 DEF IInv

-----------------------------------------------------------------------------
LEMMA InitOwnership ==
  ASSUME Init
  PROVE  IInv
<1>1. kind = <<"caller">> /\ live = {1} /\ points = {} /\ badfree = FALSE /\ crashed = FALSE
  BY DEF Init, Caller
<1>2. DOMAIN kind = {1} /\ kind[1] = "caller" /\ kind \in Seq({"caller"} \cup Kind)
  BY <1>1
<1>3. TypeOK /\ CallerOK
  BY <1>1, <1>2 DEF TypeOK, CallerOK, Caller
<1>4. PartsOK /\ OneHolder
  BY <1>1 DEF PartsOK, OneHolder
<1>5. KeptLive /\ LentOK
  BY <1>1, <1>2 DEF KeptLive, LentOK, Lent, Kept
<1>6. HeldIsLive
  BY <1>1 DEF HeldIsLive
<1> QED
  BY <1>3, <1>4, <1>5, <1>6 DEF IInv

LEMMA NextOwnership ==
  ASSUME IInv, [Next]_vars
  PROVE  IInv' /\ [\A o \in Lost' \ Lost : KnownLoss(o)]_vars
<1>1. CASE SoundChange
  <2>1. PICK new, freed, cleared, set :
          Change(new, freed, cleared, set) /\ Sound(new, freed, cleared, set)
    BY <1>1 DEF SoundChange
  <2> QED
    BY <2>1, SoundKeeps, SoundLoses
<1>2. CASE Crash
  BY <1>2, CrashKeeps
<1>3. CASE UNCHANGED vars
  BY <1>3 DEF vars, IInv, TypeOK, CallerOK, PartsOK, OneHolder, KeptLive, LentOK, HeldIsLive, Lost
<1> QED
  BY <1>1, <1>2, <1>3, NextSteps

(* The inductive invariant: every pointer is from a struct to a part it    *)
(* may have, every part but a borrowed command or a lent source or output  *)
(* has one holder, and what is never freed is there.                       *)
THEOREM OwnershipInvariant == Spec => []IInv
<1>1. Init => IInv
  BY InitOwnership
<1>2. IInv /\ [Next]_vars => IInv'
  BY NextOwnership
<1> QED
  BY <1>1, <1>2, PTL DEF Spec

(* However these calls follow each other, an init for the second time      *)
(* included, and whichever allocation fails: nothing is freed twice        *)
(* (context.c:18-33, config.c:234-268, command.c:116-134,                  *)
(* process.c:171-201), and nothing that was freed is within reach of what  *)
(* the caller still holds.                                                 *)
THEOREM NothingFreedIsHeld == Spec => []HeldIsLive
<1>1. IInv => HeldIsLive
  BY DEF IInv
<1> QED
  BY <1>1, OwnershipInvariant, PTL

(* In the same calls, memory goes out of reach for good through the fields *)
(* named in Dropped (with the struct that held it, context.c:24 and        *)
(* config.c:250-260) and Forgotten (overwritten or cleared), and through   *)
(* no other; or it was made in the very call (config.c:223-232, 328-337).  *)
THEOREM OnlyKnownLosses == Spec => LossesAreKnown
<1>1. IInv /\ [Next]_vars => [\A o \in Lost' \ Lost : KnownLoss(o)]_vars
  BY NextOwnership
<1> QED
  BY <1>1, OwnershipInvariant, PTL DEF Spec, LossesAreKnown
=============================================================================
