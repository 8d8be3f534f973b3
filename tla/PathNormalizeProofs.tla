------------------------ MODULE PathNormalizeProofs ------------------------
(***************************************************************************)
(* Theorems about ffpath_normalize(), for every path, every set of flags   *)
(* and every size of the buffer.                                           *)
(***************************************************************************)
EXTENDS PathNormalize, TLAPS, SequenceTheorems, WellFoundedInduction

-----------------------------------------------------------------------------
(* The first and the last separator. *)

\* A set of natural numbers has a least element, and a bounded one a greatest.
LEMMA Least ==
  ASSUME NEW T \in SUBSET Nat, T # {}
  PROVE  \E x \in T : \A y \in T : x <= y
<1> DEFINE R == OpToRel(<, Nat)
<1>1. IsWellFoundedOn(R, Nat)
  BY NatLessThanWellFounded
<1>2. \A x, y \in Nat : x < y => <<x, y>> \in R
  BY DEF OpToRel
<1> HIDE DEF R
<1>3. PICK x \in T : \A y \in T : ~(<<y, x>> \in R)
  BY <1>1, WFMin
<1>4. ASSUME NEW y \in T PROVE x <= y
  <2>1. x \in Nat /\ y \in Nat /\ ~(y < x)
    BY <1>2, <1>3
  <2> QED BY <2>1
<1> QED BY <1>4

LEMMA Greatest ==
  ASSUME NEW n \in Nat, NEW T \in SUBSET (1..n), T # {}
  PROVE  \E x \in T : \A y \in T : x >= y
<1> DEFINE U == {n - t : t \in T}
<1>0. \A t \in T : t \in 1..n /\ n - t \in Nat
  OBVIOUS
<1>1. U \in SUBSET Nat /\ U # {}
  BY <1>0
<1>2. PICK u \in U : \A v \in U : u <= v
  BY <1>1, Least
<1>3. PICK x \in T : u = n - x
  BY <1>2
<1>4. ASSUME NEW y \in T PROVE x >= y
  <2>1. x \in 1..n /\ y \in 1..n /\ n - x <= n - y
    BY <1>0, <1>2, <1>3
  <2> QED BY <2>1
<1> QED BY <1>4

LEMMA FirstSlashIn ==
  ASSUME NEW q \in Seq(Chars)
  PROVE  FirstSlash(q) \in 0..Len(q)
<1> DEFINE T == SlashesOf(q)
<1>1. T \in SUBSET (1..Len(q)) /\ T \in SUBSET Nat /\ Len(q) \in Nat
  BY DEF SlashesOf
<1>3. FirstSlash(q) = IF T = {} THEN 0 ELSE Min(T)
  BY DEF FirstSlash
<1> HIDE DEF T
<1>2. T # {} => Min(T) \in T
  <2>1. T # {} => \E x \in T : \A y \in T : x <= y
    BY <1>1, Least
  <2> QED BY <2>1 DEF Min
<1>4. CASE T = {}
  BY <1>1, <1>3, <1>4
<1>5. CASE T # {}
  <2>1. FirstSlash(q) = Min(T) /\ Min(T) \in 1..Len(q)
    BY <1>1, <1>2, <1>3, <1>5
  <2>2. \A i \in 1..Len(q) : i \in 0..Len(q)
    BY <1>1
  <2> QED BY <2>1, <2>2
<1> QED BY <1>4, <1>5

LEMMA LastSlashIn ==
  ASSUME NEW q \in Seq(Chars)
  PROVE  LastSlash(q) \in 0..Len(q)
<1> DEFINE T == SlashesOf(q)
<1>1. T \in SUBSET (1..Len(q)) /\ Len(q) \in Nat
  BY DEF SlashesOf
<1>3. LastSlash(q) = IF T = {} THEN 0 ELSE Max(T)
  BY DEF LastSlash
<1> HIDE DEF T
<1>2. T # {} => Max(T) \in T
  BY <1>1, Greatest DEF Max
<1>4. CASE T = {}
  BY <1>1, <1>3, <1>4
<1>5. CASE T # {}
  <2>1. LastSlash(q) = Max(T) /\ Max(T) \in 1..Len(q)
    BY <1>1, <1>2, <1>3, <1>5
  <2>2. \A i \in 1..Len(q) : i \in 0..Len(q)
    BY <1>1
  <2> QED BY <2>1, <2>2
<1> QED BY <1>4, <1>5

-----------------------------------------------------------------------------
(* What a step reads and what it keeps. *)

\* A component, its separator and what follows it are what was left to read.
LEMMA PartFacts ==
  ASSUME s \in Seq(Chars)
  PROVE  /\ Rest \in Seq(Chars) /\ Part \in Seq(Chars) /\ Separator \in Seq(Chars)
         /\ Len(Part) + Len(Separator) + Len(Rest) = Len(s)
<1>1. Pos \in 0..Len(s) /\ Len(s) \in Nat
  BY FirstSlashIn DEF Pos
<1>2. CASE Pos = 0
  <2>1. Part = s /\ Rest = <<>> /\ Separator = <<>>
    BY <1>2 DEF Part, Rest, Separator
  <2> QED BY <2>1
<1>3. CASE Pos # 0
  <2>1. Part = SubSeq(s, 1, Pos - 1) /\ Rest = SubSeq(s, Pos + 1, Len(s)) /\ Separator = <<SepOf(s[Pos])>>
    BY <1>3 DEF Part, Rest, Separator
  <2>2. s[Pos] \in Chars /\ SepOf(s[Pos]) \in Chars
    <3>1. s[Pos] \in Chars
      BY <1>1, <1>3
    <3>2. "/" \in Chars /\ "\\" \in Chars
      BY PathsAssumption
    <3> QED BY <3>1, <3>2 DEF SepOf
  <2>3. Part \in Seq(Chars) /\ Len(Part) = Pos - 1
    BY <1>1, <1>3, <2>1
  <2>4. Rest \in Seq(Chars) /\ Len(Rest) = Len(s) - Pos
    BY <1>1, <1>3, <2>1
  <2>5. Separator \in Seq(Chars) /\ Len(Separator) = 1
    BY <2>1, <2>2
  <2> QED BY <1>1, <2>3, <2>4, <2>5
<1> QED BY <1>2, <1>3

\* ".." only shortens the output.
LEMMA ParentFacts ==
  ASSUME dst \in Seq(Chars)
  PROVE  Parent \in Seq(Chars) /\ Len(Parent) <= Len(dst)
<1>1. CASE dst = <<>>
  BY <1>1 DEF Parent
<1>2. CASE dst # <<>>
  <2>1. Front(dst) \in Seq(Chars) /\ Len(Front(dst)) = Len(dst) - 1 /\ Len(dst) \in Nat \ {0}
    <3>1. Len(dst) \in Nat /\ Len(dst) # 0
      BY <1>2, EmptySeq
    <3> DEFINE n == Len(dst) - 1
    <3>2. 1 \in Int /\ n \in Nat /\ n \in Int /\ \A i \in 1..n : dst[i] \in Chars
      BY <3>1
    <3> HIDE DEF n
    <3>3. SubSeq(dst, 1, n) \in Seq(Chars) /\ Len(SubSeq(dst, 1, n)) = IF 1 <= n THEN n - 1 + 1 ELSE 0
      BY <3>2, SubSeqProperties
    <3>4. Len(SubSeq(dst, 1, n)) = n
      BY <3>2, <3>3
    <3> QED BY <3>1, <3>3, <3>4 DEF Front, n
  <2>2. PrevSlash(dst) \in 0..(Len(dst) - 1)
    BY <2>1, LastSlashIn DEF PrevSlash
  <2>3. Parent \in {SubSeq(dst, 1, PrevSlash(dst)), dst, <<>>}
    BY <1>2 DEF Parent
  <2>4. /\ SubSeq(dst, 1, PrevSlash(dst)) \in Seq(Chars)
        /\ Len(SubSeq(dst, 1, PrevSlash(dst))) <= Len(dst)
    BY <2>1, <2>2
  <2>5. <<>> \in Seq(Chars) /\ Len(<<>>) <= Len(dst)
    <3>1. <<>> \in Seq(Chars) /\ Len(<<>>) = 0
      OBVIOUS
    <3>2. 0 <= Len(dst)
      BY <2>1
    <3> QED BY <3>1, <3>2
  <2>6. Len(dst) <= Len(dst)
    BY <2>1
  <2> QED BY <2>3, <2>4, <2>5, <2>6
<1> QED BY <1>1, <1>2

LEMMA KeptFacts ==
  ASSUME dst \in Seq(Chars)
  PROVE  Kept \in Seq(Chars) /\ Len(Kept) <= Len(dst)
<1>1. Kept \in {<<>>, dst}
  BY DEF Kept
<1>2. <<>> \in Seq(Chars) /\ Len(<<>>) = 0
  OBVIOUS
<1>3. Len(dst) \in Nat /\ 0 <= Len(dst) /\ Len(dst) <= Len(dst)
  OBVIOUS
<1>4. CASE Kept = <<>>
  BY <1>2, <1>3, <1>4
<1>5. CASE Kept = dst
  BY <1>3, <1>5
<1> QED BY <1>1, <1>4, <1>5

-----------------------------------------------------------------------------
Types ==
  /\ src \in Seq(Chars) /\ s \in Seq(Chars) /\ dst \in Seq(Chars) /\ cap \in Nat
  /\ pc \in {"start", "loop", "ok", "error"}

IInv == Types /\ NeverOvertakes /\ FailsWhenShort

LEMMA InitInv ==
  ASSUME Init
  PROVE  IInv
<1>1. src \in Seq(Chars) /\ s = src /\ dst = <<>> /\ cap \in Nat /\ pc = "start"
  BY PathsAssumption DEF Init
<1> QED BY <1>1 DEF IInv, Types, NeverOvertakes, FailsWhenShort

\* A step that reads on and does not write more than it reads.
LEMMA Shorter ==
  ASSUME IInv, pc = "loop", pc' = pc, UNCHANGED input, s' = Rest,
         dst' \in Seq(Chars), Len(dst') <= cap,
         Len(dst') <= Len(dst) + Len(Part) + Len(Separator)
  PROVE  IInv'
<1>1. src' = src /\ cap' = cap
  BY DEF input
<1>2. /\ s' \in Seq(Chars) /\ Len(Part) + Len(Separator) + Len(s') = Len(s)
      /\ Len(Part) \in Nat /\ Len(Separator) \in Nat
  BY PartFacts DEF IInv, Types
<1>3. Len(dst) <= Len(src) - Len(s) /\ Len(dst) \in Nat /\ Len(src) \in Nat /\ Len(s) \in Nat
  BY DEF IInv, Types, NeverOvertakes
<1>4. Len(dst') \in Nat /\ Len(s') \in Nat
  BY <1>2
<1>5. NeverOvertakes'
  BY <1>1, <1>2, <1>3, <1>4 DEF NeverOvertakes
<1>6. Types' /\ FailsWhenShort'
  BY <1>1, <1>2 DEF IInv, Types, FailsWhenShort
<1> QED BY <1>5, <1>6 DEF IInv

LEMMA NextInv ==
  ASSUME IInv, [Next]_vars
  PROVE  IInv'
<1> USE DEF IInv
<1>0. /\ Types /\ Len(dst) \in Nat /\ Len(s) \in Nat /\ Len(src) \in Nat /\ cap \in Nat
      /\ Len(dst) <= Len(src) - Len(s) /\ Len(dst) <= cap
  BY DEF Types, NeverOvertakes
<1>p. /\ Rest \in Seq(Chars) /\ Part \in Seq(Chars) /\ Separator \in Seq(Chars)
      /\ Len(Part) + Len(Separator) + Len(Rest) = Len(s)
      /\ Len(Part) \in Nat /\ Len(Separator) \in Nat /\ Len(Rest) \in Nat
  BY PartFacts DEF Types
<1>1. CASE Copy
  <2>1. src' = src /\ cap' = cap /\ pc = "start"
    BY <1>1 DEF Copy, input
  <2>2. CASE Len(s) > cap
    <3>1. pc' = "error" /\ s' = s /\ dst' = dst
      BY <1>1, <2>2 DEF Copy
    <3>2. cap < Len(src)
      BY <1>0, <2>2
    <3> QED BY <2>1, <3>1, <3>2 DEF Types, NeverOvertakes, FailsWhenShort
  <2>3. CASE ~(Len(s) > cap)
    <3>1. pc' = "ok" /\ s' = <<>> /\ dst' = s
      BY <1>1, <2>3 DEF Copy
    <3>2. Len(dst') <= Len(src') - Len(s') /\ Len(dst') <= cap'
      BY <1>0, <2>1, <2>3, <3>1
    <3>3. Types'
      BY <2>1, <3>1 DEF Types
    <3> QED BY <3>1, <3>2, <3>3 DEF NeverOvertakes, FailsWhenShort
  <2> QED BY <2>2, <2>3
<1>2. CASE Start \/ Finish \/ Done \/ UNCHANGED vars
  <2>1. src' = src /\ cap' = cap /\ s' = s /\ dst' = dst
    BY <1>2 DEF Start, Finish, Done, vars, input
  <2>2. pc' \in {"start", "loop", "ok", "error"} /\ (pc' = "error" => pc = "error")
    BY <1>0, <1>2 DEF Start, Finish, Done, vars, Types
  <2> QED BY <2>1, <2>2 DEF Types, NeverOvertakes, FailsWhenShort
<1>3. CASE Skip \/ SkipDrive
  <2>1. pc = "loop" /\ pc' = pc /\ UNCHANGED input /\ s' = Rest /\ dst' = dst
    BY <1>3 DEF Skip, SkipDrive
  <2>2. dst' \in Seq(Chars) /\ Len(dst') <= cap /\ Len(dst') <= Len(dst) + Len(Part) + Len(Separator)
    BY <1>0, <1>p, <2>1 DEF Types
  <2> QED BY <2>1, <2>2, Shorter
<1>4. CASE Up
  <2>1. pc = "loop" /\ pc' = pc /\ UNCHANGED input /\ s' = Rest /\ dst' = Parent
    BY <1>4 DEF Up, Component
  <2>2. Parent \in Seq(Chars) /\ Len(Parent) <= Len(dst) /\ Len(Parent) \in Nat
    BY <1>0, ParentFacts DEF Types
  <2>3. Len(dst') <= cap /\ Len(dst') <= Len(dst) + Len(Part) + Len(Separator)
    BY <1>0, <1>p, <2>1, <2>2
  <2> QED BY <2>1, <2>2, <2>3, Shorter
<1>5. CASE Write
  <2>1. pc = "loop" /\ UNCHANGED input /\ s' = Rest
    BY <1>5 DEF Write, Component
  <2>2. Kept \in Seq(Chars) /\ Len(Kept) <= Len(dst) /\ Len(Kept) \in Nat
    BY <1>0, KeptFacts DEF Types
  <2>3. CASE Fits
    <3>1. pc' = pc /\ dst' = Kept \o Part \o Separator
      BY <1>5, <2>3 DEF Write
    <3>2. dst' \in Seq(Chars) /\ Len(dst') = Len(Kept) + Len(Part) + Len(Separator)
      BY <1>p, <2>2, <3>1
    <3>3. Len(dst') <= cap /\ Len(dst') <= Len(dst) + Len(Part) + Len(Separator)
      BY <1>0, <1>p, <2>2, <2>3, <3>2 DEF Fits
    <3> QED BY <2>1, <3>1, <3>2, <3>3, Shorter
  <2>4. CASE ~Fits
    <3>1. pc' = "error" /\ dst' = dst /\ src' = src /\ cap' = cap
      BY <1>5, <2>1, <2>4 DEF Write, input
    <3>2. cap < Len(src)
      BY <1>0, <1>p, <2>2, <2>4 DEF Fits
    <3>3. Len(dst') <= Len(src') - Len(s')
      BY <1>0, <1>p, <2>1, <3>1
    <3> QED BY <1>0, <1>p, <2>1, <3>1, <3>2, <3>3 DEF Types, NeverOvertakes, FailsWhenShort
  <2> QED BY <2>3, <2>4
<1> QED BY <1>1, <1>2, <1>3, <1>4, <1>5 DEF Next

\* The output fits the buffer and what is written was read before, so that ffmem_move() may
\* work in place, and ffpath_normalize() fails only for want of room.
LEMMA Invariance == Spec => []IInv
BY InitInv, NextInv, PTL DEF Spec

\* ffpath_normalize() never writes past its buffer, nor over what it has not read yet when
\* input and output are the same memory: for every path, set of flags and size.
THEOREM InPlace == Spec => []NeverOvertakes
<1>1. IInv => NeverOvertakes
  BY DEF IInv
<1> QED BY <1>1, Invariance, PTL

\* A buffer of the path's own size is always enough: ffpath_normalize() fails only when
\* it is smaller.
THEOREM EnoughRoom == Spec => []FailsWhenShort
<1>1. IInv => FailsWhenShort
  BY DEF IInv
<1> QED BY <1>1, Invariance, PTL

-----------------------------------------------------------------------------
(* The list of components. *)

\* Listed is the function that its definition says: there is one.
LEMMA ListedSteps ==
  ASSUME src \in Seq(Chars)
  PROVE  /\ Listed[0] = <<>>
         /\ \A p \in 1..(Len(src) + 1) : Listed[p] = IF Ends(p) THEN Add(Listed[p - 1], p) ELSE Listed[p - 1]
<1> DEFINE L == Len(src) + 1
           Is(n, g) == g = [i \in 0..n |-> IF i = 0 THEN <<>> ELSE (IF Ends(i) THEN Add(g[i - 1], i) ELSE g[i - 1])]
           T == {n \in 0..L : ~\E g : Is(n, g)}
<1>0. L \in Nat /\ 0 <= L
  BY LenProperties
<1> HIDE DEF L
<1>1. ASSUME T # {} PROVE FALSE
  <2>1. T \in SUBSET Nat
    <3>1. 0..L \subseteq Nat
      BY <1>0
    <3> QED BY <3>1
  <2>2. PICK x \in T : \A y \in T : x <= y
    <3> HIDE DEF T
    <3> QED BY <1>1, <2>1, Least
  <2>3. x \in 0..L /\ ~\E g : Is(x, g)
    BY <2>2
  <2>4. CASE x = 0
    <3> DEFINE g == [i \in 0..0 |-> <<>>]
    <3>1. Is(0, g)
      <4>1. 0..0 = {0}
        OBVIOUS
      <4> QED BY <4>1
    <3> QED BY <2>3, <2>4, <3>1
  <2>5. CASE x # 0
    <3>1. x - 1 \in 0..L /\ x - 1 \notin T
      <4>1. x - 1 \in 0..L /\ ~(x <= x - 1)
        BY <1>0, <2>3, <2>5
      <4> HIDE DEF T
      <4> QED BY <2>2, <4>1
    <3>2. PICK h : Is(x - 1, h)
      BY <3>1
    <3> DEFINE g == [i \in 0..x |-> IF i = x THEN (IF Ends(x) THEN Add(h[x - 1], x) ELSE h[x - 1]) ELSE h[i]]
    <3>3. \A i \in 0..(x - 1) : h[i] = IF i = 0 THEN <<>> ELSE (IF Ends(i) THEN Add(h[i - 1], i) ELSE h[i - 1])
      BY <3>2
    <3>4. \A i \in 0..x : g[i] = IF i = x THEN (IF Ends(x) THEN Add(h[x - 1], x) ELSE h[x - 1]) ELSE h[i]
      OBVIOUS
    <3>5. ASSUME NEW i \in 0..x PROVE g[i] = IF i = 0 THEN <<>> ELSE (IF Ends(i) THEN Add(g[i - 1], i) ELSE g[i - 1])
      <4> HIDE DEF g, Is, T
      <4>1. CASE i = x
        <5>1. i - 1 \in 0..x /\ i - 1 # x /\ i # 0
          BY <1>0, <2>3, <2>5, <4>1
        <5> QED BY <3>4, <4>1, <5>1
      <4>2. CASE i # x /\ i = 0
        <5>1. 0 \in 0..(x - 1)
          BY <1>0, <2>3, <2>5
        <5> QED BY <3>3, <3>4, <4>2, <5>1
      <4>3. CASE i # x /\ i # 0
        <5>1. i \in 0..(x - 1) /\ i - 1 \in 0..x /\ i - 1 # x
          BY <1>0, <2>3, <2>5, <4>3
        <5> QED BY <3>3, <3>4, <4>3, <5>1
      <4> QED BY <4>1, <4>2, <4>3
    <3>6. Is(x, g)
      <4>1. g = [i \in 0..x |-> g[i]]
        OBVIOUS
      <4> HIDE DEF g
      <4> QED BY <3>5, <4>1
    <3> QED BY <2>3, <3>6
  <2> QED BY <2>4, <2>5
<1>2. \E g : Is(L, g)
  <2>1. L \in 0..L
    BY <1>0
  <2> QED BY <1>1, <2>1
<1>3. Is(L, Listed)
  <2>1. Listed = CHOOSE g : Is(L, g)
    BY DEF Listed, L
  <2> HIDE DEF Is
  <2> QED BY <1>2, <2>1
<1>4. \A i \in 0..L : Listed[i] = IF i = 0 THEN <<>> ELSE (IF Ends(i) THEN Add(Listed[i - 1], i) ELSE Listed[i - 1])
  BY <1>3
<1>5. 0 \in 0..L /\ \A i \in 1..L : i \in 0..L /\ i # 0
  BY <1>0
<1> QED BY <1>4, <1>5 DEF L

\* The first separator is one, and none is before it.
LEMMA FirstSlashIs ==
  ASSUME NEW q \in Seq(Chars)
  PROVE  LET f == FirstSlash(q) IN
         /\ f = 0 => \A k \in 1..Len(q) : q[k] \notin Slashes
         /\ f # 0 => f \in 1..Len(q) /\ q[f] \in Slashes /\ \A k \in 1..(f - 1) : q[k] \notin Slashes
<1> DEFINE T == SlashesOf(q) f == FirstSlash(q)
<1>1. T \in SUBSET Nat /\ Len(q) \in Nat /\ \A k \in 1..Len(q) : k \in T <=> q[k] \in Slashes
  BY DEF SlashesOf
<1>2. \A k \in T : k \in 1..Len(q) /\ q[k] \in Slashes
  BY DEF SlashesOf
<1>3. f = IF T = {} THEN 0 ELSE Min(T)
  BY DEF FirstSlash
<1> HIDE DEF T, f
<1>4. CASE T = {}
  BY <1>1, <1>3, <1>4 DEF f
<1>5. CASE T # {}
  <2>1. f \in T /\ \A y \in T : f <= y
    <3>1. \E x \in T : \A y \in T : x <= y
      BY <1>1, <1>5, Least
    <3> QED BY <1>3, <1>5, <3>1 DEF Min
  <2>2. f \in 1..Len(q) /\ f # 0 /\ q[f] \in Slashes
    BY <1>1, <1>2, <2>1
  <2>3. ASSUME NEW k \in 1..(f - 1) PROVE q[k] \notin Slashes
    <3>1. k \in 1..Len(q) /\ ~(f <= k)
      BY <1>1, <2>2
    <3> QED BY <1>1, <2>1, <3>1
  <2> QED BY <2>2, <2>3 DEF f
<1> QED BY <1>4, <1>5

\* The last separator.
LEMMA LastSlashIs ==
  ASSUME NEW q \in Seq(Chars), NEW x \in 0..Len(q), x = 0 \/ q[x] \in Slashes,
         \A k \in (x + 1)..Len(q) : q[k] \notin Slashes
  PROVE  LastSlash(q) = x
<1> DEFINE T == SlashesOf(q) f == LastSlash(q) n == Len(q)
<1>1. n \in Nat /\ x \in 0..n /\ \A k \in 1..n : k \in T <=> q[k] \in Slashes
  BY DEF SlashesOf
<1>2. T \in SUBSET (1..n)
  BY DEF SlashesOf
<1>3. f = IF T = {} THEN 0 ELSE Max(T)
  BY DEF LastSlash
<1> HIDE DEF T, f, n
<1>4. \A k \in T : k \in 1..n /\ k <= x
  <2> SUFFICES ASSUME NEW k \in T, ~(k <= x) PROVE FALSE
    BY <1>2
  <2>1. k \in 1..n
    BY <1>2
  <2>2. k \in (x + 1)..n
    BY <1>1, <2>1
  <2> QED BY <1>1, <2>1, <2>2 DEF n
<1>5. CASE x = 0
  <2>1. T = {}
    BY <1>1, <1>4, <1>5
  <2> QED BY <1>3, <1>5, <2>1 DEF f
<1>6. CASE x # 0
  <2>1. x \in 1..n
    BY <1>1, <1>6
  <2>2. x \in T
    BY <1>1, <1>6, <2>1
  <2>3. f \in T /\ \A y \in T : f >= y
    BY <1>1, <1>2, <1>3, <2>2, Greatest DEF Max
  <2>4. f \in 1..n /\ f <= x /\ f >= x
    BY <1>4, <2>2, <2>3
  <2> QED BY <2>1, <2>4 DEF f
<1> QED BY <1>5, <1>6

\* Where a component begins.
LEMMA FromIs ==
  ASSUME src \in Seq(Chars), NEW a \in 0..Len(src), NEW p \in (a + 1)..(Len(src) + 1),
         a = 0 \/ src[a] \in Slashes, \A k \in (a + 1)..(p - 1) : src[k] \notin Slashes
  PROVE  From(p) = a + 1
<1> DEFINE n == Len(src) T == {0} \cup {k \in SlashesOf(src) : k < p} f == Max(T)
<1>1. n \in Nat /\ a \in 0..n /\ p \in (a + 1)..(n + 1)
  BY LenProperties
<1>2. \A k \in T : k = 0 \/ (k \in 1..n /\ src[k] \in Slashes /\ k < p)
  BY DEF SlashesOf
<1>3. a \in T
  <2>1. CASE a = 0
    BY <2>1
  <2>2. CASE a # 0
    <3>1. a \in 1..Len(src) /\ a < p
      <4>1. a \in 1..n /\ a < p
        <5> HIDE DEF n, T
        <5> QED BY <1>1, <2>2
      <4> QED BY <4>1
    <3> QED BY <2>2, <3>1 DEF SlashesOf
  <2> QED BY <2>1, <2>2
<1> HIDE DEF T, n
<1>4. ASSUME NEW k \in T PROVE k \in Nat /\ a >= k
  <2>1. CASE k = 0
    BY <1>1, <2>1
  <2>2. CASE k # 0
    <3>1. k \in 1..n /\ src[k] \in Slashes /\ k < p
      BY <1>2, <2>2
    <3>2. ~(a >= k) => k \in (a + 1)..(p - 1)
      BY <1>1, <3>1
    <3> QED BY <1>1, <3>1, <3>2
  <2> QED BY <2>1, <2>2
<1>5. f \in T /\ \A y \in T : f >= y
  BY <1>3, <1>4 DEF Max
<1>6. f \in Nat /\ a >= f /\ f >= a
  BY <1>3, <1>4, <1>5
<1>7. f = a
  <2> HIDE DEF f
  <2> QED BY <1>1, <1>6
<1> QED BY <1>7 DEF From, T

\* Nothing is added to the list between two separators.
LEMMA Between ==
  ASSUME src \in Seq(Chars), NEW a \in 0..Len(src), NEW p \in (a + 1)..(Len(src) + 1),
         \A k \in (a + 1)..(p - 1) : src[k] \notin Slashes
  PROVE  /\ Listed[p - 1] = Listed[a]
         /\ \A k \in (a + 1)..(p - 1) : ~Ends(k)
<1> DEFINE n == Len(src) T == {d \in 0..(p - 1 - a) : Listed[a + d] # Listed[a]}
<1>1. n \in Nat /\ a \in 0..n /\ p \in (a + 1)..(n + 1)
  BY LenProperties
<1>2. ASSUME NEW k \in (a + 1)..(p - 1) PROVE ~Ends(k) /\ k \in 1..n
  <2>1. k \in 1..n /\ k <= n
    BY <1>1
  <2> QED BY <2>1 DEF Ends
<1>3. ASSUME T # {} PROVE FALSE
  <2>1. T \in SUBSET Nat
    <3>1. 0..(p - 1 - a) \subseteq Nat
      BY <1>1
    <3> QED BY <3>1
  <2>2. PICK x \in T : \A y \in T : x <= y
    <3> HIDE DEF T
    <3> QED BY <1>3, <2>1, Least
  <2>3. x \in 0..(p - 1 - a) /\ Listed[a + x] # Listed[a]
    BY <2>2
  <2>4. x # 0
    <3>1. a + 0 = a
      BY <1>1
    <3> QED BY <2>3, <3>1
  <2>5. /\ x - 1 \in 0..(p - 1 - a) /\ ~(x <= x - 1) /\ a + x \in (a + 1)..(p - 1)
        /\ a + x \in 1..(n + 1) /\ a + x - 1 = a + (x - 1)
    <3> HIDE DEF T, n
    <3> QED BY <1>1, <2>3, <2>4
  <2>6. Listed[a + (x - 1)] = Listed[a]
    BY <2>2, <2>5
  <2>7. Listed[a + x] = Listed[a + x - 1]
    BY <1>2, <2>5, ListedSteps
  <2> QED BY <2>3, <2>5, <2>6, <2>7
<1>4. p - 1 - a \in 0..(p - 1 - a) /\ a + (p - 1 - a) = p - 1
  BY <1>1
<1>5. Listed[p - 1] = Listed[a]
  <2> DEFINE e == p - 1 - a
  <2>1. e \in 0..(p - 1 - a) /\ a + e = p - 1
    BY <1>4
  <2> HIDE DEF e
  <2>2. Listed[a + e] = Listed[a]
    BY <1>3, <2>1
  <2> QED BY <2>1, <2>2
<1> QED BY <1>2, <1>5

\* A piece of a sequence.
LEMMA Piece ==
  ASSUME NEW d \in Seq(Chars), NEW m \in Nat, NEW n \in Nat, 1 <= m, m <= n + 1, n <= Len(d)
  PROVE  /\ SubSeq(d, m, n) \in Seq(Chars) /\ Len(SubSeq(d, m, n)) = n - m + 1
         /\ \A i \in 1..(n - m + 1) : SubSeq(d, m, n)[i] = d[m + i - 1]
<1>1. \A i \in m..n : d[i] \in Chars
  <2>1. \A i \in m..n : i \in 1..Len(d)
    BY LenProperties
  <2> QED BY <2>1, ElementOfSeq
<1>2. m \in Int /\ n \in Int
  OBVIOUS
<1>3. /\ SubSeq(d, m, n) \in Seq(Chars) /\ Len(SubSeq(d, m, n)) = IF m <= n THEN n - m + 1 ELSE 0
      /\ \A i \in 1..(n - m + 1) : SubSeq(d, m, n)[i] = d[m + i - 1]
  BY <1>1, <1>2, SubSeqProperties
<1>4. (IF m <= n THEN n - m + 1 ELSE 0) = n - m + 1
  OBVIOUS
<1> QED BY <1>3, <1>4

\* What the search finds in a buffer that ends with a component and its separator.
EndsWith(d, u, t, c) ==
  /\ d = u \o t \o <<c>>
  /\ u \in Seq(Chars) /\ (u = <<>> \/ u[Len(u)] \in Slashes)
  /\ t \in Seq(Chars) /\ (\A k \in 1..Len(t) : t[k] \notin Slashes) /\ c \in Chars

LEMMA BufferEnds ==
  ASSUME NEW d, NEW u, NEW t, NEW c, EndsWith(d, u, t, c)
  PROVE  /\ d \in Seq(Chars) /\ d # <<>> /\ Len(d) = Len(u) + Len(t) + 1 /\ d[Len(d)] = c
         /\ PrevSlash(d) = Len(u) /\ Prev(d) = t /\ SubSeq(d, 1, PrevSlash(d)) = u
<1> DEFINE U == Len(u) T == Len(t) b == u \o t e == <<c>>
<1>0. u \in Seq(Chars) /\ t \in Seq(Chars) /\ c \in Chars /\ d = u \o t \o <<c>>
  BY DEF EndsWith
<1>1. U \in Nat /\ T \in Nat /\ e \in Seq(Chars) /\ Len(e) = 1 /\ e[1] = c
  BY <1>0, LenProperties
<1>2. /\ b \in Seq(Chars) /\ Len(b) = U + T
      /\ \A i \in 1..(U + T) : b[i] = IF i <= U THEN u[i] ELSE t[i - U]
  BY <1>0, ConcatProperties
<1> HIDE DEF b, U, T, e
<1>3. /\ d \in Seq(Chars) /\ Len(d) = U + T + 1
      /\ \A i \in 1..(U + T + 1) : d[i] = IF i <= U + T THEN b[i] ELSE e[i - (U + T)]
  <2>1. d = b \o e
    BY <1>0 DEF b, e
  <2>0. b \in Seq(Chars) /\ e \in Seq(Chars)
    BY <1>1, <1>2
  <2>2. /\ b \o e \in Seq(Chars) /\ Len(b \o e) = Len(b) + Len(e)
        /\ \A i \in 1..(Len(b) + Len(e)) : (b \o e)[i] = IF i <= Len(b) THEN b[i] ELSE e[i - Len(b)]
    BY <2>0, ConcatProperties
  <2> QED BY <1>1, <1>2, <2>1, <2>2
<1>4. d # <<>>
  <2>1. Len(d) # 0
    BY <1>1, <1>3
  <2> QED BY <2>1, EmptySeq
<1>5. d[U + T + 1] = c
  <2> DEFINE g == U + T + 1 h == g - (U + T)
  <2>1. g \in 1..(U + T + 1) /\ ~(g <= U + T) /\ h = 1
    BY <1>1
  <2>2. d[g] = e[h]
    <3> HIDE DEF g
    <3> QED BY <1>3, <2>1
  <2> HIDE DEF h
  <2> QED BY <1>1, <2>1, <2>2
<1>6. \A i \in 1..U : d[i] = u[i]
  <2> SUFFICES ASSUME NEW i \in 1..U PROVE d[i] = u[i]
    OBVIOUS
  <2>1. i \in 1..(U + T + 1) /\ i <= U + T /\ i \in 1..(U + T) /\ i <= U
    BY <1>1
  <2> QED BY <1>2, <1>3, <2>1
<1>7. \A i \in 1..T : d[U + i] = t[i] /\ b[U + i] = t[i]
  <2> SUFFICES ASSUME NEW i \in 1..T PROVE d[U + i] = t[i] /\ b[U + i] = t[i]
    OBVIOUS
  <2> DEFINE g == U + i h == g - U
  <2>1. g \in 1..(U + T + 1) /\ g <= U + T /\ g \in 1..(U + T) /\ ~(g <= U) /\ h = i
    BY <1>1
  <2>2. d[g] = b[g] /\ b[g] = t[h]
    <3> HIDE DEF g
    <3> QED BY <1>2, <1>3, <2>1
  <2> HIDE DEF h
  <2> QED BY <2>1, <2>2
<1>8. Front(d) = b
  <2> DEFINE n == U + T f == SubSeq(d, 1, n)
  <2>1. n \in Nat /\ n \in Int /\ Len(d) - 1 = n /\ n = Len(b) /\ \A i \in 1..n : i \in 1..(U + T + 1) /\ i <= U + T
    BY <1>1, <1>2, <1>3
  <2>2. \A i \in 1..n : d[i] \in Chars
    <3>1. \A i \in 1..n : i \in 1..Len(d)
      BY <1>3, <2>1
    <3> QED BY <1>3, <3>1, ElementOfSeq
  <2> HIDE DEF n
  <2>3. /\ f \in Seq(Chars) /\ Len(f) = IF 1 <= n THEN n - 1 + 1 ELSE 0
        /\ \A i \in 1..(n - 1 + 1) : f[i] = d[1 + i - 1]
    BY <2>1, <2>2, SubSeqProperties
  <2>4. Len(f) = n /\ n - 1 + 1 = n /\ \A i \in 1..n : 1 + i - 1 = i
    BY <2>1, <2>3
  <2>5. \A i \in 1..n : f[i] = b[i]
    <3> HIDE DEF f
    <3> SUFFICES ASSUME NEW i \in 1..n PROVE f[i] = b[i]
      OBVIOUS
    <3>1. f[i] = d[i]
      BY <2>3, <2>4
    <3> QED BY <1>3, <2>1, <3>1
  <2> HIDE DEF f
  <2>6. f = b
    BY <1>2, <2>1, <2>3, <2>4, <2>5, SeqEqual
  <2> QED BY <2>1, <2>6 DEF Front, f
<1>9. PrevSlash(d) = U
  <2>1. U \in 0..Len(b)
    BY <1>1, <1>2
  <2>2. U = 0 \/ b[U] \in Slashes
    <3>1. CASE U = 0
      BY <3>1
    <3>2. CASE U # 0
      <4>1. u[U] \in Slashes
        BY <1>0, <3>2, EmptySeq DEF U, EndsWith
      <4>2. U \in 1..(U + T) /\ U <= U
        BY <1>1, <3>2
      <4> QED BY <1>2, <4>1, <4>2
    <3> QED BY <3>1, <3>2
  <2>3. \A k \in (U + 1)..Len(b) : b[k] \notin Slashes
    <3> SUFFICES ASSUME NEW k \in (U + 1)..Len(b) PROVE b[k] \notin Slashes
      OBVIOUS
    <3> DEFINE i == k - U
    <3>1. i \in 1..T /\ U + i = k
      BY <1>1, <1>2
    <3> HIDE DEF i
    <3>2. b[k] = t[i]
      BY <1>7, <3>1
    <3> QED BY <3>1, <3>2 DEF T, EndsWith
  <2>4. LastSlash(b) = U
    BY <1>2, <2>1, <2>2, <2>3, LastSlashIs
  <2> QED BY <1>8, <2>4 DEF PrevSlash
<1>10. Prev(d) = t
  <2> DEFINE m == U + 1 n == U + T f == SubSeq(d, m, n)
  <2>1. m \in Nat /\ n \in Nat /\ 1 <= m /\ m <= n + 1 /\ n <= Len(d)
    BY <1>1, <1>3
  <2>2. Len(d) - 1 = n /\ n - m + 1 = T /\ \A i \in 1..T : m + i - 1 = U + i
    BY <1>1, <1>3
  <2> HIDE DEF m, n
  <2>4. f \in Seq(Chars) /\ Len(f) = n - m + 1 /\ \A i \in 1..(n - m + 1) : f[i] = d[m + i - 1]
    BY <1>3, <2>1, Piece
  <2> HIDE DEF f
  <2>5. Len(f) = T /\ \A i \in 1..T : f[i] = t[i]
    <3>1. Len(f) = T
      BY <2>2, <2>4
    <3>2. ASSUME NEW i \in 1..T PROVE f[i] = t[i]
      <4>1. f[i] = d[m + i - 1] /\ m + i - 1 = U + i
        BY <2>2, <2>4
      <4> QED BY <1>7, <4>1
    <3> QED BY <3>1, <3>2
  <2>6. f = t
    BY <1>0, <2>4, <2>5, SeqEqual DEF T
  <2> QED BY <1>9, <2>2, <2>6 DEF Prev, f, m
<1>11. SubSeq(d, 1, U) = u
  <2> DEFINE m == 1 f == SubSeq(d, m, U)
  <2>1. m \in Nat /\ U \in Nat /\ 1 <= m /\ m <= U + 1 /\ U <= Len(d)
    BY <1>1, <1>3
  <2>2. U - m + 1 = U /\ \A i \in 1..U : m + i - 1 = i
    BY <1>1
  <2> HIDE DEF m
  <2>4. f \in Seq(Chars) /\ Len(f) = U - m + 1 /\ \A i \in 1..(U - m + 1) : f[i] = d[m + i - 1]
    BY <1>3, <2>1, Piece
  <2> HIDE DEF f
  <2>5. Len(f) = U /\ \A i \in 1..U : f[i] = u[i]
    BY <1>6, <2>2, <2>4
  <2>6. f = u
    BY <1>0, <2>4, <2>5, SeqEqual DEF U
  <2> QED BY <2>6 DEF f, m
<1> QED BY <1>3, <1>4, <1>5, <1>9, <1>10, <1>11 DEF U, T

-----------------------------------------------------------------------------
(* The buffer and the list. *)

\* A list whose components are names with a separator, each path being the one before it and
\* the component; only the first one may be empty or a dot.
Items == [text : Seq(Chars), path : Seq(Chars)]
PathBefore(list, i) == IF i = 1 THEN <<>> ELSE list[i - 1].path
Level(list, i) ==
  /\ \A k \in 1..Len(list[i].text) : list[i].text[k] \notin Slashes
  /\ \E c \in Slashes : list[i].path = PathBefore(list, i) \o list[i].text \o <<c>>
  /\ i # 1 => list[i].text \notin {<<>>, Dot}
Shape(list) == list \in Seq(Items) /\ \A i \in 1..Len(list) : Level(list, i)

LEMMA SlashChars == Slashes \subseteq Chars
BY PathsAssumption DEF Slashes

\* Every path on the list ends with a separator.
LEMMA PathEnds ==
  ASSUME NEW list, Shape(list), NEW i \in 1..Len(list)
  PROVE  list[i].path \in Seq(Chars) /\ list[i].path # <<>> /\ list[i].path[Len(list[i].path)] \in Slashes
<1> DEFINE v == list[i].path u == PathBefore(list, i) t == list[i].text
<1>1. list[i] \in Items
  BY ElementOfSeq DEF Shape
<1>2. v \in Seq(Chars) /\ t \in Seq(Chars)
  BY <1>1 DEF Items
<1>3. u \in Seq(Chars)
  <2>1. CASE i = 1
    BY <2>1 DEF PathBefore
  <2>2. CASE i # 1
    <3>1. i - 1 \in 1..Len(list)
      BY <2>2, LenProperties DEF Shape
    <3>2. list[i - 1] \in Items
      BY <3>1, ElementOfSeq DEF Shape
    <3> QED BY <2>2, <3>2 DEF PathBefore, Items
  <2> QED BY <2>1, <2>2
<1>4. PICK c \in Slashes : v = u \o t \o <<c>>
  BY DEF Shape, Level
<1> DEFINE b == u \o t e == <<c>> n == Len(b)
<1>5. b \in Seq(Chars)
  BY <1>2, <1>3, ConcatProperties
<1>6. e \in Seq(Chars) /\ Len(e) = 1 /\ e[1] = c /\ v = b \o e
  BY <1>4, SlashChars
<1> HIDE DEF b, e, v
<1>7. n \in Nat
  BY <1>5, LenProperties
<1>8. Len(v) = n + 1 /\ \A k \in 1..(n + 1) : v[k] = IF k <= n THEN b[k] ELSE e[k - n]
  <2>1. /\ Len(b \o e) = Len(b) + Len(e)
        /\ \A k \in 1..(Len(b) + Len(e)) : (b \o e)[k] = IF k <= Len(b) THEN b[k] ELSE e[k - Len(b)]
    BY <1>5, <1>6, ConcatProperties
  <2> QED BY <1>6, <2>1
<1> HIDE DEF n
<1> DEFINE g == n + 1 h == g - n
<1>9. g \in 1..(n + 1) /\ ~(g <= n) /\ h = 1 /\ g # 0
  BY <1>7
<1>10. v[g] = e[h]
  <2> HIDE DEF g
  <2> QED BY <1>8, <1>9
<1>11. v[g] \in Slashes
  <2> HIDE DEF h
  <2> QED BY <1>6, <1>9, <1>10
<1>12. v # <<>>
  <2>1. Len(v) # 0
    BY <1>7, <1>8
  <2> QED BY <1>2, <2>1, EmptySeq DEF v
<1> QED BY <1>2, <1>8, <1>11, <1>12 DEF v

\* What the search finds is the last component of the list, and what is before it is the
\* path of the one before.
LEMMA TopFacts ==
  ASSUME NEW list, Shape(list), list # <<>>, NEW d, d = PathOf(list)
  PROVE  LET n == Len(list) u == PathBefore(list, n) IN
         /\ n \in Nat /\ n # 0 /\ Last(list) = list[n]
         /\ list[n].text \in Seq(Chars) /\ u \in Seq(Chars) /\ d \in Seq(Chars) /\ d # <<>>
         /\ PrevSlash(d) = Len(u) /\ Prev(d) = list[n].text /\ SubSeq(d, 1, PrevSlash(d)) = u
         /\ n = 1 => u = <<>> /\ Len(u) = 0
         /\ n # 1 => Len(u) # 0 /\ list[n].text \notin {<<>>, Dot}
         /\ Len(d) = Len(u) + Len(list[n].text) + 1
<1> DEFINE n == Len(list) u == PathBefore(list, n) t == list[n].text
<1>1. n \in Nat /\ n # 0 /\ n \in 1..n
  BY EmptySeq DEF Shape
<1>2. Last(list) = list[n] /\ d = list[n].path
  BY DEF PathOf, Last
<1>3. t \in Seq(Chars)
  <2>1. list[n] \in Items
    BY <1>1, ElementOfSeq DEF Shape
  <2> QED BY <2>1 DEF Items
<1>4. Level(list, n)
  BY <1>1 DEF Shape
<1>5. n = 1 => u = <<>> /\ Len(u) = 0
  BY DEF PathBefore
<1>6. n # 1 => /\ u \in Seq(Chars) /\ u # <<>> /\ u[Len(u)] \in Slashes
               /\ t \notin {<<>>, Dot}
  <2> SUFFICES ASSUME n # 1 PROVE /\ u \in Seq(Chars) /\ u # <<>> /\ u[Len(u)] \in Slashes
                                  /\ t \notin {<<>>, Dot}
    OBVIOUS
  <2>1. n - 1 \in 1..n
    <3> HIDE DEF n
    <3> QED BY <1>1
  <2>2. u = list[n - 1].path
    BY DEF PathBefore
  <2> DEFINE i == n - 1
  <2> HIDE DEF i
  <2>3. list[i].path \in Seq(Chars) /\ list[i].path # <<>> /\ list[i].path[Len(list[i].path)] \in Slashes
    BY <2>1, PathEnds DEF i
  <2> QED BY <1>4, <2>2, <2>3 DEF Level, i
<1>7. u \in Seq(Chars) /\ (u = <<>> \/ u[Len(u)] \in Slashes) /\ (n # 1 => Len(u) # 0)
  <2>1. CASE n = 1
    <3>1. <<>> \in Seq(Chars)
      OBVIOUS
    <3> QED BY <1>5, <2>1, <3>1
  <2>2. CASE n # 1
    BY <1>6, <2>2, EmptySeq
  <2> QED BY <2>1, <2>2
<1>8. PICK c \in Slashes : d = u \o t \o <<c>>
  BY <1>2, <1>4 DEF Level
<1>9. \A k \in 1..Len(t) : t[k] \notin Slashes
  BY <1>4 DEF Level
<1>10. c \in Chars
  BY SlashChars
<1> HIDE DEF u, t, n
<1>11. /\ d \in Seq(Chars) /\ d # <<>> /\ Len(d) = Len(u) + Len(t) + 1
       /\ PrevSlash(d) = Len(u) /\ Prev(d) = t /\ SubSeq(d, 1, PrevSlash(d)) = u
  <2>1. EndsWith(d, u, t, c)
    BY <1>3, <1>7, <1>8, <1>9, <1>10 DEF EndsWith
  <2> QED BY <2>1, BufferEnds
<1> QED BY <1>1, <1>2, <1>3, <1>5, <1>6, <1>7, <1>11 DEF u, t, n

\* Without its last component it has the same shape.
LEMMA FrontShape ==
  ASSUME NEW list, Shape(list), list # <<>>
  PROVE  Shape(Front(list)) /\ PathOf(Front(list)) = PathBefore(list, Len(list))
<1> DEFINE n == Len(list) m == n - 1 f == SubSeq(list, 1, m)
<1>1. n \in Nat /\ n # 0 /\ list \in Seq(Items)
  BY EmptySeq DEF Shape
<1>2. Front(list) = f
  BY DEF Front
<1>3. m \in Nat /\ m \in Int /\ 1 \in Int /\ \A i \in 1..m : i \in 1..n
  <2> HIDE DEF n
  <2> QED BY <1>1
<1>4. \A i \in 1..m : list[i] \in Items
  BY <1>1, <1>3, ElementOfSeq
<1> HIDE DEF m
<1>5. /\ f \in Seq(Items) /\ Len(f) = IF 1 <= m THEN m - 1 + 1 ELSE 0
      /\ \A i \in 1..(m - 1 + 1) : f[i] = list[1 + i - 1]
  BY <1>3, <1>4, SubSeqProperties
<1> HIDE DEF f
<1>6. Len(f) = m /\ \A i \in 1..m : f[i] = list[i]
  <2>1. m - 1 + 1 = m /\ (IF 1 <= m THEN m - 1 + 1 ELSE 0) = m /\ \A i \in 1..m : 1 + i - 1 = i
    BY <1>3
  <2> QED BY <1>5, <2>1
<1>7. ASSUME NEW i \in 1..m PROVE Level(f, i)
  <2>1. Level(list, i) /\ f[i] = list[i]
    BY <1>3, <1>6 DEF Shape
  <2>2. PathBefore(f, i) = PathBefore(list, i)
    <3>1. CASE i = 1
      BY <3>1 DEF PathBefore
    <3>2. CASE i # 1
      <4>1. i - 1 \in 1..m
        BY <1>3, <3>2
      <4> QED BY <1>6, <3>2, <4>1 DEF PathBefore
    <3> QED BY <3>1, <3>2
  <2> QED BY <2>1, <2>2 DEF Level
<1>8. PathOf(f) = PathBefore(list, n)
  <2>1. CASE m = 0
    <3>1. f = <<>> /\ n = 1
      <4>1. n = 1
        <5> HIDE DEF n
        <5> QED BY <1>1, <2>1 DEF m
      <4>2. f = <<>>
        BY <1>5, <1>6, <2>1, EmptySeq
      <4> QED BY <4>1, <4>2
    <3> QED BY <3>1 DEF PathOf, PathBefore
  <2>2. CASE m # 0
    <3>1. f # <<>> /\ m \in 1..m /\ n # 1 /\ m = n - 1
      <4>1. m \in 1..m
        BY <1>3, <2>2
      <4>2. f # <<>>
        BY <1>6, <2>2, EmptySeq
      <4>3. n # 1 /\ m = n - 1
        <5> HIDE DEF n
        <5> QED BY <1>1, <2>2 DEF m
      <4> QED BY <4>1, <4>2, <4>3
    <3>2. PathOf(f) = list[m].path
      BY <1>6, <3>1 DEF PathOf, Last
    <3> QED BY <3>1, <3>2 DEF PathBefore
  <2> QED BY <2>1, <2>2
<1> QED BY <1>2, <1>5, <1>6, <1>7, <1>8 DEF Shape

\* With one more component it has, too.
LEMMA PushShape ==
  ASSUME NEW list, Shape(list), NEW t \in Seq(Chars), \A k \in 1..Len(t) : t[k] \notin Slashes,
         NEW c \in Slashes, list # <<>> => t \notin {<<>>, Dot},
         NEW r, r = [text |-> t, path |-> PathOf(list) \o t \o <<c>>]
  PROVE  Shape(Append(list, r)) /\ PathOf(Append(list, r)) = PathOf(list) \o t \o <<c>>
<1> DEFINE n == Len(list) a == Append(list, r) v == PathOf(list)
<1>1. list \in Seq(Items) /\ n \in Nat
  BY LenProperties DEF Shape
<1>2. v \in Seq(Chars)
  <2>1. CASE list = <<>>
    BY <2>1 DEF PathOf
  <2>2. CASE list # <<>>
    BY <2>2, TopFacts
  <2> QED BY <2>1, <2>2
<1>3. r \in Items
  <2>1. c \in Chars
    BY SlashChars
  <2> HIDE DEF v
  <2>2. v \o t \in Seq(Chars)
    BY <1>2, ConcatProperties
  <2>3. <<c>> \in Seq(Chars)
    BY <2>1
  <2> DEFINE b == v \o t e == <<c>>
  <2> HIDE DEF b, e
  <2>4. b \o e \in Seq(Chars)
    BY <2>2, <2>3, ConcatProperties DEF b, e
  <2> QED BY <2>4 DEF Items, b, e, v
<1>4. /\ a \in Seq(Items) /\ Len(a) = n + 1 /\ a[n + 1] = r
      /\ \A i \in 1..n : a[i] = list[i]
  BY <1>1, <1>3
<1>5. a # <<>> /\ n + 1 # 0
  <2>1. n + 1 # 0
    BY <1>1
  <2> HIDE DEF a, n
  <2> QED BY <1>4, <2>1, EmptySeq
<1>6. PathOf(a) = v \o t \o <<c>>
  <2>1. r.path = v \o t \o <<c>> /\ Last(a) = r
    BY <1>4 DEF Last
  <2> QED BY <1>5, <2>1 DEF PathOf
<1> HIDE DEF a
<1>7. ASSUME NEW i \in 1..n PROVE Level(a, i)
  <2>1. Level(list, i) /\ a[i] = list[i]
    BY <1>4 DEF Shape
  <2>2. PathBefore(a, i) = PathBefore(list, i)
    <3>1. CASE i = 1
      BY <3>1 DEF PathBefore
    <3>2. CASE i # 1
      <4>1. i - 1 \in 1..n
        <5> HIDE DEF n
        <5> QED BY <1>1, <3>2
      <4> QED BY <1>4, <3>2, <4>1 DEF PathBefore
    <3> QED BY <3>1, <3>2
  <2> QED BY <2>1, <2>2 DEF Level
<1>8. Level(a, n + 1)
  <2>1. PathBefore(a, n + 1) = v
    <3>1. CASE list = <<>>
      <4>1. n = 0
        BY <3>1
      <4> QED BY <3>1, <4>1 DEF PathBefore, PathOf
    <3>2. CASE list # <<>>
      <4>1. n # 0
        BY <1>1, <3>2, EmptySeq
      <4>2. n \in 1..n /\ n + 1 # 1 /\ n + 1 - 1 = n
        <5> HIDE DEF n
        <5> QED BY <1>1, <4>1
      <4> QED BY <1>4, <3>2, <4>2 DEF PathBefore, PathOf, Last
    <3> QED BY <3>1, <3>2
  <2>2. n + 1 # 1 => list # <<>>
    BY <1>1
  <2>3. a[n + 1] = r /\ r.text = t /\ r.path = v \o t \o <<c>>
    BY <1>4
  <2> DEFINE w == v \o t \o <<c>> x == n + 1
  <2> HIDE DEF w, v, x
  <2>4. a[x].text = t /\ a[x].path = w /\ PathBefore(a, x) = v /\ (x # 1 => t \notin {<<>>, Dot})
    BY <2>1, <2>2, <2>3 DEF x, w
  <2> QED BY <2>4 DEF Level, w, x
<1>9. \A i \in 1..(n + 1) : i \in 1..n \/ i = n + 1
  <2> HIDE DEF n
  <2> QED BY <1>1
<1> QED BY <1>4, <1>6, <1>7, <1>8, <1>9 DEF Shape, a

\* What is left to read begins after position a, which is a separator.
Reading(a) ==
  /\ s # <<>> /\ a = Len(src) - Len(s) /\ s = SubSeq(src, a + 1, Len(src))
  /\ a = 0 \/ src[a] \in Slashes

\* The next component ends at p.
IsNext(a, p) ==
  /\ Ends(p) /\ From(p) = a + 1 /\ Text(p) = Part /\ Sep(p) = Separator
  /\ Listed[p] = Add(Listed[a], p)
  /\ \A k \in (a + 1)..(p - 1) : ~Ends(k)
  /\ \A k \in 1..Len(Part) : Part[k] \notin Slashes
  /\ p <= Len(src) => /\ src[p] \in Slashes /\ Separator = <<SepOf(src[p])>>
                      /\ Rest = SubSeq(src, p + 1, Len(src)) /\ Len(Rest) = Len(src) - p
  /\ p > Len(src) => Rest = <<>>

LEMMA NextComponent ==
  ASSUME src \in Seq(Chars), s \in Seq(Chars), NEW a \in 0..Len(src), Reading(a)
  PROVE  \E p \in (a + 1)..(Len(src) + 1) : IsNext(a, p)
<1> DEFINE N == Len(src) n == Len(s)
<1>0. N \in Nat /\ n \in Nat /\ n # 0 /\ a = N - n /\ a \in 0..N
  BY EmptySeq DEF Reading
<1>1. \A i \in 1..n : s[i] = src[a + i]
  <2> DEFINE m == a + 1 f == SubSeq(src, m, N)
  <2>1. m \in Nat /\ N \in Nat /\ 1 <= m /\ m <= N + 1 /\ N <= Len(src) /\ N - m + 1 = n
    <3>1. N <= Len(src)
      BY <1>0
    <3> HIDE DEF N, n
    <3> QED BY <1>0, <3>1
  <2>2. \A i \in 1..n : m + i - 1 = a + i
    <3> HIDE DEF N, n
    <3> QED BY <1>0
  <2>3. s = f
    BY DEF Reading
  <2> HIDE DEF m, N
  <2>4. \A i \in 1..(N - m + 1) : f[i] = src[m + i - 1]
    BY <2>1, Piece
  <2> HIDE DEF f, n
  <2> QED BY <2>1, <2>2, <2>3, <2>4
<1>2. a = 0 \/ src[a] \in Slashes
  BY DEF Reading
<1>3. /\ Pos = 0 => \A k \in 1..n : s[k] \notin Slashes
      /\ Pos # 0 => Pos \in 1..n /\ s[Pos] \in Slashes /\ \A k \in 1..(Pos - 1) : s[k] \notin Slashes
  BY FirstSlashIs DEF Pos
<1>4. CASE Pos = 0
  <2> DEFINE p == N + 1
  <2>1. /\ p \in (a + 1)..(N + 1) /\ p - 1 = N /\ p > N /\ ~(p <= N) /\ p \in 1..(N + 1)
        /\ \A k \in (a + 1)..(p - 1) : k - a \in 1..n /\ a + (k - a) = k
        /\ N \in (a + 1)..(p - 1)
    <3> HIDE DEF N, n
    <3> QED BY <1>0
  <2>2. \A k \in (a + 1)..(p - 1) : src[k] \notin Slashes
    <3> SUFFICES ASSUME NEW k \in (a + 1)..(p - 1) PROVE src[k] \notin Slashes
      OBVIOUS
    <3> DEFINE i == k - a
    <3>1. i \in 1..n /\ a + i = k
      BY <2>1
    <3> HIDE DEF i, n, N, p
    <3> QED BY <1>1, <1>3, <1>4, <3>1
  <2>3. Part = s /\ Rest = <<>> /\ Separator = <<>>
    BY <1>4 DEF Part, Rest, Separator
  <2>4. src # <<>>
    BY <1>0
  <2>5. Ends(p) /\ Sep(p) = <<>>
    BY <2>1, <2>2, <2>4 DEF Ends, Sep
  <2>6. From(p) = a + 1 /\ Listed[p - 1] = Listed[a] /\ \A k \in (a + 1)..(p - 1) : ~Ends(k)
    <3> HIDE DEF p
    <3> QED BY <1>2, <2>1, <2>2, FromIs, Between, SMTT(30)
  <2>7. Text(p) = s
    BY <2>1, <2>6 DEF Text, Reading
  <2>8. Listed[p] = Add(Listed[a], p)
    BY <2>1, <2>5, <2>6, ListedSteps
  <2>9. IsNext(a, p)
    <3> HIDE DEF p
    <3> QED BY <1>3, <1>4, <2>1, <2>3, <2>5, <2>6, <2>7, <2>8 DEF IsNext
  <2> HIDE DEF p
  <2> QED BY <2>1, <2>9
<1>5. CASE Pos # 0
  <2> DEFINE P == Pos p == a + P
  <2>0. P \in 1..n /\ s[P] \in Slashes /\ \A k \in 1..(P - 1) : s[k] \notin Slashes
    BY <1>3, <1>5
  <2> HIDE DEF P
  <2>1. /\ p \in (a + 1)..(N + 1) /\ p <= N /\ ~(p > N) /\ p \in 1..(N + 1)
        /\ \A k \in (a + 1)..(p - 1) : k - a \in 1..(P - 1) /\ k - a \in 1..n /\ a + (k - a) = k
        /\ p \in Nat
    <3> HIDE DEF N, n
    <3> QED BY <1>0, <2>0
  <2>2. \A k \in (a + 1)..(p - 1) : src[k] \notin Slashes
    <3> SUFFICES ASSUME NEW k \in (a + 1)..(p - 1) PROVE src[k] \notin Slashes
      OBVIOUS
    <3> DEFINE i == k - a
    <3>1. i \in 1..n /\ i \in 1..(P - 1) /\ a + i = k
      BY <2>1
    <3> HIDE DEF i, n, N, p
    <3> QED BY <1>1, <2>0, <3>1
  <2>3. s[P] = src[p]
    BY <1>1, <2>0
  <2>4. /\ Part = SubSeq(s, 1, P - 1) /\ Rest = SubSeq(s, P + 1, n) /\ Separator = <<SepOf(src[p])>>
    <3> HIDE DEF p
    <3> QED BY <1>5, <2>3 DEF Part, Rest, Separator, P
  <2>5. Ends(p) /\ Sep(p) = <<SepOf(src[p])>>
    <3> HIDE DEF p
    <3> QED BY <2>0, <2>1, <2>3 DEF Ends, Sep
  <2>6. From(p) = a + 1 /\ Listed[p - 1] = Listed[a] /\ \A k \in (a + 1)..(p - 1) : ~Ends(k)
    <3> HIDE DEF p
    <3> QED BY <1>2, <2>1, <2>2, FromIs, Between
  <2>7. Text(p) = Part
    <3> DEFINE m == a + 1 e == p - 1 t == SubSeq(src, m, e) o == 1 h == P - 1 q == SubSeq(s, o, h)
    <3>1. /\ m \in Nat /\ e \in Nat /\ 1 <= m /\ m <= e + 1 /\ e <= N /\ e - m + 1 = h
          /\ o \in Nat /\ h \in Nat /\ 1 <= o /\ o <= h + 1 /\ h <= n /\ h - o + 1 = h
          /\ \A i \in 1..h : m + i - 1 = a + i /\ o + i - 1 = i /\ i \in 1..n
      <4> HIDE DEF N, n
      <4> QED BY <1>0, <2>0, <2>1
    <3>2. Text(p) = t /\ Part = q
      BY <2>4, <2>6 DEF Text
    <3> HIDE DEF m, e, o, h
    <3>3. t \in Seq(Chars) /\ Len(t) = e - m + 1 /\ \A i \in 1..(e - m + 1) : t[i] = src[m + i - 1]
      BY <3>1, Piece
    <3>4. q \in Seq(Chars) /\ Len(q) = h - o + 1 /\ \A i \in 1..(h - o + 1) : q[i] = s[o + i - 1]
      BY <3>1, Piece
    <3> HIDE DEF t, q, n, N
    <3>5. Len(t) = h /\ Len(q) = h /\ \A i \in 1..h : t[i] = src[a + i] /\ q[i] = s[i]
      BY <3>1, <3>3, <3>4
    <3>6. \A i \in 1..Len(t) : t[i] = q[i]
      BY <1>1, <3>1, <3>5
    <3>7. t = q
      BY <3>3, <3>4, <3>5, <3>6, SeqEqual
    <3> QED BY <3>2, <3>7
  <2>8. Listed[p] = Add(Listed[a], p)
    BY <2>1, <2>5, <2>6, ListedSteps
  <2>9. \A k \in 1..Len(Part) : Part[k] \notin Slashes
    <3> DEFINE o == 1 h == P - 1 q == SubSeq(s, o, h)
    <3>1. /\ o \in Nat /\ h \in Nat /\ 1 <= o /\ o <= h + 1 /\ h <= n /\ h - o + 1 = h
          /\ \A i \in 1..h : o + i - 1 = i
      <4> HIDE DEF N, n
      <4> QED BY <1>0, <2>0
    <3>2. Part = q /\ \A k \in 1..h : s[k] \notin Slashes
      BY <2>0, <2>4
    <3> HIDE DEF o, h
    <3>4. q \in Seq(Chars) /\ Len(q) = h - o + 1 /\ \A i \in 1..(h - o + 1) : q[i] = s[o + i - 1]
      BY <3>1, Piece
    <3> HIDE DEF q, n
    <3> QED BY <3>1, <3>2, <3>4
  <2>10. Rest = SubSeq(src, p + 1, N) /\ Len(Rest) = N - p
    <3> DEFINE m == p + 1 t == SubSeq(src, m, N) o == P + 1 q == SubSeq(s, o, n)
    <3>0. N <= Len(src) /\ n <= Len(s)
      BY <1>0
    <3>1. /\ m \in Nat /\ N \in Nat /\ 1 <= m /\ m <= N + 1 /\ N - m + 1 = N - p
          /\ o \in Nat /\ n \in Nat /\ 1 <= o /\ o <= n + 1 /\ n - o + 1 = N - p
          /\ \A i \in 1..(N - p) : o + i - 1 \in 1..n /\ m + i - 1 = a + (o + i - 1)
      <4> HIDE DEF N, n
      <4> QED BY <1>0, <2>0, <2>1
    <3>2. Rest = q
      BY <2>4
    <3> HIDE DEF m, o, p
    <3>3. t \in Seq(Chars) /\ Len(t) = N - m + 1 /\ \A i \in 1..(N - m + 1) : t[i] = src[m + i - 1]
      <4> HIDE DEF N
      <4> QED BY <3>0, <3>1, Piece
    <3>4. q \in Seq(Chars) /\ Len(q) = n - o + 1 /\ \A i \in 1..(n - o + 1) : q[i] = s[o + i - 1]
      <4> HIDE DEF n
      <4> QED BY <3>0, <3>1, Piece
    <3> HIDE DEF t, q, n, N
    <3>5. Len(t) = N - p /\ Len(q) = N - p /\ \A i \in 1..(N - p) : t[i] = src[m + i - 1] /\ q[i] = s[o + i - 1]
      BY <3>1, <3>3, <3>4
    <3>6. ASSUME NEW i \in 1..(N - p) PROVE t[i] = q[i]
      <4> DEFINE j == o + i - 1
      <4>1. j \in 1..n /\ m + i - 1 = a + j /\ t[i] = src[m + i - 1] /\ q[i] = s[j]
        BY <3>1, <3>5
      <4> HIDE DEF j
      <4> QED BY <1>1, <4>1
    <3>7. t = q
      BY <3>3, <3>4, <3>5, <3>6, SeqEqual
    <3> QED BY <3>2, <3>5, <3>7 DEF t, m
  <2>11. IsNext(a, p)
    <3>1. src[p] \in Slashes
      BY <2>0, <2>3
    <3> HIDE DEF p
    <3> QED BY <2>1, <2>4, <2>5, <2>6, <2>7, <2>8, <2>9, <2>10, <3>1 DEF IsNext
  <2> HIDE DEF p
  <2> QED BY <2>1, <2>11
<1> QED BY <1>4, <1>5

-----------------------------------------------------------------------------
(* How far it has come. *)

\* All components up to a are empty or dots.
Plain(a) == \A k \in 1..a : Ends(k) => Text(k) \in {<<>>, Dot}

\* With rest left to read after position a, the output d is what the list up to there says,
\* and the two switches tell whether a component was read and whether a name was.
WalkAt(rest, d, sm, sk, a) ==
  /\ rest # <<>> /\ a = Len(src) - Len(rest) /\ rest = SubSeq(src, a + 1, Len(src))
  /\ a = 0 \/ src[a] \in Slashes
  /\ Shape(Listed[a]) /\ d = PathOf(Listed[a])
  /\ sm <=> ("simple" \in flags \/ a # 0)
  /\ sk <=> ({"simple", "disk"} \subseteq flags /\ Plain(a))
Walk(rest, d, sm, sk) ==
  \/ \E a \in 0..Len(src) : WalkAt(rest, d, sm, sk, a)
  \/ rest = <<>> /\ d = Normal

\* How the list grows.
Grows ==
  src \in Seq(Chars) =>
    /\ Listed[0] = <<>>
    /\ \A p \in 1..(Len(src) + 1) : Listed[p] = IF Ends(p) THEN Add(Listed[p - 1], p) ELSE Listed[p - 1]

LEMMA ListGrows == Grows
BY ListedSteps DEF Grows

LEMMA ListGrowsNext == Grows'
BY ListGrows, PTL

\* The list depends on the input only.
LEMMA SameWalk ==
  ASSUME src \in Seq(Chars), src' = src, flags' = flags,
         NEW rest, NEW d, NEW sm, NEW sk, Walk(rest, d, sm, sk)
  PROVE  Walk(rest, d, sm, sk)' /\ Normal' = Normal
<1>1. Slashes' = Slashes
  BY DEF Slashes
<1>2. SlashesOf(src)' = SlashesOf(src)
  BY <1>1 DEF SlashesOf
<1>3. \A p : (Ends(p)' <=> Ends(p)) /\ From(p)' = From(p)
  BY <1>1, <1>2 DEF Ends, From
<1>4. \A p : Text(p)' = Text(p) /\ Sep(p)' = Sep(p)
  BY <1>3 DEF Text, Sep, SepOf
<1>5. \A p : Removed(p)' <=> Removed(p)
  BY <1>3, <1>4 DEF Removed
<1>6. \A list, p : Push(list, p)' = Push(list, p)
  BY <1>4 DEF Push
<1>7. \A list, p : Above(list, p)' = Above(list, p)
  BY <1>6 DEF Above
<1>8. \A list, p : Add(list, p)' = Add(list, p)
  BY <1>3, <1>4, <1>5, <1>6, <1>7 DEF Add
<1> DEFINE N == Len(src) T == {p \in 0..(N + 1) : Listed'[p] # Listed[p]}
<1>9. N \in Nat
  BY LenProperties
<1>10. /\ Listed[0] = <<>>
       /\ \A p \in 1..(N + 1) : Listed[p] = IF Ends(p) THEN Add(Listed[p - 1], p) ELSE Listed[p - 1]
  BY ListedSteps
<1>11. /\ Listed'[0] = <<>>
       /\ \A p \in 1..(N + 1) : Listed'[p] = IF Ends(p)' THEN Add(Listed[p - 1], p)' ELSE Listed'[p - 1]
  BY ListGrowsNext DEF Grows
<1>12. ASSUME T # {} PROVE FALSE
  <2>1. T \in SUBSET Nat
    <3>1. 0..(N + 1) \subseteq Nat
      BY <1>9
    <3> QED BY <3>1
  <2>2. PICK x \in T : \A y \in T : x <= y
    <3> HIDE DEF T
    <3> QED BY <1>12, <2>1, Least
  <2>3. x \in 0..(N + 1) /\ Listed'[x] # Listed[x]
    BY <2>2
  <2>4. x # 0
    BY <1>10, <1>11, <2>3
  <2>5. x \in 1..(N + 1) /\ x - 1 \in 0..(N + 1) /\ ~(x <= x - 1)
    <3> HIDE DEF T, N
    <3> QED BY <1>9, <2>3, <2>4
  <2>6. Listed'[x - 1] = Listed[x - 1]
    BY <2>2, <2>5
  <2>7. Listed'[x] = IF Ends(x)' THEN Add(Listed[x - 1], x)' ELSE Listed'[x - 1]
    BY <1>11, <2>5
  <2>8. PICK l : l = Listed[x - 1]
    OBVIOUS
  <2>9. Add(Listed[x - 1], x)' = Add(l, x)'
    BY <2>6, <2>8 DEF Add, Above, Push
  <2>10. Add(l, x)' = Add(Listed[x - 1], x)
    BY <1>8, <2>8
  <2>11. Listed[x] = IF Ends(x) THEN Add(Listed[x - 1], x) ELSE Listed[x - 1]
    BY <1>10, <2>5
  <2> HIDE DEF T, N
  <2> QED BY <1>3, <2>3, <2>6, <2>7, <2>9, <2>10, <2>11
<1>13. \A p \in 0..(N + 1) : Listed'[p] = Listed[p]
  BY <1>12
<1>14. Normal' = Normal
  <2>1. N + 1 \in 0..(N + 1)
    <3> HIDE DEF N
    <3> QED BY <1>9
  <2> QED BY <1>13, <2>1 DEF Normal
<1>15. \A list : Shape(list)' <=> Shape(list)
  BY <1>1 DEF Shape, Level
<1>16. ASSUME NEW a \in 0..Len(src), WalkAt(rest, d, sm, sk, a) PROVE WalkAt(rest, d, sm, sk, a)'
  <2>1. Listed'[a] = Listed[a]
    <3>1. a \in 0..(N + 1)
      <4>1. a \in 0..N
        BY <1>16
      <4> HIDE DEF N
      <4> QED BY <1>9, <4>1
    <3> QED BY <1>13, <3>1
  <2>2. Shape(Listed[a])' <=> Shape(Listed[a])
    <3>1. PICK l : l = Listed[a]
      OBVIOUS
    <3>2. Shape(l)' <=> Shape(l)
      BY <1>15
    <3>3. Shape(Listed[a])' <=> Shape(l)'
      BY <2>1, <3>1 DEF Shape, Level, PathBefore
    <3> QED BY <3>1, <3>2, <3>3
  <2>3. Plain(a)' <=> Plain(a)
    BY <1>3, <1>4 DEF Plain
  <2> QED BY <1>1, <1>16, <2>1, <2>2, <2>3 DEF WalkAt
<1> QED BY <1>14, <1>16 DEF Walk

-----------------------------------------------------------------------------
(* The steps. *)

\* After the component at p.
LEMMA Advance ==
  ASSUME src \in Seq(Chars), s \in Seq(Chars), NEW a \in 0..Len(src), NEW p \in (a + 1)..(Len(src) + 1),
         IsNext(a, p), NEW d, d = PathOf(Listed[p]), p <= Len(src) => Shape(Listed[p]),
         NEW sk, sk <=> ({"simple", "disk"} \subseteq flags /\ Plain(p))
  PROVE  Walk(Rest, d, TRUE, sk)
<1> DEFINE N == Len(src)
<1>1. N \in Nat /\ a \in 0..N /\ p \in (a + 1)..(N + 1)
  BY LenProperties
<1>2. CASE p > N
  <2>1. p = N + 1
    <3> HIDE DEF N
    <3> QED BY <1>1, <1>2
  <2> QED BY <1>2, <2>1 DEF Walk, Normal, IsNext
<1>3. CASE ~(p > N)
  <2>1. p <= N /\ p \in 0..N /\ p # 0 /\ p \in 1..N
    <3> HIDE DEF N
    <3> QED BY <1>1, <1>3
  <2>2. src[p] \in Slashes /\ Rest = SubSeq(src, p + 1, N) /\ Len(Rest) = N - p
    BY <2>1 DEF IsNext
  <2>3. CASE Rest = <<>>
    <3>1. Len(Rest) = 0
      BY <2>3
    <3>2. p = N
      <4> HIDE DEF N
      <4> QED BY <1>1, <2>1, <2>2, <3>1
    <3>3. N + 1 \in 1..(N + 1) /\ ~(N + 1 <= N) /\ N + 1 - 1 = N
      <4> HIDE DEF N
      <4> QED BY <1>1
    <3>4. ~Ends(N + 1)
      BY <2>2, <3>2, <3>3 DEF Ends
    <3>5. Listed[N + 1] = Listed[N]
      BY <3>3, <3>4, ListedSteps
    <3> QED BY <2>3, <3>2, <3>5 DEF Walk, Normal
  <2>4. CASE Rest # <<>>
    <3>1. p = N - Len(Rest)
      <4> HIDE DEF N
      <4> QED BY <1>1, <2>1, <2>2
    <3>2. WalkAt(Rest, d, TRUE, sk, p)
      BY <2>1, <2>2, <2>4, <3>1 DEF WalkAt
    <3> QED BY <2>1, <3>2 DEF Walk
  <2> QED BY <2>3, <2>4
<1> QED BY <1>2, <1>3

\* Whether a name was read, and whether the component is a drive to be removed.
LEMMA PlainNext ==
  ASSUME src \in Seq(Chars), NEW a \in 0..Len(src), NEW p \in (a + 1)..(Len(src) + 1), IsNext(a, p)
  PROVE  /\ Plain(p) <=> (Plain(a) /\ Part \in {<<>>, Dot})
         /\ Removed(p) <=> ({"simple", "disk"} \subseteq flags /\ EndsDrive(Part) /\ Plain(a))
<1> DEFINE N == Len(src)
<1>1. N \in Nat /\ a \in 0..N /\ p \in (a + 1)..(N + 1)
  BY LenProperties
<1>2. /\ p \in 1..p /\ \A k \in 1..a : k \in 1..(p - 1) /\ k \in 1..p
      /\ \A k \in 1..p : k \in 1..a \/ k \in (a + 1)..(p - 1) \/ k = p
      /\ \A k \in 1..(p - 1) : k \in 1..a \/ k \in (a + 1)..(p - 1)
  <2> HIDE DEF N
  <2> QED BY <1>1
<1>3. Ends(p) /\ Text(p) = Part /\ \A k \in (a + 1)..(p - 1) : ~Ends(k)
  BY DEF IsNext
<1>4. Plain(p) <=> (Plain(a) /\ Part \in {<<>>, Dot})
  BY <1>2, <1>3 DEF Plain
<1>5. (\A k \in 1..(p - 1) : Ends(k) => Text(k) \in {<<>>, Dot}) <=> Plain(a)
  BY <1>2, <1>3 DEF Plain
<1> QED BY <1>3, <1>4, <1>5 DEF Removed

LEMMA DotFacts ==
  /\ DotDot \notin {<<>>, Dot} /\ Dot # <<>> /\ ~EndsDrive(DotDot)
  /\ Dot \in Seq({"."}) /\ Len(Dot) = 1 /\ Len(DotDot) = 2
BY DEF Dot, DotDot, EndsDrive

\* ".." that is not written: the search in the buffer does what the list says.
LEMMA UpIsAbove ==
  ASSUME NEW list, Shape(list), dst = PathOf(list), ~WritesParent, NEW p
  PROVE  Parent = PathOf(Above(list, p)) /\ Shape(Above(list, p))
<1>1. CASE list = <<>>
  <2>1. dst = <<>>
    BY <1>1 DEF PathOf
  <2>2. "simple" \in flags
    BY <2>1 DEF WritesParent
  <2> QED BY <1>1, <2>1, <2>2 DEF Above, Parent
<1>2. CASE list # <<>>
  <2> DEFINE n == Len(list) u == PathBefore(list, n) t == list[n].text
  <2>1. /\ n \in Nat /\ n # 0 /\ Last(list) = list[n]
        /\ t \in Seq(Chars) /\ u \in Seq(Chars) /\ dst \in Seq(Chars) /\ dst # <<>>
        /\ PrevSlash(dst) = Len(u) /\ Prev(dst) = t /\ SubSeq(dst, 1, PrevSlash(dst)) = u
        /\ n = 1 => u = <<>> /\ Len(u) = 0
        /\ n # 1 => Len(u) # 0 /\ t \notin {<<>>, Dot}
        /\ Len(dst) = Len(u) + Len(t) + 1
    BY <1>2, TopFacts
  <2>2. Shape(Front(list)) /\ PathOf(Front(list)) = u
    BY <1>2, FrontShape
  <2>3. Len(t) \in Nat /\ (Len(t) = 0 <=> t = <<>>)
    BY <2>1, EmptySeq
  <2>4. t # DotDot /\ t # Dot
    BY <2>1 DEF WritesParent
  <2>5. Above(list, p) = IF t = <<>> \/ (n = 1 /\ "disk" \in flags /\ EndsDrive(t)) THEN list ELSE Front(list)
    BY <1>2, <2>1, <2>4 DEF Above
  <2>6. n = 1 => Len(dst) = Len(t) + 1
    <3> HIDE DEF n, u, t
    <3> QED BY <2>1, <2>3
  <2>7. n = 1 => (Len(dst) = 1 <=> t = <<>>)
    <3> HIDE DEF n, u, t
    <3> QED BY <2>3, <2>6
  <2> HIDE DEF n, u, t
  <2>8. CASE n # 1
    <3>1. Parent = u /\ Above(list, p) = Front(list)
      BY <2>1, <2>5, <2>8 DEF Parent
    <3> QED BY <2>2, <3>1
  <2>9. CASE n = 1
    <3>1. Parent = IF Len(dst) = 1 \/ ("disk" \in flags /\ EndsDrive(t)) THEN dst ELSE <<>>
      BY <2>1, <2>9 DEF Parent
    <3> QED BY <2>1, <2>2, <2>5, <2>7, <2>9, <3>1
  <2> QED BY <2>8, <2>9
<1> QED BY <1>1, <1>2

\* A component that is written: what is kept of the buffer is the path of the list that it
\* is put on.
LEMMA WriteIsPush ==
  ASSUME NEW list, Shape(list), dst = PathOf(list), NEW p, Text(p) = Part,
         Part = DotDot => WritesParent /\ ~Removed(p), Part \in {<<>>, Dot} => list = <<>> /\ From(p) = 1 /\ "simple" \notin flags,
         Part \notin {<<>>, Dot, DotDot} => ~Removed(p)
  PROVE  \E base : /\ Shape(base) /\ PathOf(base) = Kept /\ Add(list, p) = Push(base, p)
                   /\ base # <<>> => Part \notin {<<>>, Dot}
<1>0. Shape(<<>>) /\ PathOf(<<>>) = <<>>
  BY DEF Shape, PathOf
<1>1. CASE Part \in {<<>>, Dot}
  <2>1. Part # DotDot /\ dst = <<>>
    BY <1>1, DotFacts DEF PathOf
  <2>2. Kept = <<>>
    BY <2>1 DEF Kept
  <2>3. Add(list, p) = Push(<<>>, p)
    BY <1>1 DEF Add
  <2> QED BY <1>0, <2>2, <2>3
<1>2. CASE Part \notin {<<>>, Dot, DotDot}
  <2>1. Kept = dst
    BY <1>2 DEF Kept
  <2>2. Add(list, p) = Push(list, p)
    BY <1>2 DEF Add
  <2> QED BY <1>2, <2>1, <2>2
<1>3. CASE Part = DotDot
  <2>1. Add(list, p) = Above(list, p) /\ Part \notin {<<>>, Dot}
    BY <1>3, DotFacts DEF Add
  <2>2. CASE list = <<>>
    <3>1. dst = <<>>
      BY <2>2 DEF PathOf
    <3>2. "simple" \notin flags /\ Kept = dst
      BY <1>3, <3>1 DEF WritesParent, Kept
    <3>3. Above(list, p) = Push(list, p)
      BY <2>2, <3>2 DEF Above
    <3> QED BY <2>1, <3>2, <3>3
  <2>3. CASE list # <<>>
    <3> DEFINE n == Len(list) t == list[n].text
    <3>1. Last(list) = list[n] /\ dst # <<>> /\ Prev(dst) = t
      BY <2>3, TopFacts
    <3>2. t = DotDot \/ t = Dot
      BY <1>3, <3>1 DEF WritesParent
    <3>3. CASE t = DotDot
      <4>1. Above(list, p) = Push(list, p)
        BY <2>3, <3>1, <3>3 DEF Above
      <4>2. Kept = dst
        BY <3>1, <3>3, DotFacts DEF Kept
      <4> QED BY <2>1, <4>1, <4>2
    <3>4. CASE t = Dot
      <4>1. Above(list, p) = Push(<<>>, p)
        BY <2>3, <3>1, <3>4, DotFacts DEF Above
      <4>2. Kept = <<>>
        BY <1>3, <3>1, <3>4 DEF Kept
      <4> QED BY <1>0, <2>1, <4>1, <4>2
    <3> QED BY <3>2, <3>3, <3>4
  <2> QED BY <2>2, <2>3
<1> QED BY <1>1, <1>2, <1>3

-----------------------------------------------------------------------------
(* The whole function. *)

LEMMA WalkAfter ==
  ASSUME NEW r, NEW d, NEW m, NEW k, s' = r, dst' = d, simplify' = m, skipDisk' = k, Walk(r, d, m, k)'
  PROVE  Walk(s, dst, simplify, skipDisk)'
<1>1. ASSUME NEW a, WalkAt(r, d, m, k, a)' PROVE WalkAt(s, dst, simplify, skipDisk, a)'
  BY <1>1 DEF WalkAt
<1> QED BY <1>1 DEF Walk

\* A step that reads the component at p and leaves what the list says.
LEMMA Reads ==
  ASSUME src \in Seq(Chars), s \in Seq(Chars), UNCHANGED input,
         NEW a \in 0..Len(src), NEW p \in (a + 1)..(Len(src) + 1), IsNext(a, p),
         dst' = PathOf(Listed[p]), p <= Len(src) => Shape(Listed[p]), s' = Rest, simplify' = TRUE,
         skipDisk' \in BOOLEAN, skipDisk' <=> ({"simple", "disk"} \subseteq flags /\ Plain(p))
  PROVE  Walk(s, dst, simplify, skipDisk)'
<1>1. PICK r, d, k : r = Rest /\ d = PathOf(Listed[p]) /\ k = skipDisk'
  OBVIOUS
<1>2. Walk(r, d, TRUE, k)
  BY <1>1, Advance
<1>3. src' = src /\ flags' = flags
  BY DEF input
<1>4. Walk(r, d, TRUE, k)'
  BY <1>2, <1>3, SameWalk
<1>5. s' = r /\ dst' = d
  BY <1>1
<1>6. simplify' = TRUE /\ skipDisk' = k
  BY <1>1
<1> QED BY <1>4, <1>5, <1>6, WalkAfter

\* What a component that is put on the list has.
LEMMA PushPath ==
  ASSUME NEW base, Shape(base), NEW p, Text(p) \in Seq(Chars), Sep(p) \in Seq(Chars)
  PROVE  PathOf(Push(base, p)) = PathOf(base) \o Text(p) \o Sep(p)
<1> DEFINE v == PathOf(base) w == v \o Text(p) \o Sep(p) r == [text |-> Text(p), path |-> w]
           n == Len(base) a == Append(base, r)
<1>1. base \in Seq(Items) /\ n \in Nat
  BY LenProperties DEF Shape
<1>2. v \in Seq(Chars)
  <2>1. CASE base = <<>>
    BY <2>1 DEF PathOf
  <2>2. CASE base # <<>>
    BY <2>2, TopFacts
  <2> QED BY <2>1, <2>2
<1>3. w \in Seq(Chars)
  <2> HIDE DEF v
  <2>1. v \o Text(p) \in Seq(Chars)
    BY <1>2, ConcatProperties
  <2> DEFINE b == v \o Text(p)
  <2> HIDE DEF b
  <2>2. b \o Sep(p) \in Seq(Chars)
    BY <2>1, ConcatProperties DEF b
  <2> QED BY <2>2 DEF b
<1> HIDE DEF w
<1>4. r \in Items /\ r.path = w
  BY <1>3 DEF Items
<1>5. Push(base, p) = a
  BY DEF Push, w
<1> HIDE DEF r
<1>6. a \in Seq(Items) /\ Len(a) = n + 1 /\ a[n + 1] = r
  BY <1>1, <1>4
<1>7. a # <<>> /\ Last(a) = r
  <2>1. n + 1 # 0
    BY <1>1
  <2>2. Last(a) = a[Len(a)]
    BY DEF Last
  <2> HIDE DEF a, n
  <2> QED BY <1>6, <2>1, <2>2, EmptySeq
<1> QED BY <1>4, <1>5, <1>7 DEF PathOf, w

\* With what is left to read, the output and the switches are where the list is; at the end
\* the output is the path that the list gives.
NInv ==
  /\ IInv /\ simplify \in BOOLEAN /\ skipDisk \in BOOLEAN
  /\ pc \in {"start", "loop"} => Walk(s, dst, simplify, skipDisk)
  /\ pc = "ok" /\ ~Device => dst = Normal

LEMMA InitNormal ==
  ASSUME Init
  PROVE  NInv
<1>1. IInv
  BY InitInv
<1>2. src \in Seq(Chars) /\ s = src /\ dst = <<>> /\ pc = "start"
  BY <1>1 DEF Init, IInv, Types
<1>3. simplify \in BOOLEAN /\ skipDisk \in BOOLEAN
  BY DEF Init
<1>4. Listed[0] = <<>> /\ Shape(<<>>) /\ PathOf(<<>>) = <<>>
  BY <1>2, ListedSteps DEF Shape, PathOf
<1>5. CASE src = <<>>
  <2>1. Len(src) = 0 /\ 1 \in 1..(Len(src) + 1)
    BY <1>5
  <2>2. ~Ends(1)
    BY <1>5, <2>1 DEF Ends
  <2>3. Listed[1] = Listed[1 - 1]
    BY <1>2, <2>1, <2>2, ListedSteps
  <2>4. Normal = <<>>
    BY <1>4, <2>1, <2>3 DEF Normal
  <2>5. Walk(s, dst, simplify, skipDisk)
    BY <1>2, <1>5, <2>4 DEF Walk
  <2> QED BY <1>1, <1>2, <1>3, <2>5 DEF NInv
<1>6. CASE src # <<>>
  <2> DEFINE N == Len(src)
  <2>1. N \in Nat /\ 0 \in 0..N /\ 0 = N - N
    BY <1>2, LenProperties
  <2>2. s = SubSeq(src, 0 + 1, N)
    <3> DEFINE q == SubSeq(src, 1, N)
    <3>0. N <= Len(src) /\ 1 \in Nat /\ 1 <= 1 /\ 1 <= N + 1 /\ N - 1 + 1 = N /\ \A i \in 1..N : 1 + i - 1 = i
      BY <2>1
    <3>1. q \in Seq(Chars) /\ Len(q) = N - 1 + 1 /\ \A i \in 1..(N - 1 + 1) : q[i] = src[1 + i - 1]
      <4> HIDE DEF N
      <4> QED BY <1>2, <2>1, <3>0, Piece
    <3> HIDE DEF q
    <3>2. Len(q) = Len(src) /\ \A i \in 1..Len(q) : q[i] = src[i]
      BY <3>0, <3>1
    <3>3. q = src
      BY <1>2, <3>1, <3>2, SeqEqual
    <3> QED BY <1>2, <3>3 DEF q
  <2>3. Plain(0)
    BY DEF Plain
  <2>4. simplify <=> "simple" \in flags
    BY DEF Init
  <2>5. skipDisk <=> {"simple", "disk"} \subseteq flags
    BY DEF Init
  <2>6. WalkAt(s, dst, simplify, skipDisk, 0)
    <3>1. 0 = Len(src) - Len(s) /\ s = SubSeq(src, 0 + 1, Len(src))
      BY <1>2, <2>1, <2>2
    <3> QED BY <1>2, <1>4, <1>6, <2>3, <2>4, <2>5, <3>1 DEF WalkAt
  <2>7. Walk(s, dst, simplify, skipDisk)
    BY <2>1, <2>6 DEF Walk
  <2> QED BY <1>1, <1>2, <1>3, <2>7 DEF NInv
<1> QED BY <1>5, <1>6

\* A component that is written.
LEMMA Written ==
  ASSUME SplitsOwn, src \in Seq(Chars), s \in Seq(Chars),
         NEW a \in 0..Len(src), NEW p \in (a + 1)..(Len(src) + 1), IsNext(a, p),
         NEW list, Shape(list), dst = PathOf(list),
         Part = DotDot => WritesParent /\ ~Removed(p), Part \in {<<>>, Dot} => list = <<>> /\ From(p) = 1 /\ "simple" \notin flags,
         Part \notin {<<>>, Dot, DotDot} => ~Removed(p)
  PROVE  /\ PathOf(Add(list, p)) = Kept \o Part \o Separator
         /\ p <= Len(src) => Shape(Add(list, p))
<1>1. /\ Text(p) = Part /\ Sep(p) = Separator /\ \A k \in 1..Len(Part) : Part[k] \notin Slashes
      /\ p <= Len(src) => src[p] \in Slashes /\ Separator = <<SepOf(src[p])>>
  BY DEF IsNext
<1>2. Part \in Seq(Chars) /\ Separator \in Seq(Chars)
  BY PartFacts
<1>3. PICK base : /\ Shape(base) /\ PathOf(base) = Kept /\ Add(list, p) = Push(base, p)
                  /\ base # <<>> => Part \notin {<<>>, Dot}
  BY <1>1, WriteIsPush
<1>4. PathOf(Push(base, p)) = Kept \o Part \o Separator
  BY <1>1, <1>2, <1>3, PushPath
<1>5. ASSUME p <= Len(src) PROVE Shape(Push(base, p))
  <2> DEFINE c == SepOf(src[p]) r == [text |-> Part, path |-> PathOf(base) \o Part \o <<c>>]
  <2>1. c \in Slashes /\ Separator = <<c>>
    BY <1>1, <1>5 DEF SplitsOwn
  <2>2. Push(base, p) = Append(base, r)
    BY <1>1, <2>1 DEF Push
  <2> HIDE DEF c
  <2>3. Shape(Append(base, r))
    <3> DEFINE q == r
    <3>1. q = [text |-> Part, path |-> PathOf(base) \o Part \o <<c>>]
      OBVIOUS
    <3> HIDE DEF q
    <3>2. Shape(Append(base, q))
      BY <1>1, <1>2, <1>3, <2>1, <3>1, PushShape
    <3> QED BY <3>2 DEF q
  <2> QED BY <2>2, <2>3
<1> QED BY <1>3, <1>4, <1>5

LEMMA NextNormal ==
  ASSUME SplitsOwn, NInv, [Next]_vars
  PROVE  NInv'
<1>1. IInv'
  BY NextInv DEF NInv
<1>2. /\ src \in Seq(Chars) /\ s \in Seq(Chars) /\ simplify \in BOOLEAN /\ skipDisk \in BOOLEAN
      /\ pc \in {"start", "loop", "ok", "error"}
  BY DEF NInv, IInv, Types
<1>3. /\ UNCHANGED input /\ src' = src /\ flags' = flags
      /\ simplify' \in BOOLEAN /\ skipDisk' \in BOOLEAN
  <2>1. UNCHANGED input
    BY DEF Next, Copy, Start, Skip, SkipDrive, Up, Write, Component, Finish, Done, vars, input
  <2>2. simplify' \in BOOLEAN
    BY <1>2, Zenon DEF Next, Copy, Start, Skip, SkipDrive, Up, Write, Component, Finish, Done, vars
  <2>3. skipDisk' \in BOOLEAN
    BY <1>2, Zenon DEF Next, Copy, Start, Skip, SkipDrive, Up, Write, Component, Finish, Done, vars
  <2> QED BY <2>1, <2>2, <2>3 DEF input
<1>4. Device' <=> Device
  BY <1>3 DEF Device
<1>5. SUFFICES /\ pc' \in {"start", "loop"} => Walk(s, dst, simplify, skipDisk)'
               /\ pc' = "ok" /\ ~Device => dst' = Normal'
  BY <1>1, <1>3, <1>4, Zenon DEF NInv
<1>6. Normal' = Normal
  <2>1. Walk(<<>>, Normal, TRUE, TRUE)
    BY DEF Walk
  <2>2. PICK d : d = Normal
    OBVIOUS
  <2>3. Walk(<<>>, d, TRUE, TRUE)
    BY <2>1, <2>2
  <2> QED BY <1>2, <1>3, <2>3, SameWalk
<1>7. CASE Copy
  BY <1>7 DEF Copy
<1>8. CASE Start \/ Finish \/ Done \/ UNCHANGED vars
  <2>1. s' = s /\ dst' = dst /\ simplify' = simplify /\ skipDisk' = skipDisk
    BY <1>8 DEF Start, Finish, Done, vars
  <2>2. ASSUME pc' \in {"start", "loop"} PROVE Walk(s, dst, simplify, skipDisk)'
    <3>1. Walk(s, dst, simplify, skipDisk)
      BY <1>8, <2>2 DEF Start, Finish, Done, vars, NInv
    <3>2. PICK r, d, m, k : r = s /\ d = dst /\ m = simplify /\ k = skipDisk
      OBVIOUS
    <3>3. Walk(r, d, m, k)
      BY <3>1, <3>2
    <3>4. Walk(r, d, m, k)'
      BY <1>2, <1>3, <3>3, SameWalk
    <3>5. s' = r /\ dst' = d /\ simplify' = m /\ skipDisk' = k
      BY <2>1, <3>2
    <3> QED BY <3>4, <3>5, WalkAfter
  <2>3. ASSUME pc' = "ok", ~Device PROVE dst' = Normal'
    <3>1. CASE pc = "ok"
      BY <1>6, <2>1, <2>3, <3>1 DEF NInv
    <3>2. CASE pc # "ok"
      <4>1. pc = "loop" /\ s = <<>>
        BY <1>8, <2>3, <3>2 DEF Start, Finish, Done, vars
      <4>2. Walk(s, dst, simplify, skipDisk)
        BY <4>1 DEF NInv
      <4>3. dst = Normal
        BY <4>1, <4>2 DEF Walk, WalkAt
      <4> QED BY <1>6, <2>1, <4>3
    <3> QED BY <3>1, <3>2
  <2> QED BY <2>2, <2>3
<1>9. CASE Skip \/ SkipDrive \/ Up \/ Write
  <2>1. pc = "loop" /\ s # <<>> /\ s' = Rest
    BY <1>9 DEF Skip, SkipDrive, Up, Write, Component
  <2>2. PICK a \in 0..Len(src) : WalkAt(s, dst, simplify, skipDisk, a)
    BY <2>1 DEF NInv, Walk
  <2>3. Reading(a)
    BY <2>2 DEF WalkAt, Reading
  <2>4. PICK p \in (a + 1)..(Len(src) + 1) : IsNext(a, p)
    BY <1>2, <2>3, NextComponent
  <2>5. PICK list : list = Listed[a]
    OBVIOUS
  <2>6. Shape(list) /\ dst = PathOf(list) /\ Listed[p] = Add(list, p)
    BY <2>2, <2>4, <2>5 DEF WalkAt, IsNext
  <2>7. /\ simplify <=> ("simple" \in flags \/ a # 0)
        /\ skipDisk <=> ({"simple", "disk"} \subseteq flags /\ Plain(a))
    BY <2>2 DEF WalkAt
  <2>8. /\ Plain(p) <=> (Plain(a) /\ Part \in {<<>>, Dot})
        /\ Removed(p) <=> ({"simple", "disk"} \subseteq flags /\ EndsDrive(Part) /\ Plain(a))
    BY <1>2, <2>4, PlainNext
  <2>9. Removed(p) <=> Drive
    BY <2>7, <2>8 DEF Drive
  <2>10. Text(p) = Part /\ From(p) = a + 1
    BY <2>4 DEF IsNext
  <2>11. pc' = "loop" => Walk(s, dst, simplify, skipDisk)'
    <3> SUFFICES ASSUME pc' = "loop" PROVE Walk(s, dst, simplify, skipDisk)'
      OBVIOUS
    <3>1. SUFFICES /\ dst' = PathOf(Add(list, p)) /\ (p <= Len(src) => Shape(Add(list, p))) /\ simplify' = TRUE
                   /\ skipDisk' <=> ({"simple", "disk"} \subseteq flags /\ Plain(p))
      BY <1>2, <1>3, <2>1, <2>4, <2>6, Reads
    <3>2. CASE Skip
      <4>1. simplify /\ Part \in {<<>>, Dot} /\ dst' = dst /\ simplify' = simplify /\ skipDisk' = skipDisk
        BY <3>2 DEF Skip, Nothing
      <4>2. ~(From(p) = 1 /\ "simple" \notin flags)
        BY <2>7, <2>10, <4>1
      <4>3. Add(list, p) = list
        BY <2>10, <4>1, <4>2 DEF Add
      <4>4. skipDisk' <=> ({"simple", "disk"} \subseteq flags /\ Plain(p))
        BY <2>7, <2>8, <4>1
      <4>5. simplify' = TRUE
        BY <1>2, <4>1
      <4> QED BY <2>6, <4>1, <4>3, <4>4, <4>5
    <3>3. CASE SkipDrive
      <4>1. simplify /\ Part \notin {<<>>, Dot} /\ Drive /\ dst' = dst /\ simplify' = simplify /\ skipDisk' = FALSE
        BY <3>3 DEF SkipDrive, Nothing, Drive
      <4>2. Add(list, p) = list
        BY <2>9, <2>10, <4>1 DEF Add
      <4>3. simplify' = TRUE
        BY <1>2, <4>1
      <4> QED BY <2>6, <2>8, <4>1, <4>2, <4>3
    <3>4. CASE Up \/ Write
      <4>1. /\ ~Nothing /\ ~Drive /\ simplify' = TRUE
            /\ skipDisk' = (skipDisk /\ ~simplify)
        BY <3>4 DEF Up, Write, Component
      <4>2. ~Removed(p)
        BY <2>9, <4>1
      <4>3. skipDisk' = FALSE
        BY <2>7, <4>1
      <4>4. ~({"simple", "disk"} \subseteq flags /\ Plain(p))
        BY <2>7, <2>8, <4>1 DEF Nothing
      <4>5. CASE Up
        <5>1. Part = DotDot /\ ~WritesParent /\ dst' = Parent
          BY <4>5 DEF Up
        <5>2. Add(list, p) = Above(list, p)
          BY <2>10, <4>2, <5>1, DotFacts DEF Add
        <5>3. Parent = PathOf(Above(list, p)) /\ Shape(Above(list, p))
          BY <2>6, <5>1, UpIsAbove
        <5> QED BY <4>1, <4>3, <4>4, <5>1, <5>2, <5>3
      <4>6. CASE Write
        <5>1. (Part = DotDot => WritesParent) /\ dst' = Kept \o Part \o Separator
          BY <2>1, <4>6 DEF Write
        <5>2. Part \in {<<>>, Dot} => list = <<>> /\ From(p) = 1 /\ "simple" \notin flags
          <6> SUFFICES ASSUME Part \in {<<>>, Dot} PROVE list = <<>> /\ From(p) = 1 /\ "simple" \notin flags
            OBVIOUS
          <6>1. ~simplify
            BY <4>1 DEF Nothing
          <6>2. a = 0 /\ "simple" \notin flags
            BY <2>7, <6>1
          <6> QED BY <1>2, <2>5, <2>10, <6>2, ListedSteps
        <5>3. PathOf(Add(list, p)) = Kept \o Part \o Separator /\ (p <= Len(src) => Shape(Add(list, p)))
          BY <1>2, <2>4, <2>6, <4>2, <5>1, <5>2, Written
        <5> QED BY <4>1, <4>3, <4>4, <5>1, <5>3
      <4> QED BY <3>4, <4>5, <4>6
    <3> QED BY <1>9, <3>2, <3>3, <3>4
  <2>12. pc' \in {"loop", "error"}
    BY <1>9, <2>1 DEF Skip, SkipDrive, Up, Write
  <2> QED BY <2>11, <2>12
<1> QED BY <1>7, <1>8, <1>9 DEF Next

\* The flags decide it, and they stay.
LEMMA SplitsOwnKept ==
  ASSUME [Next]_vars
  PROVE  SplitsOwn' => SplitsOwn
<1>1. flags' = flags
  BY DEF Next, Copy, Start, Skip, SkipDrive, Up, Write, Component, Finish, Done, vars, input
<1> QED BY <1>1 DEF SplitsOwn, SepOf, Slashes

\* ffpath_normalize() edits a buffer and looks backwards in it for the parent of "..": what it
\* returns is the path that the rules on a list of components give, for every path, set of
\* flags and buffer with which it splits the path by the separators that it writes.
THEOREM NormalPath == Spec => [](SplitsOwn => NormalizeIsNormal)
<1> DEFINE Inv == SplitsOwn => NInv
<1>1. Init => Inv
  BY InitNormal
<1>2. Inv /\ [Next]_vars => Inv'
  BY NextNormal, SplitsOwnKept
<1>3. Inv => (SplitsOwn => NormalizeIsNormal)
  BY DEF NInv, IInv, NormalizeIsNormal
<1> QED BY <1>1, <1>2, <1>3, PTL DEF Spec
=============================================================================
