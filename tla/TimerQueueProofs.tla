-------------------------- MODULE TimerQueueProofs --------------------------
(***************************************************************************)
(* Theorems about the timer queue, for every width of the time, every set  *)
(* of nodes and every set of intervals that fits.                          *)
(***************************************************************************)
EXTENDS TimerQueue, TLAPS

-----------------------------------------------------------------------------
(* 32-bit arithmetic. *)

\* A sum does not leave the range of the words, and is that far ahead.
LEMMA PlusAhead ==
  ASSUME NEW a \in Words, NEW d \in 0..MaxInterval
  PROVE  Plus(a, d) \in Words /\ Signed(Minus(Plus(a, d), a)) = d
BY TimerAssumption DEF Words, Mod, Plus, Minus, Signed

\* Passing time brings every key nearer by the same amount.
LEMMA TickNearer ==
  ASSUME NEW a \in Words, NEW k \in Words, Signed(Minus(k, a)) > -Half
  PROVE  Plus(a, 1) \in Words /\ Signed(Minus(k, Plus(a, 1))) = Signed(Minus(k, a)) - 1
BY TimerAssumption DEF Words, Mod, Plus, Minus, Signed

\* The clock moves away from an earlier reading of it.
LEMMA TickFarther ==
  ASSUME NEW a \in Words, NEW p \in Words, Signed(Minus(a, p)) < Half - 1
  PROVE  Signed(Minus(Plus(a, 1), p)) = Signed(Minus(a, p)) + 1
BY TimerAssumption DEF Words, Mod, Plus, Minus, Signed

\* Two words compare like the exact times they stand for, when these are less
\* than Half apart.
LEMMA CompareExact ==
  ASSUME NEW a \in Words, NEW k \in Words, NEW l \in Words,
         Signed(Minus(k, a)) - Signed(Minus(l, a)) < Half,
         Signed(Minus(k, a)) - Signed(Minus(l, a)) > -Half
  PROVE  Signed(Minus(k, l)) = Signed(Minus(k, a)) - Signed(Minus(l, a))
BY TimerAssumption DEF Words, Mod, Plus, Minus, Signed

\* The same, for a reading of the clock.
LEMMA CompareCall ==
  ASSUME NEW a \in Words, NEW k \in Words, NEW p \in Words,
         Signed(Minus(k, a)) + Signed(Minus(a, p)) < Half,
         Signed(Minus(k, a)) + Signed(Minus(a, p)) > -Half
  PROVE  Signed(Minus(k, p)) = Signed(Minus(k, a)) + Signed(Minus(a, p))
BY TimerAssumption DEF Words, Mod, Plus, Minus, Signed

-----------------------------------------------------------------------------
(* The tree. *)

\* What insertion does to the nodes in order.
LEMMA InsertNodes ==
  ASSUME NEW S, NEW s \in Seq(S), NEW n \in S, NEW g \in 0..Len(s), ~InTree(n, s),
         Distinct(s)
  PROVE  /\ InsertAfter(s, g, n) \in Seq(S)
         /\ \A m \in S : InTree(m, InsertAfter(s, g, n)) <=> InTree(m, s) \/ m = n
         /\ Distinct(InsertAfter(s, g, n))
<1> DEFINE t == InsertAfter(s, g, n)
<1>0. Len(s) \in Nat /\ DOMAIN s = 1..Len(s) /\ \A i \in DOMAIN s : s[i] \in S
  OBVIOUS
<1>1. /\ DOMAIN t = 1..(Len(s) + 1)
      /\ \A j \in DOMAIN t : t[j] = IF j <= g THEN s[j] ELSE IF j = g + 1 THEN n ELSE s[j - 1]
  BY DEF InsertAfter
<1>2. \A j \in DOMAIN t : t[j] \in S
  BY <1>0, <1>1
<1>3. t \in Seq(S)
  BY <1>0, <1>1, <1>2 DEF InsertAfter
<1> HIDE DEF t
<1>4. ASSUME NEW m \in S PROVE InTree(m, t) <=> InTree(m, s) \/ m = n
  <2>1. ASSUME InTree(m, t) PROVE InTree(m, s) \/ m = n
    <3>1. PICK j \in DOMAIN t : t[j] = m
      BY <2>1 DEF InTree
    <3> QED BY <3>1, <1>0, <1>1 DEF InTree
  <2>2. ASSUME InTree(m, s) PROVE InTree(m, t)
    <3>1. PICK i \in DOMAIN s : s[i] = m
      BY <2>2 DEF InTree
    <3>2. CASE i <= g
      BY <3>1, <3>2, <1>0, <1>1 DEF InTree
    <3>3. CASE i > g
      <4>1. i + 1 \in DOMAIN t /\ t[i + 1] = m
        BY <3>1, <3>3, <1>0, <1>1
      <4> QED BY <4>1 DEF InTree
    <3> QED BY <3>2, <3>3, <1>0
  <2>3. InTree(n, t)
    <3>1. g + 1 \in DOMAIN t /\ t[g + 1] = n
      BY <1>0, <1>1
    <3> QED BY <3>1 DEF InTree
  <2> QED BY <2>1, <2>2, <2>3
<1>5. Distinct(t)
  <2> SUFFICES ASSUME NEW i \in DOMAIN t, NEW j \in DOMAIN t, t[i] = t[j] PROVE i = j
    BY DEF Distinct
  <2> QED BY <1>0, <1>1 DEF Distinct, InTree
<1> QED BY <1>3, <1>4, <1>5 DEF t

\* Insertion in a gap that agrees with the order keeps it.
LEMMA InsertSorted ==
  ASSUME NEW S, NEW s \in Seq(S), NEW n \in S, NEW g \in 0..Len(s),
         NEW f \in [S -> Int], SortedBy(s, f),
         g > 0 => f[s[g]] <= f[n],
         g < Len(s) => f[n] <= f[s[g + 1]]
  PROVE  SortedBy(InsertAfter(s, g, n), f)
<1> DEFINE t == InsertAfter(s, g, n)
<1>0. Len(s) \in Nat /\ DOMAIN s = 1..Len(s) /\ \A i \in DOMAIN s : s[i] \in S
  OBVIOUS
<1>1. /\ DOMAIN t = 1..(Len(s) + 1)
      /\ \A j \in DOMAIN t : t[j] = IF j <= g THEN s[j] ELSE IF j = g + 1 THEN n ELSE s[j - 1]
  BY DEF InsertAfter
<1> HIDE DEF t
<1>2. \A i \in DOMAIN s : f[s[i]] \in Int
  BY <1>0
<1>3. ASSUME NEW i \in DOMAIN s, i <= g PROVE f[s[i]] <= f[n]
  <2>1. g \in DOMAIN s /\ f[s[g]] <= f[n]
    BY <1>0, <1>3
  <2>2. i = g \/ f[s[i]] <= f[s[g]]
    BY <2>1, <1>0, <1>3 DEF SortedBy
  <2> QED BY <2>1, <2>2, <1>2
<1>4. ASSUME NEW i \in DOMAIN s, i > g PROVE f[n] <= f[s[i]]
  <2>1. g + 1 \in DOMAIN s /\ f[n] <= f[s[g + 1]]
    BY <1>0, <1>4
  <2>2. i = g + 1 \/ f[s[g + 1]] <= f[s[i]]
    BY <2>1, <1>0, <1>4 DEF SortedBy
  <2> QED BY <2>1, <2>2, <1>2
<1>5. ASSUME NEW i \in DOMAIN t, NEW j \in DOMAIN t, i < j
      PROVE  f[t[i]] <= f[t[j]]
  <2>1. CASE j <= g
    BY <2>1, <1>5, <1>0, <1>1 DEF SortedBy
  <2>2. CASE j = g + 1
    BY <2>2, <1>5, <1>0, <1>1, <1>3
  <2>3. CASE j > g + 1
    <3>1. j - 1 \in DOMAIN s /\ t[j] = s[j - 1]
      BY <2>3, <1>0, <1>1
    <3>2. CASE i <= g
      <4>1. i \in DOMAIN s /\ t[i] = s[i] /\ i < j - 1
        BY <3>2, <2>3, <1>0, <1>1
      <4> QED BY <4>1, <3>1 DEF SortedBy
    <3>3. CASE i = g + 1
      BY <3>1, <3>3, <2>3, <1>0, <1>1, <1>4
    <3>4. CASE i > g + 1
      <4>1. i - 1 \in DOMAIN s /\ t[i] = s[i - 1] /\ i - 1 < j - 1
        BY <3>4, <1>5, <1>0, <1>1
      <4> QED BY <4>1, <3>1 DEF SortedBy
    <3> QED BY <3>2, <3>3, <3>4, <1>0, <1>1
  <2> QED BY <2>1, <2>2, <2>3, <1>0, <1>1
<1> QED BY <1>5 DEF SortedBy, t

\* What removal does to the nodes in order.
LEMMA RemoveNodes ==
  ASSUME NEW S, NEW s \in Seq(S), Distinct(s), NEW i \in DOMAIN s
  PROVE  /\ RemoveAt(s, i) \in Seq(S)
         /\ \A m \in S : InTree(m, RemoveAt(s, i)) <=> InTree(m, s) /\ m # s[i]
         /\ Distinct(RemoveAt(s, i))
         /\ \A f : SortedBy(s, f) => SortedBy(RemoveAt(s, i), f)
<1> DEFINE t == RemoveAt(s, i)
<1>0. Len(s) \in Nat /\ DOMAIN s = 1..Len(s) /\ \A j \in DOMAIN s : s[j] \in S
  OBVIOUS
<1>1. /\ DOMAIN t = 1..(Len(s) - 1)
      /\ \A j \in DOMAIN t : t[j] = IF j < i THEN s[j] ELSE s[j + 1]
  BY DEF RemoveAt
<1>2. t \in Seq(S)
  BY <1>0, <1>1 DEF RemoveAt
<1> HIDE DEF t
<1>3. ASSUME NEW m \in S PROVE InTree(m, t) <=> InTree(m, s) /\ m # s[i]
  <2>1. ASSUME InTree(m, t) PROVE InTree(m, s) /\ m # s[i]
    <3>1. PICK j \in DOMAIN t : t[j] = m
      BY <2>1 DEF InTree
    <3>2. CASE j < i
      BY <3>1, <3>2, <1>0, <1>1 DEF InTree, Distinct
    <3>3. CASE j >= i
      <4>1. j + 1 \in DOMAIN s /\ s[j + 1] = m /\ j + 1 # i
        BY <3>1, <3>3, <1>0, <1>1
      <4> QED BY <4>1 DEF InTree, Distinct
    <3> QED BY <3>2, <3>3, <1>0, <1>1
  <2>2. ASSUME InTree(m, s), m # s[i] PROVE InTree(m, t)
    <3>1. PICK j \in DOMAIN s : s[j] = m
      BY <2>2 DEF InTree
    <3>2. CASE j < i
      BY <3>1, <3>2, <1>0, <1>1 DEF InTree
    <3>3. CASE j > i
      <4>1. j - 1 \in DOMAIN t /\ t[j - 1] = m
        BY <3>1, <3>3, <1>0, <1>1
      <4> QED BY <4>1 DEF InTree
    <3> QED BY <3>1, <3>2, <3>3, <2>2, <1>0
  <2> QED BY <2>1, <2>2
<1>4. Distinct(t)
  BY <1>0, <1>1 DEF Distinct
<1>5. ASSUME NEW f, SortedBy(s, f) PROVE SortedBy(t, f)
  BY <1>0, <1>1, <1>5 DEF SortedBy
<1> QED BY <1>2, <1>3, <1>4, <1>5 DEF t

\* ffrbt_rm() of the first node
LEMMA TailIsRemove ==
  ASSUME NEW S, NEW s \in Seq(S), s # <<>>
  PROVE  Tail(s) = RemoveAt(s, 1) /\ 1 \in DOMAIN s /\ Head(s) = s[1]
<1>1. /\ Tail(s) \in Seq(S) /\ Len(Tail(s)) = Len(s) - 1
      /\ \A j \in 1..(Len(s) - 1) : Tail(s)[j] = s[j + 1]
  OBVIOUS
<1>2. Tail(s) \in [1..(Len(s) - 1) -> S]
  <2>1. \A t \in Seq(S) : t \in [1..Len(t) -> S]
    OBVIOUS
  <2> QED BY <1>1, <2>1
<1>3. RemoveAt(s, 1) = [j \in 1..(Len(s) - 1) |-> s[j + 1]]
  BY DEF RemoveAt
<1> QED BY <1>1, <1>2, <1>3

-----------------------------------------------------------------------------
(* The operations. *)

\* fftimerqueue_remove() leaves the other nodes, in order.
LEMMA DetachedNodes ==
  ASSUME TimerInv, NEW n \in Nodes
  PROVE  /\ Detached(n) \in Seq(Nodes)
         /\ \A m \in Nodes : InTree(m, Detached(n)) <=> active[m] /\ m # n
         /\ Distinct(Detached(n))
         /\ SortedBy(Detached(n), left)
<1> USE DEF TimerInv, TypeOK, TreeMatchesActive
<1>1. CASE ~active[n]
  BY <1>1 DEF Detached
<1>2. CASE active[n]
  <2> DEFINE i == CHOOSE i \in DOMAIN tree : tree[i] = n
  <2>1. i \in DOMAIN tree /\ tree[i] = n
    BY <1>2 DEF InTree
  <2>2. Detached(n) = RemoveAt(tree, i)
    BY <1>2 DEF Detached, Without
  <2> HIDE DEF i
  <2> QED BY <2>1, <2>2, RemoveNodes
<1> QED BY <1>1, <1>2

\* A node is inserted where its exact time belongs.
LEMMA GapIsRight ==
  ASSUME TimerInv, NEW n \in Nodes, NEW s \in Seq(Nodes), Distinct(s), SortedBy(s, left),
         \A m \in Nodes : InTree(m, s) => active[m] /\ m # n,
         NEW k \in Words, NEW x \in -MaxLate..MaxInterval, Signed(Minus(k, now)) = x,
         NEW g \in Gaps(s, k)
  PROVE  SortedBy(InsertAfter(s, g, n), [left EXCEPT ![n] = x])
<1> DEFINE f == [left EXCEPT ![n] = x]
<1> USE DEF TimerInv, TypeOK
<1>0. /\ Len(s) \in Nat /\ DOMAIN s = 1..Len(s) /\ g \in 0..Len(s)
      /\ \A i \in DOMAIN s : s[i] \in Nodes /\ active[s[i]] /\ s[i] # n
  BY DEF Gaps, InTree
<1>1. f \in [Nodes -> Int] /\ f[n] = x /\ \A m \in Nodes : m # n => f[m] = left[m]
  BY TimerAssumption
<1> HIDE DEF f
<1>2. SortedBy(s, f)
  BY <1>0, <1>1 DEF SortedBy
<1>3. ASSUME NEW m \in Nodes, active[m] PROVE GoesLeft(k, key[m]) <=> x < left[m]
  <2>1. Signed(Minus(key[m], now)) = left[m] /\ left[m] \in -MaxLate..MaxInterval
    BY <1>3 DEF KeyIsDue
  <2>2. x - left[m] < Half /\ x - left[m] > -Half
    BY <2>1, TimerAssumption
  <2>3. Signed(Minus(k, key[m])) = x - left[m]
    BY <2>1, <2>2, CompareExact
  <2> QED BY <2>1, <2>3, TimerAssumption DEF GoesLeft
<1>4. g > 0 => f[s[g]] <= f[n]
  <2> SUFFICES ASSUME g > 0 PROVE f[s[g]] <= f[n]
    OBVIOUS
  <2>1. g \in DOMAIN s /\ ~GoesLeft(k, key[s[g]])
    BY <1>0 DEF Gaps
  <2>2. left[s[g]] \in Int /\ x \in Int /\ ~(x < left[s[g]])
    BY <2>1, <1>0, <1>3, TimerAssumption
  <2> QED BY <2>1, <2>2, <1>0, <1>1
<1>5. g < Len(s) => f[n] <= f[s[g + 1]]
  <2> SUFFICES ASSUME g < Len(s) PROVE f[n] <= f[s[g + 1]]
    OBVIOUS
  <2>1. g + 1 \in DOMAIN s /\ GoesLeft(k, key[s[g + 1]])
    BY <1>0 DEF Gaps
  <2>2. left[s[g + 1]] \in Int /\ x \in Int /\ x < left[s[g + 1]]
    BY <2>1, <1>0, <1>3, TimerAssumption
  <2>3. f[s[g + 1]] = left[s[g + 1]]
    BY <2>1, <1>0, <1>1
  <2> QED BY <2>2, <2>3, <1>1
<1>6. SortedBy(InsertAfter(s, g, n), f)
  BY <1>0, <1>1, <1>2, <1>4, <1>5, InsertSorted
<1> QED BY <1>6 DEF f

\* The expiry test is exact.
LEMMA ExpiredIsDue ==
  ASSUME TimerInv, pc # "idle", NEW n \in Nodes, active[n]
  PROVE  Expired(n) <=> left[n] + lag <= 0
<1> USE DEF TimerInv, TypeOK
<1>1. /\ Signed(Minus(key[n], now)) = left[n] /\ left[n] \in -MaxLate..MaxInterval
      /\ Signed(Minus(now, pnow)) = lag /\ lag \in 0..MaxLate
      /\ key[n] \in Words /\ now \in Words /\ pnow \in Words
  BY DEF KeyIsDue, CallIsPast
<1>2. left[n] + lag < Half /\ left[n] + lag > -Half
  BY <1>1, TimerAssumption
<1>3. Signed(Minus(key[n], pnow)) = left[n] + lag
  BY <1>1, <1>2, CompareCall
<1> QED BY <1>3 DEF Expired

\* The next key of a periodic node stands for the later of the two times, as
\* long as neither of them has wrapped.
LEMMA NextKeyExact ==
  ASSUME TimerInv, Safe, pc # "idle", NEW n \in Nodes, active[n], Expired(n), interval[n] > 0
  PROVE  /\ ~Wraps
         /\ NextKey(n) \in Words /\ NextLeft(n) \in -MaxLate..MaxInterval
         /\ NextKey(n) = now + NextLeft(n)
         /\ Signed(Minus(NextKey(n), now)) = NextLeft(n)
<1>1. interval[n] \in Intervals /\ interval[n] \in 1..MaxInterval
  <2>1. interval[n] \in Intervals \cup {0}
    BY DEF TimerInv, TypeOK
  <2>2. interval[n] # 0
    OBVIOUS
  <2>3. interval[n] \in Intervals
    BY <2>1, <2>2
  <2>4. interval[n] \in Int /\ MaxInterval \in Nat /\ Magnitude(interval[n]) <= MaxInterval
    BY <2>3, TimerAssumption
  <2> QED BY <2>3, <2>4 DEF Magnitude
<1> USE TimerAssumption DEF TimerInv, TypeOK
<1>2. ~Wraps
  BY <1>1 DEF Safe
<1>3. /\ key[n] = now + left[n] /\ pnow = now - lag /\ now + MaxInterval + 1 < Mod
      /\ left[n] + lag <= 0
  BY <1>2, ExpiredIsDue DEF NothingWrapped, ClockFits
<1>4. /\ left[n] \in -MaxLate..MaxInterval /\ lag \in 0..MaxLate /\ now \in Words
      /\ key[n] \in Words /\ pnow \in Words
  OBVIOUS
<1>5. Plus(key[n], interval[n]) = now + left[n] + interval[n] /\ Plus(pnow, 1) = now - lag + 1
  BY <1>1, <1>3, <1>4 DEF Plus, Words, Mod
<1>6. NextKey(n) = now + NextLeft(n) /\ NextLeft(n) \in -MaxLate..MaxInterval
  BY <1>1, <1>3, <1>4, <1>5 DEF NextKey, NextLeft, UMax, Words, Mod
<1>7. NextKey(n) \in Words
  BY <1>1, <1>3, <1>4, <1>5 DEF NextKey, UMax, Words, Mod
<1>8. Signed(Minus(NextKey(n), now)) = NextLeft(n)
  BY <1>3, <1>4, <1>6, <1>7 DEF Signed, Minus, Words, Mod
<1> QED BY <1>2, <1>6, <1>7, <1>8

-----------------------------------------------------------------------------
(* TimerInv is inductive.                                                  *)

LEMMA TimerInit == Init => TimerInv
<1> SUFFICES ASSUME Init PROVE TimerInv
  OBVIOUS
<1> USE TimerAssumption DEF Init
<1>1. TypeOK
  <2>1. 0 \in Words /\ 0 \in -MaxLate..MaxInterval /\ 0 \in 0..MaxLate
    BY DEF Words, Mod
  <2>2. left \in [Nodes -> -MaxLate..MaxInterval] /\ key \in [Nodes -> Words]
    BY <2>1
  <2>3. active \in [Nodes -> BOOLEAN] /\ interval \in [Nodes -> Intervals \cup {0}]
    OBVIOUS
  <2> QED BY <2>1, <2>2, <2>3 DEF TypeOK
<1>2. TreeMatchesActive /\ SortedBy(tree, left)
  BY DEF TreeMatchesActive, InTree, Distinct, SortedBy
<1>3. KeyIsDue /\ CallIsPast /\ NothingWrapped
  BY DEF KeyIsDue, CallIsPast, NothingWrapped
<1> QED BY <1>1, <1>2, <1>3 DEF TimerInv

\* Time passes.
LEMMA TimerTick ==
  ASSUME TimerInv, Tick
  PROVE  TimerInv'
<1> USE DEF TimerInv, Tick
<1>0. /\ now \in Words /\ pnow \in Words /\ lag \in 0..MaxLate
      /\ \A n \in Nodes : key[n] \in Words /\ left[n] \in -MaxLate..MaxInterval
  BY DEF TypeOK
<1>1. \A n \in Nodes : active[n] => left'[n] = left[n] - 1 /\ left'[n] >= -MaxLate
  BY <1>0, TimerAssumption
<1>2. \A n \in Nodes : ~active[n] => left'[n] = left[n]
  OBVIOUS
<1>3. \A n \in Nodes : left'[n] \in -MaxLate..MaxInterval
  BY <1>0, <1>1, <1>2, TimerAssumption
<1>4. now' \in Words
  BY <1>0, TimerAssumption DEF Plus, Words, Mod
<1>5. lag' \in 0..MaxLate
  BY <1>0, TimerAssumption
<1>6. left' \in [Nodes -> -MaxLate..MaxInterval]
  BY <1>3
<1>7. TypeOK'
  BY <1>4, <1>5, <1>6 DEF TypeOK
<1>8. TreeMatchesActive'
  BY DEF TreeMatchesActive
<1>9. KeyIsDue'
  <2> SUFFICES ASSUME NEW n \in Nodes, active[n]
               PROVE  Signed(Minus(key[n], now')) = left'[n]
    BY DEF KeyIsDue
  <2>1. Signed(Minus(key[n], now)) = left[n] /\ left[n] > -Half
    BY <1>0, TimerAssumption DEF KeyIsDue
  <2> QED BY <2>1, <1>0, <1>1, TickNearer
<1>10. SortedBy(tree', left')
  <2> SUFFICES ASSUME NEW i \in DOMAIN tree, NEW j \in DOMAIN tree, i < j
               PROVE  left'[tree[i]] <= left'[tree[j]]
    BY DEF SortedBy
  <2>1. /\ tree[i] \in Nodes /\ tree[j] \in Nodes
        /\ active[tree[i]] /\ active[tree[j]]
    BY DEF TypeOK, TreeMatchesActive, InTree
  <2>2. left[tree[i]] <= left[tree[j]]
    BY DEF SortedBy
  <2> QED BY <2>1, <2>2, <1>0, <1>1
<1>11. CallIsPast'
  <2> SUFFICES ASSUME pc # "idle" PROVE Signed(Minus(now', pnow)) = lag'
    BY DEF CallIsPast
  <2>1. Signed(Minus(now, pnow)) = lag /\ lag < Half - 1
    BY <1>0, TimerAssumption DEF CallIsPast
  <2> QED BY <2>1, <1>0, TickFarther
<1>12. NothingWrapped'
  <2> SUFFICES ASSUME ~Wraps PROVE NothingWrapped'
    BY DEF NothingWrapped
  <2>1. now' = now + 1 /\ ClockFits(now')
    BY <1>0, TimerAssumption DEF ClockFits, Plus, Words, Mod
  <2>2. pc' # "idle" => pnow' = now' - lag'
    BY <2>1, <1>0 DEF NothingWrapped, Words
  <2>3. \A n \in Nodes : active'[n] => key'[n] = now' + left'[n]
    BY <2>1, <1>0, <1>1 DEF NothingWrapped, Words
  <2> QED BY <2>1, <2>2, <2>3 DEF NothingWrapped, ClockFits
<1> QED BY <1>7, <1>8, <1>9, <1>10, <1>11, <1>12

\* fftimerqueue_remove()
LEMMA TimerRemove ==
  ASSUME TimerInv, NEW n \in Nodes, Remove(n)
  PROVE  TimerInv'
<1> USE DEF TimerInv, Remove
<1>1. /\ tree' \in Seq(Nodes) /\ Distinct(tree') /\ SortedBy(tree', left)
      /\ \A m \in Nodes : InTree(m, tree') <=> active[m] /\ m # n
  BY DetachedNodes
<1>2. \A m \in Nodes : active'[m] <=> active[m] /\ m # n
  BY DEF TypeOK
<1>3. \A m \in Nodes : m # n => left'[m] = left[m]
  BY DEF TypeOK
<1>4. TypeOK'
  <2>1. left' \in [Nodes -> -MaxLate..MaxInterval]
    BY TimerAssumption DEF TypeOK
  <2>2. active' \in [Nodes -> BOOLEAN]
    BY DEF TypeOK
  <2> QED BY <2>1, <2>2, <1>1 DEF TypeOK
<1>5. TreeMatchesActive'
  BY <1>1, <1>2 DEF TreeMatchesActive
<1>6. KeyIsDue' /\ CallIsPast' /\ NothingWrapped'
  BY <1>2, <1>3 DEF KeyIsDue, CallIsPast, NothingWrapped
<1>7. SortedBy(tree', left')
  <2>1. \A i \in DOMAIN tree' : left'[tree'[i]] = left[tree'[i]]
    BY <1>1, <1>3 DEF InTree
  <2> QED BY <2>1, <1>1 DEF SortedBy
<1> QED BY <1>4, <1>5, <1>6, <1>7

\* fftimerqueue_add()
LEMMA TimerAdd ==
  ASSUME TimerInv, NEW n \in Nodes, NEW i \in Intervals, Add(n, i)
  PROVE  TimerInv'
<1> DEFINE k == Plus(now, Magnitude(i))
           x == Magnitude(i)
           s == Detached(n)
<1> USE DEF TimerInv
<1>0. x \in 0..MaxInterval /\ x \in -MaxLate..MaxInterval /\ now \in Words
  BY TimerAssumption DEF TypeOK, Magnitude
<1>1. k \in Words /\ Signed(Minus(k, now)) = x
  BY <1>0, PlusAhead
<1>2. /\ s \in Seq(Nodes) /\ Distinct(s) /\ SortedBy(s, left)
      /\ \A m \in Nodes : InTree(m, s) <=> active[m] /\ m # n
  BY DetachedNodes
<1>3. PICK g \in Gaps(s, k) : tree' = InsertAfter(s, g, n)
  BY DEF Add
<1>4. /\ key' = [key EXCEPT ![n] = k] /\ left' = [left EXCEPT ![n] = x]
      /\ interval' = [interval EXCEPT ![n] = i] /\ active' = [active EXCEPT ![n] = TRUE]
      /\ fired' = fired \ {n} /\ UNCHANGED <<now, pc, pnow, lag>>
  BY DEF Add
<1> HIDE DEF k, x, s
<1>5. SortedBy(tree', left')
  BY <1>0, <1>1, <1>2, <1>3, <1>4, GapIsRight
<1>6. /\ tree' \in Seq(Nodes) /\ Distinct(tree')
      /\ \A m \in Nodes : InTree(m, tree') <=> active[m] \/ m = n
  <2>1. g \in 0..Len(s) /\ ~InTree(n, s)
    BY <1>2 DEF Gaps
  <2> QED BY <2>1, <1>2, <1>3, InsertNodes
<1>7. /\ key'[n] = k /\ left'[n] = x /\ active'[n]
      /\ \A m \in Nodes : m # n =>
           key'[m] = key[m] /\ left'[m] = left[m] /\ active'[m] = active[m]
  BY <1>4 DEF TypeOK
<1>8. TypeOK'
  <2>1. left' \in [Nodes -> -MaxLate..MaxInterval] /\ key' \in [Nodes -> Words]
    BY <1>0, <1>1, <1>4 DEF TypeOK
  <2>2. active' \in [Nodes -> BOOLEAN] /\ interval' \in [Nodes -> Intervals \cup {0}]
    BY <1>4 DEF TypeOK
  <2> QED BY <2>1, <2>2, <1>4, <1>6 DEF TypeOK
<1>9. TreeMatchesActive'
  BY <1>6, <1>7 DEF TreeMatchesActive
<1>10. KeyIsDue'
  BY <1>1, <1>4, <1>7 DEF KeyIsDue
<1>11. CallIsPast'
  BY <1>4 DEF CallIsPast
<1>12. NothingWrapped'
  <2>1. ~Wraps => k = now + x
    BY <1>0, TimerAssumption DEF NothingWrapped, ClockFits, k, x, Plus, Words, Mod
  <2> QED BY <2>1, <1>4, <1>7 DEF NothingWrapped, ClockFits
<1> QED BY <1>5, <1>8, <1>9, <1>10, <1>11, <1>12

\* The first node of the tree is active, and no active node is due before it.
LEMMA HeadIsFirst ==
  ASSUME TimerInv, tree # <<>>
  PROVE  /\ Head(tree) \in Nodes /\ active[Head(tree)]
         /\ \A m \in Nodes : active[m] => left[Head(tree)] <= left[m]
         /\ Tail(tree) \in Seq(Nodes) /\ Distinct(Tail(tree)) /\ SortedBy(Tail(tree), left)
         /\ \A m \in Nodes : InTree(m, Tail(tree)) <=> active[m] /\ m # Head(tree)
<1> USE DEF TimerInv, TypeOK, TreeMatchesActive
<1>1. Tail(tree) = RemoveAt(tree, 1) /\ 1 \in DOMAIN tree /\ Head(tree) = tree[1]
  BY TailIsRemove
<1>2. Head(tree) \in Nodes /\ active[Head(tree)]
  BY <1>1 DEF InTree
<1>3. ASSUME NEW m \in Nodes, active[m] PROVE left[Head(tree)] <= left[m]
  <2>1. PICK j \in DOMAIN tree : tree[j] = m
    BY <1>3 DEF InTree
  <2>2. j = 1 \/ 1 < j
    OBVIOUS
  <2>3. left[m] \in Int
    BY TimerAssumption
  <2> QED BY <2>1, <2>2, <2>3, <1>1 DEF SortedBy
<1>4. /\ Tail(tree) \in Seq(Nodes) /\ Distinct(Tail(tree)) /\ SortedBy(Tail(tree), left)
      /\ \A m \in Nodes : InTree(m, Tail(tree)) <=> active[m] /\ m # Head(tree)
  <2>1. tree \in Seq(Nodes) /\ Distinct(tree) /\ SortedBy(tree, left)
    OBVIOUS
  <2>2. \A m \in Nodes : InTree(m, tree) <=> active[m]
    OBVIOUS
  <2> HIDE DEF TimerInv, TypeOK, TreeMatchesActive
  <2>3. /\ RemoveAt(tree, 1) \in Seq(Nodes) /\ Distinct(RemoveAt(tree, 1))
        /\ SortedBy(RemoveAt(tree, 1), left)
        /\ \A m \in Nodes : InTree(m, RemoveAt(tree, 1)) <=> InTree(m, tree) /\ m # tree[1]
    BY <2>1, <1>1, RemoveNodes
  <2> QED BY <2>2, <2>3, <1>1
<1> QED BY <1>2, <1>3, <1>4

LEMMA IntervalIsInt ==
  ASSUME TimerInv, NEW n \in Nodes
  PROVE  interval[n] \in Int
<1>1. interval[n] \in Intervals \cup {0}
  BY DEF TimerInv, TypeOK
<1>2. Intervals \subseteq Int /\ 0 \in Int
  BY TimerAssumption
<1> QED BY <1>1, <1>2, Zenon

\* fftimerqueue_process() fires the first node.
LEMMA TimerFire ==
  ASSUME TimerInv, Safe, ProcessFire
  PROVE  TimerInv'
<1> DEFINE n == Head(tree)
           s == Tail(tree)
<1> USE DEF TimerInv
<1>1. tree # <<>> /\ pc = "scan" /\ Expired(n)
  BY DEF ProcessFire
<1>2. /\ n \in Nodes /\ active[n]
      /\ s \in Seq(Nodes) /\ Distinct(s) /\ SortedBy(s, left)
      /\ \A m \in Nodes : InTree(m, s) <=> active[m] /\ m # n
  BY <1>1, HeadIsFirst
<1>3. /\ pc' = "call" /\ fired' = fired \cup {n}
      /\ UNCHANGED <<now, interval, pnow, lag>>
  BY DEF ProcessFire
<1>4. CallIsPast'
  BY <1>1, <1>3 DEF CallIsPast
<1>5. CASE interval[n] > 0
  <2> DEFINE k == NextKey(n)
             x == NextLeft(n)
  <2>1. /\ ~Wraps /\ k \in Words /\ x \in -MaxLate..MaxInterval
        /\ k = now + x /\ Signed(Minus(k, now)) = x
    BY <1>1, <1>2, <1>5, NextKeyExact
  <2>2. ~(interval[n] <= 0)
    <3>1. interval[n] \in Int
      BY <1>2, IntervalIsInt
    <3> QED BY <3>1, <1>5
  <2>3. PICK g \in Gaps(s, k) : tree' = InsertAfter(s, g, n)
    BY <2>2 DEF ProcessFire
  <2>4. /\ key' = [key EXCEPT ![n] = k] /\ left' = [left EXCEPT ![n] = x]
        /\ UNCHANGED active
    BY <2>2 DEF ProcessFire
  <2> HIDE DEF k, x, n, s
  <2>5. SortedBy(tree', left')
    BY <1>2, <2>1, <2>3, <2>4, GapIsRight
  <2>6. /\ tree' \in Seq(Nodes) /\ Distinct(tree')
        /\ \A m \in Nodes : InTree(m, tree') <=> active[m]
    <3>1. g \in 0..Len(s) /\ ~InTree(n, s)
      BY <1>2 DEF Gaps
    <3> QED BY <3>1, <1>2, <2>3, InsertNodes
  <2>7. /\ key'[n] = k /\ left'[n] = x
        /\ \A m \in Nodes : m # n => key'[m] = key[m] /\ left'[m] = left[m]
    BY <1>2, <2>4 DEF TypeOK
  <2>8. TypeOK'
    <3>1. left' \in [Nodes -> -MaxLate..MaxInterval] /\ key' \in [Nodes -> Words]
      BY <1>2, <2>1, <2>4 DEF TypeOK
    <3> QED BY <3>1, <1>2, <1>3, <2>4, <2>6 DEF TypeOK
  <2>9. TreeMatchesActive' /\ KeyIsDue'
    BY <1>3, <2>1, <2>4, <2>6, <2>7 DEF TreeMatchesActive, KeyIsDue
  <2>10. NothingWrapped'
    BY <1>1, <1>3, <2>1, <2>4, <2>7 DEF NothingWrapped, ClockFits
  <2> QED BY <1>4, <2>5, <2>8, <2>9, <2>10
<1>6. CASE ~(interval[n] > 0)
  <2>1. /\ tree' = s /\ active' = [active EXCEPT ![n] = FALSE]
        /\ left' = [left EXCEPT ![n] = 0] /\ UNCHANGED key
    BY <1>6 DEF ProcessFire
  <2> HIDE DEF n, s
  <2>2. \A m \in Nodes : active'[m] <=> active[m] /\ m # n
    BY <1>2, <2>1 DEF TypeOK
  <2>3. \A m \in Nodes : m # n => left'[m] = left[m]
    BY <1>2, <2>1 DEF TypeOK
  <2>4. TypeOK'
    <3>1. left' \in [Nodes -> -MaxLate..MaxInterval]
      <4>1. 0 \in -MaxLate..MaxInterval
        BY TimerAssumption
      <4> QED BY <4>1, <2>1 DEF TypeOK
    <3>2. active' \in [Nodes -> BOOLEAN]
      BY <2>1 DEF TypeOK
    <3> QED BY <3>1, <3>2, <1>2, <1>3, <2>1 DEF TypeOK
  <2>5. TreeMatchesActive'
    BY <1>2, <2>1, <2>2 DEF TreeMatchesActive
  <2>6. KeyIsDue' /\ NothingWrapped'
    BY <1>1, <1>3, <2>1, <2>2, <2>3 DEF KeyIsDue, NothingWrapped, ClockFits
  <2>7. SortedBy(tree', left')
    <3>1. \A i \in DOMAIN tree' : left'[tree'[i]] = left[tree'[i]]
      BY <1>2, <2>1, <2>3 DEF InTree
    <3> QED BY <3>1, <1>2, <2>1 DEF SortedBy
  <2> QED BY <1>4, <2>4, <2>5, <2>6, <2>7
<1> QED BY <1>5, <1>6

\* fftimerqueue_process() begins, a function returns, or the call ends.
LEMMA TimerControl ==
  ASSUME TimerInv, ProcessBegin \/ FuncReturn \/ ProcessEnd
  PROVE  TimerInv'
<1> USE DEF TimerInv
<1>0. /\ UNCHANGED <<now, tree, key, interval, active, left>>
      /\ pc' \in {"idle", "scan", "call"} /\ fired' \subseteq Nodes
  BY DEF ProcessBegin, FuncReturn, ProcessEnd, TypeOK
<1>1. TypeOK' /\ CallIsPast'
  <2>1. CASE ProcessBegin
    <3>1. Signed(Minus(now, now)) = 0 /\ now \in Words /\ 0 \in 0..MaxLate
      BY TimerAssumption DEF TypeOK, Signed, Minus, Words, Mod
    <3> QED BY <3>1, <2>1, <1>0 DEF ProcessBegin, TypeOK, CallIsPast
  <2>2. CASE FuncReturn
    BY <2>2, <1>0 DEF FuncReturn, TypeOK, CallIsPast
  <2>3. CASE ProcessEnd
    <3>1. 0 \in Words /\ 0 \in 0..MaxLate
      BY TimerAssumption DEF Words, Mod
    <3> QED BY <3>1, <2>3, <1>0 DEF ProcessEnd, TypeOK, CallIsPast
  <2> QED BY <2>1, <2>2, <2>3
<1>2. TreeMatchesActive' /\ KeyIsDue' /\ SortedBy(tree', left')
  BY <1>0 DEF TreeMatchesActive, KeyIsDue
<1>3. NothingWrapped'
  <2>1. now \in Int
    BY TimerAssumption DEF TypeOK, Words, Mod
  <2> QED BY <2>1, <1>0 DEF NothingWrapped, ClockFits, ProcessBegin, FuncReturn, ProcessEnd
<1> QED BY <1>1, <1>2, <1>3

LEMMA TimerStep ==
  ASSUME Safe
  PROVE  TimerInv /\ [Next]_vars => TimerInv'
<1> SUFFICES ASSUME TimerInv, [Next]_vars PROVE TimerInv'
  OBVIOUS
<1>1. CASE UNCHANGED vars
  BY <1>1 DEF vars, TimerInv, TypeOK, TreeMatchesActive, KeyIsDue, CallIsPast,
              NothingWrapped, ClockFits
<1> QED BY <1>1, TimerTick, TimerRemove, TimerAdd, TimerFire, TimerControl DEF Next

LEMMA TimerInductive ==
  ASSUME Safe
  PROVE  Spec => []TimerInv
BY TimerInit, TimerStep, PTL DEF Spec

-----------------------------------------------------------------------------
(* Theorems. *)

\* Every field keeps its type and no node gets later than the bound.
THEOREM TypeCorrect ==
  ASSUME Safe
  PROVE  Spec => []TypeOK
<1>1. TimerInv => TypeOK
  BY DEF TimerInv
<1> QED BY <1>1, TimerInductive, PTL

\* The active flag of a node says whether it is in the tree.
THEOREM ActiveIsInTree ==
  ASSUME Safe
  PROVE  Spec => []TreeMatchesActive
<1>1. TimerInv => TreeMatchesActive
  BY DEF TimerInv
<1> QED BY <1>1, TimerInductive, PTL

\* The wrapped time means the exact time, for all nodes of the queue.
THEOREM WrappedTimeIsExact ==
  ASSUME Safe
  PROVE  Spec => []KeyIsDue
<1>1. TimerInv => KeyIsDue
  BY DEF TimerInv
<1> QED BY <1>1, TimerInductive, PTL

\* No function is called before its time.
THEOREM NoTimerIsEarly ==
  ASSUME Safe
  PROVE  Spec => NeverEarly
<1> DEFINE OnTime == \A n \in Nodes : Fires(n) => left[n] + lag <= 0
<1>1. TimerInv /\ [Next]_vars => [OnTime]_vars
  <2> SUFFICES ASSUME TimerInv, Next, NEW n \in Nodes, Fires(n)
               PROVE  left[n] + lag <= 0
    BY DEF OnTime
  <2>1. ProcessFire
    BY DEF Fires, Next, Tick, Remove, Add, UserRuns, ProcessBegin, FuncReturn, ProcessEnd
  <2> QED BY <2>1, HeadIsFirst, ExpiredIsDue DEF ProcessFire, Fires
<1>2. Spec => [][OnTime]_vars
  BY <1>1, TimerInductive, PTL DEF Spec
<1> QED BY <1>2 DEF NeverEarly

\* One call of fftimerqueue_process() does not fire a node twice.
THEOREM NoTimerFiresTwice ==
  ASSUME Safe
  PROVE  Spec => OncePerCall
<1> DEFINE Once == \A n \in Nodes : Fires(n) => n \notin fired
           I == TimerInv /\ (pc # "idle" => FiredIsLater)
<1>1. Init => I
  BY TimerInit DEF Init
<1>2. I /\ [Next]_vars => I'
  <2> SUFFICES ASSUME I, [Next]_vars, pc' # "idle" PROVE FiredIsLater'
    BY TimerStep
  <2>0. /\ active \in [Nodes -> BOOLEAN] /\ left \in [Nodes -> Int] /\ lag \in Int
        /\ fired \subseteq Nodes
    BY TimerAssumption DEF TimerInv, TypeOK
  <2> USE DEF FiredIsLater
  <2>1. CASE UNCHANGED vars
    BY <2>1 DEF vars
  <2>2. CASE Tick
    BY <2>0, <2>2 DEF Tick
  <2>3. ASSUME NEW n \in Nodes, Remove(n) PROVE FiredIsLater'
    BY <2>0, <2>3 DEF Remove
  <2>4. ASSUME NEW n \in Nodes, NEW i \in Intervals, Add(n, i) PROVE FiredIsLater'
    BY <2>0, <2>4 DEF Add
  <2>5. CASE ProcessBegin \/ FuncReturn \/ ProcessEnd
    BY <2>5 DEF ProcessBegin, FuncReturn, ProcessEnd
  <2>6. CASE ProcessFire
    <3>1. PICK n \in Nodes : n = Head(tree)
      BY <2>6, HeadIsFirst DEF ProcessFire
    <3>2. /\ fired' = fired \cup {n} /\ pc = "scan" /\ lag' = lag
          /\ \/ left' = [left EXCEPT ![n] = NextLeft(n)] /\ active' = active
             \/ active' = [active EXCEPT ![n] = FALSE] /\ left' = [left EXCEPT ![n] = 0]
      BY <3>1, <2>6 DEF ProcessFire
    <3>3. NextLeft(n) + lag >= 1
      BY <2>0, IntervalIsInt DEF NextLeft
    <3> QED BY <2>0, <3>2, <3>3
  <2> QED BY <2>1, <2>2, <2>3, <2>4, <2>5, <2>6 DEF Next
<1>3. I /\ [Next]_vars => [Once]_vars
  <2> SUFFICES ASSUME I, Next, NEW n \in Nodes, Fires(n) PROVE n \notin fired
    BY DEF Once
  <2>1. ProcessFire
    BY DEF Fires, Next, Tick, Remove, Add, UserRuns, ProcessBegin, FuncReturn, ProcessEnd
  <2>2. left[n] + lag <= 0 /\ active[n] /\ pc # "idle"
    BY <2>1, HeadIsFirst, ExpiredIsDue DEF ProcessFire, Fires
  <2>3. left[n] \in Int /\ lag \in Int
    BY TimerAssumption DEF TimerInv, TypeOK
  <2> QED BY <2>2, <2>3 DEF FiredIsLater
<1>4. Spec => [][Once]_vars
  BY <1>1, <1>2, <1>3, PTL DEF Spec
<1> QED BY <1>4 DEF OncePerCall

\* The queue with wrapped times implements the queue with exact times: nothing
\* fires early or out of order, and nothing that is due is left behind.
THEOREM ImplementsExactTimers ==
  ASSUME Safe
  PROVE  Spec => ExactTimers
<1> USE DEF Exact!Magnitude, Magnitude
<1>1. Init => Exact!Init
  BY DEF Init, Exact!Init
<1>2. TimerInv /\ [Next]_vars => [Exact!Next]_Exact!vars
  <2> SUFFICES ASSUME TimerInv, [Next]_vars PROVE [Exact!Next]_Exact!vars
    OBVIOUS
  <2>0. active \in [Nodes -> BOOLEAN] /\ left \in [Nodes -> -MaxLate..MaxInterval]
    BY DEF TimerInv, TypeOK
  <2>1. CASE UNCHANGED vars
    BY <2>1 DEF vars, Exact!vars
  <2>2. CASE Tick
    BY <2>2 DEF Tick, Exact!Tick, Exact!Next
  <2>3. ASSUME NEW n \in Nodes, Remove(n) PROVE Exact!Next
    <3>1. {m \in Nodes : active'[m]} = {m \in Nodes : active[m]} \ {n}
      BY <2>0, <2>3 DEF Remove
    <3>2. Exact!Disarm(n)
      BY <3>1, <2>3 DEF Remove, UserRuns, Exact!Disarm
    <3> QED BY <3>2 DEF Exact!Next
  <2>4. ASSUME NEW n \in Nodes, NEW i \in Intervals, Add(n, i) PROVE Exact!Next
    <3>1. {m \in Nodes : active'[m]} = {m \in Nodes : active[m]} \cup {n}
      BY <2>0, <2>4 DEF Add
    <3>2. Exact!Arm(n, i)
      BY <3>1, <2>4 DEF Add, UserRuns, Exact!Arm
    <3> QED BY <3>2 DEF Exact!Next
  <2>5. CASE ProcessBegin
    BY <2>5 DEF ProcessBegin, Exact!Begin, Exact!Next
  <2>6. CASE FuncReturn
    BY <2>6 DEF FuncReturn, Exact!Return, Exact!Next
  <2>7. CASE ProcessEnd
    <3>1. ASSUME NEW n \in Nodes, active[n] PROVE ~(left[n] + lag <= 0)
      <4>1. tree # <<>>
        BY <3>1 DEF TimerInv, TypeOK, TreeMatchesActive, InTree
      <4>2. /\ Head(tree) \in Nodes /\ active[Head(tree)] /\ ~Expired(Head(tree))
            /\ left[Head(tree)] <= left[n]
        BY <4>1, <3>1, <2>7, HeadIsFirst DEF ProcessEnd
      <4>3. ~(left[Head(tree)] + lag <= 0)
        BY <4>2, <2>7, ExpiredIsDue DEF ProcessEnd
      <4>4. left[Head(tree)] \in Int /\ left[n] \in Int /\ lag \in Int
        BY <4>2, <2>0, TimerAssumption DEF TimerInv, TypeOK
      <4> QED BY <4>2, <4>3, <4>4
    <3>2. Exact!End
      BY <3>1, <2>7 DEF ProcessEnd, Exact!End, Exact!Due
    <3> QED BY <3>2 DEF Exact!Next
  <2>8. CASE ProcessFire
    <3>0. PICK n \in Nodes : n = Head(tree)
      BY <2>8, HeadIsFirst DEF ProcessFire
    <3>1. tree # <<>> /\ pc = "scan" /\ Expired(n)
      BY <3>0, <2>8 DEF ProcessFire
    <3>2. n \in Nodes /\ active[n] /\ \A m \in Nodes : active[m] => left[n] <= left[m]
      BY <3>0, <3>1, HeadIsFirst
    <3>3. left[n] + lag <= 0
      BY <3>1, <3>2, ExpiredIsDue
    <3>4. \/ /\ interval[n] > 0
             /\ left' = [left EXCEPT ![n] = NextLeft(n)]
             /\ UNCHANGED active
          \/ /\ interval[n] <= 0
             /\ active' = [active EXCEPT ![n] = FALSE]
             /\ left' = [left EXCEPT ![n] = 0]
      BY <3>0, <2>8 DEF ProcessFire
    <3>5. pc' = "call" /\ UNCHANGED <<interval, lag>>
      BY <2>8 DEF ProcessFire
    <3>6. CASE interval[n] > 0 /\ left' = [left EXCEPT ![n] = NextLeft(n)] /\ UNCHANGED active
      <4>1. NextLeft(n) = Exact!Later(left[n] + interval[n], 1 - lag)
        BY DEF NextLeft, Exact!Later
      <4>2. Exact!Fire(n)
        BY <3>1, <3>2, <3>3, <3>5, <3>6, <4>1 DEF Exact!Fire, Exact!Due
      <4>3. \E m \in Nodes : Exact!Fire(m)
        BY <4>2, <3>2
      <4> QED BY <4>3 DEF Exact!Next
    <3>7. CASE /\ interval[n] <= 0
               /\ active' = [active EXCEPT ![n] = FALSE]
               /\ left' = [left EXCEPT ![n] = 0]
      <4>1. {m \in Nodes : active'[m]} = {m \in Nodes : active[m]} \ {n}
        BY <2>0, <3>2, <3>7
      <4>2. Exact!Fire(n)
        BY <3>1, <3>2, <3>3, <3>5, <3>7, <4>1 DEF Exact!Fire, Exact!Due
      <4>3. \E m \in Nodes : Exact!Fire(m)
        BY <4>2, <3>2
      <4> QED BY <4>3 DEF Exact!Next
    <3> QED BY <3>4, <3>6, <3>7
  <2> QED BY <2>1, <2>2, <2>3, <2>4, <2>5, <2>6, <2>7, <2>8 DEF Next
<1>3. Spec => Exact!Spec
  BY <1>1, <1>2, TimerInductive, PTL DEF Spec, Exact!Spec
<1> QED BY <1>3 DEF ExactTimers

\* The tree holds the active nodes, each under a key that means the time it is due.
THEOREM TreeIsAsAdded ==
  ASSUME Safe
  PROVE  Spec => []TreeIsRight
<1>1. TreeMatchesActive /\ KeyIsDue => TreeIsRight
  BY DEF TreeIsRight
<1> QED BY <1>1, ActiveIsInTree, WrappedTimeIsExact, PTL
=============================================================================
