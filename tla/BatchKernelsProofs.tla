------------------------- MODULE BatchKernelsProofs -------------------------
(***************************************************************************)
(* The accumulators the two kernels leave are those of cpu_aggregate, for  *)
(* all slots, batches of any length, any number of symbols and all widths  *)
(* of the counters.                                                        *)
(*                                                                         *)
(* A message has a share in each cell of its symbol: a number to add, a    *)
(* price to take the maximum or the minimum of, or the neutral value.  A   *)
(* cell holds, modulo its width, the total of the shares whose atomics     *)
(* have been made; the total is taken in the order of the feed, and making *)
(* one share more, wherever in the feed, adds it to the total.             *)
(***************************************************************************)
EXTENDS BatchKernels, FiniteSetTheorems, SequenceTheorems, TLAPS

-----------------------------------------------------------------------------
(***************************************************************************)
(* Induction, and what it says of loops.                                   *)
(***************************************************************************)

\* The order of the numbers is well founded, said of a set.
LEMMA LeastElement ==
    ASSUME NEW T \in SUBSET Nat, T # {}
    PROVE  \E k \in T : \A m \in T : k <= m
<1>1. PICK k \in T : \A m \in T : ~ (<<m, k>> \in OpToRel(<, Nat))
  BY NatLessThanWellFounded, WFMin, Zenon
<1>2. \A m \in T : m \in Nat /\ k \in Nat
  OBVIOUS
<1>3. \A m \in T : m < k => <<m, k>> \in OpToRel(<, Nat)
  BY <1>2, Zenon DEF OpToRel
<1>4. \A m \in T : ~(m < k)
  BY <1>1, <1>3, Zenon
<1> QED
  BY <1>2, <1>4

\* Induction up to a bound, for a property given as the set of what has it.
LEMMA InductionUpTo ==
    ASSUME NEW n \in Nat, NEW S, 0 \in S,
           \A i \in 1..n : i - 1 \in S => i \in S
    PROVE  0..n \subseteq S
<1> DEFINE T == (0..n) \ S
<1> SUFFICES ASSUME T # {} PROVE FALSE
  OBVIOUS
<1>1. PICK k \in T : \A m \in T : k <= m
  <2>1. T \in SUBSET Nat
    OBVIOUS
  <2> HIDE DEF T
  <2> QED
    BY <2>1, LeastElement
<1>2. k \in 1..n /\ k - 1 \in 0..n /\ ~(k <= k - 1)
  BY <1>1
<1>3. k - 1 \in S
  BY <1>1, <1>2
<1> QED
  BY <1>1, <1>2, <1>3

\* The bodies of a loop of n rounds over values of S, and the runs of the loop.
Bodies(S, n) == [1..n -> [S -> S]]

LoopRuns(S, x, n, h) ==
    {f \in [0..n -> S] : f[0] = x /\ \A i \in 1..n : f[i] = h[i][f[i-1]]}

\* A loop runs to its end.
LEMMA LoopExists ==
    ASSUME NEW S, NEW x \in S, NEW n \in Nat, NEW h \in Bodies(S, n)
    PROVE  LoopRuns(S, x, n, h) # {}
<1> USE DEF Bodies
<1> DEFINE Runs(m) == {f \in [0..m -> S] :
                         f[0] = x /\ \A i \in 1..m : f[i] = h[i][f[i-1]]}
           T == {m \in 0..n : Runs(m) # {}}
<1>1. 0 \in T
  <2>1. [i \in 0..0 |-> x] \in Runs(0)
    OBVIOUS
  <2> QED
    BY <2>1
<1>2. ASSUME NEW m \in 1..n, m - 1 \in T PROVE m \in T
  <2>1. PICK f : f \in Runs(m - 1)
    BY <1>2
  <2>2. f \in [0..m-1 -> S] /\ f[0] = x /\ \A i \in 1..m-1 : f[i] = h[i][f[i-1]]
    BY <2>1
  <2> DEFINE g == [i \in 0..m |-> IF i = m THEN h[m][f[m-1]] ELSE f[i]]
  <2>3. m - 1 \in 0..m-1 /\ f[m-1] \in S /\ h[m][f[m-1]] \in S
    BY <2>2
  <2>4. g \in [0..m -> S] /\ g[0] = x
    BY <2>2, <2>3
  <2>5. ASSUME NEW i \in 1..m PROVE g[i] = h[i][g[i-1]]
    <3>1. g[i - 1] = f[i - 1]
      OBVIOUS
    <3>2. CASE i = m
      BY <3>1, <3>2
    <3>3. CASE i # m
      <4>1. i \in 1..m-1
        BY <3>3
      <4> QED
        BY <2>2, <3>1, <3>3, <4>1
    <3> QED
      BY <3>2, <3>3
  <2>6. g \in Runs(m)
    BY <2>4, <2>5
  <2> QED
    BY <2>6
<1>3. n \in T
  <2> HIDE DEF T
  <2>1. \A m \in 1..n : m - 1 \in T => m \in T
    BY <1>2
  <2>2. 0..n \subseteq T
    BY <1>1, <2>1, InductionUpTo
  <2> QED
    BY <2>2
<1> QED
  BY <1>3 DEF LoopRuns

\* What a loop computes stays within S.
LEMMA LoopType ==
    ASSUME NEW S, NEW n \in Nat, NEW h \in Bodies(S, n), NEW g,
           g[0] \in S, \A i \in 1..n : g[i-1] \in S => g[i] = h[i][g[i-1]]
    PROVE  \A i \in 0..n : g[i] \in S
<1> DEFINE T == {i \in 0..n : g[i] \in S}
<1>1. 0 \in T
  OBVIOUS
<1>2. ASSUME NEW i \in 1..n, i - 1 \in T PROVE i \in T
  <2>1. g[i-1] \in S
    BY <1>2
  <2>2. h[i][g[i-1]] \in S
    BY <2>1 DEF Bodies
  <2>3. g[i] \in S
    BY <2>1, <2>2
  <2> QED
    BY <2>3
<1>3. 0..n \subseteq T
  <2> HIDE DEF T
  <2> QED
    BY <1>1, <1>2, InductionUpTo
<1> QED
  BY <1>3

-----------------------------------------------------------------------------
(***************************************************************************)
(* Counters that wrap.                                                     *)
(***************************************************************************)

\* A remainder is below its modulus, and what is below it is its own remainder.
LEMMA ModRange ==
    ASSUME NEW M \in Nat \ {0}
    PROVE  /\ \A x \in Nat : x % M \in 0..M-1
           /\ \A x \in 0..M-1 : x % M = x
OBVIOUS

\* Division.
LEMMA ModDivision ==
    ASSUME NEW M \in Nat \ {0}, NEW x \in Nat
    PROVE  \E q \in Nat : x = M * q + (x % M)
<1>1. x = M * (x \div M) + (x % M)
  OBVIOUS
<1>2. x \div M \in Nat
  OBVIOUS
<1> QED
  BY <1>1, <1>2

\* There is one remainder only.
LEMMA ModUnique ==
    ASSUME NEW M \in Nat \ {0}, NEW q \in Nat, NEW r \in 0..M-1
    PROVE  (M * q + r) % M = r
OBVIOUS

\* A sum that wraps on the way is the sum wrapped at the end.
LEMMA ModPlus ==
    ASSUME NEW M \in Nat \ {0}, NEW x \in Nat, NEW y \in Nat
    PROVE  ((x % M) + y) % M = (x + y) % M
<1>1. PICK q \in Nat : x = M * q + (x % M)
  BY ModDivision
<1>2. PICK r \in Nat : r = x % M
  <2>1. x % M \in 0..M-1
    BY ModRange
  <2> QED
    BY <2>1
<1>3. PICK w \in Nat : w = r + y
  OBVIOUS
<1>4. PICK k \in Nat : w = M * k + (w % M)
  BY ModDivision
<1>5. PICK z \in 0..M-1 : z = w % M
  BY ModRange
<1>6. x + y = M * (q + k) + z
  <2>1. M * q + M * k = M * (q + k)
    OBVIOUS
  <2>2. PICK a \in Nat : a = M * q
    OBVIOUS
  <2>3. PICK c \in Nat : c = M * k
    OBVIOUS
  <2>4. x = a + r /\ r + y = c + z
    BY <1>1, <1>2, <1>3, <1>4, <1>5, <2>2, <2>3
  <2>5. x + y = (a + c) + z
    BY <2>4
  <2> QED
    BY <2>1, <2>2, <2>3, <2>5
<1>7. (M * (q + k) + z) % M = z
  BY ModUnique
<1> QED
  BY <1>2, <1>3, <1>5, <1>6, <1>7

-----------------------------------------------------------------------------
(***************************************************************************)
(* What a cell does with the shares it is given.                           *)
(***************************************************************************)
Cells == Cell64 \cup Cell32 \cup Quote

Width(c) == IF c \in Cell64 THEN U64 ELSE U32

Neutral(c) == IF c = "win_ask" THEN ASK_EMPTY ELSE 0

Shares(c) == IF c \in Quote THEN 0..U32-1 ELSE Nat

Combine(c, x, y) ==
    IF c = "win_bid" THEN IF x >= y THEN x ELSE y
    ELSE IF c = "win_ask" THEN IF x <= y THEN x ELSE y
    ELSE x + y

\* What the cell shows of a total.
Shown(c, x) == IF c \in Quote THEN x ELSE Wrapped(c, x)

\* The shares of a cell can be combined in any order.
LEMMA CombineLaws ==
    ASSUME NEW c \in Cells
    PROVE  /\ Neutral(c) \in Shares(c)
           /\ \A x \in Shares(c) : Combine(c, x, Neutral(c)) = x
           /\ \A x, y \in Shares(c) :
                Combine(c, x, y) \in Shares(c) /\ Combine(c, x, y) = Combine(c, y, x)
           /\ \A x, y, z \in Shares(c) :
                Combine(c, Combine(c, x, y), z) = Combine(c, x, Combine(c, y, z))
<1>1. CASE c = "win_bid"
  BY <1>1, WidthsAssumption DEF Neutral, Shares, Combine, Quote
<1>2. CASE c = "win_ask"
  BY <1>2, WidthsAssumption DEF Neutral, Shares, Combine, Quote, ASK_EMPTY
<1>3. CASE c \notin Quote
  <2>1. c # "win_bid" /\ c # "win_ask"
    BY <1>3 DEF Quote
  <2>2. Shares(c) = Nat /\ Neutral(c) = 0
    BY <1>3, <2>1 DEF Neutral, Shares
  <2>3. \A x, y : Combine(c, x, y) = x + y
    BY <2>1 DEF Combine
  <2> QED
    BY <2>2, <2>3
<1> QED
  BY <1>1, <1>2, <1>3 DEF Quote

\* A cell that wraps shows its width's worth of the total.
LEMMA ShownWrapped ==
    ASSUME NEW c \in Cells
    PROVE  /\ Width(c) \in Nat \ {0}
           /\ c \notin Quote => \A x : Shown(c, x) = x % Width(c)
           /\ c \in Quote => Width(c) = U32 /\ \A x : Shown(c, x) = x
BY WidthsAssumption DEF Cells, Width, Shown, Wrapped, Cell64, Cell32, Quote

\* Shown values keep to the width of the cell, and are shares themselves.
LEMMA ShownRange ==
    ASSUME NEW c \in Cells
    PROVE  /\ \A x \in Shares(c) : Shown(c, x) \in 0..Width(c)-1
           /\ \A x \in 0..Width(c)-1 : x \in Shares(c) /\ Shown(c, x) = x
<1>1. CASE c \in Quote
  BY <1>1, ShownWrapped DEF Shares
<1>2. CASE c \notin Quote
  <2>1. Shares(c) = Nat /\ Width(c) \in Nat \ {0}
    BY <1>2, ShownWrapped DEF Shares
  <2>2. /\ \A x \in Nat : x % Width(c) \in 0..Width(c)-1
        /\ \A x \in 0..Width(c)-1 : x % Width(c) = x
    BY <2>1, ModRange
  <2> QED
    BY <1>2, <2>1, <2>2, ShownWrapped
<1> QED
  BY <1>1, <1>2

\* It does not matter whether a total wraps before a share is added or after.
LEMMA ShownCombine ==
    ASSUME NEW c \in Cells, NEW x \in Shares(c), NEW y \in Shares(c)
    PROVE  Shown(c, Combine(c, Shown(c, x), y)) = Shown(c, Combine(c, x, y))
<1>1. CASE c \in Quote
  BY <1>1, ShownWrapped
<1>2. CASE c \notin Quote
  <2>1. \A u, v : Combine(c, u, v) = u + v
    BY <1>2 DEF Combine, Quote
  <2>2. x \in Nat /\ y \in Nat
    BY <1>2 DEF Shares
  <2>3. \A u : Shown(c, u) = u % Width(c)
    BY <1>2, ShownWrapped
  <2>4. ((x % Width(c)) + y) % Width(c) = (x + y) % Width(c)
    BY <2>2, ShownWrapped, ModPlus
  <2> QED
    BY <2>1, <2>3, <2>4
<1> QED
  BY <1>1, <1>2

-----------------------------------------------------------------------------
(***************************************************************************)
(* Totals.                                                                 *)
(***************************************************************************)

\* The totals of the first shares of v, up to the first n.
Totals(c, n, v) ==
    CHOOSE f \in [0..n -> Shares(c)] :
        f[0] = Neutral(c) /\ \A i \in 1..n : f[i] = Combine(c, f[i-1], v[i])

\* There are such totals.
LEMMA TotalsDef ==
    ASSUME NEW c \in Cells, NEW n \in Nat, NEW v \in [1..n -> Shares(c)]
    PROVE  /\ Totals(c, n, v) \in [0..n -> Shares(c)]
           /\ Totals(c, n, v)[0] = Neutral(c)
           /\ \A i \in 1..n : Totals(c, n, v)[i] = Combine(c, Totals(c, n, v)[i-1], v[i])
<1> DEFINE h == [i \in 1..n |-> [x \in Shares(c) |-> Combine(c, x, v[i])]]
<1>1. h \in Bodies(Shares(c), n)
  BY CombineLaws DEF Bodies
<1>2. Neutral(c) \in Shares(c)
  BY CombineLaws
<1>3. PICK f \in [0..n -> Shares(c)] :
        f[0] = Neutral(c) /\ \A i \in 1..n : f[i] = h[i][f[i-1]]
  <2> HIDE DEF h
  <2>1. LoopRuns(Shares(c), Neutral(c), n, h) # {}
    BY <1>1, <1>2, LoopExists
  <2> QED
    BY <2>1 DEF LoopRuns
<1>4. ASSUME NEW i \in 1..n PROVE f[i] = Combine(c, f[i-1], v[i])
  <2>1. f[i-1] \in Shares(c)
    OBVIOUS
  <2> QED
    BY <1>3, <2>1
<1> QED
  BY <1>3, <1>4 DEF Totals

\* A share more at one place is a share more in the total.
LEMMA TotalsUpdate ==
    ASSUME NEW c \in Cells, NEW n \in Nat,
           NEW v \in [1..n -> Shares(c)], NEW w \in [1..n -> Shares(c)],
           NEW j \in 1..n, NEW x \in Shares(c),
           w[j] = Combine(c, v[j], x), \A i \in 1..n : i # j => w[i] = v[i]
    PROVE  Totals(c, n, w)[n] = Combine(c, Totals(c, n, v)[n], x)
<1>1. PICK f \in [0..n -> Shares(c)] : f = Totals(c, n, v)
  BY TotalsDef
<1>2. PICK g \in [0..n -> Shares(c)] : g = Totals(c, n, w)
  BY TotalsDef
<1>3. /\ f[0] = Neutral(c) /\ g[0] = Neutral(c)
      /\ \A i \in 1..n : f[i] = Combine(c, f[i-1], v[i])
      /\ \A i \in 1..n : g[i] = Combine(c, g[i-1], w[i])
  BY <1>1, <1>2, TotalsDef
<1> DEFINE T == {i \in 0..n : IF i < j THEN g[i] = f[i] ELSE g[i] = Combine(c, f[i], x)}
<1>4. 0 \in T
  BY <1>3
<1>5. ASSUME NEW i \in 1..n, i - 1 \in T PROVE i \in T
  <2>1. i - 1 \in 0..n /\ f[i-1] \in Shares(c) /\ v[i] \in Shares(c) /\ f[i] \in Shares(c)
    OBVIOUS
  <2>2. CASE i < j
    <3>1. g[i-1] = f[i-1] /\ w[i] = v[i]
      BY <1>5, <2>1, <2>2
    <3> QED
      BY <1>3, <2>2, <3>1
  <2>3. CASE i = j
    <3>1. g[i-1] = f[i-1]
      BY <1>5, <2>1, <2>3
    <3>2. g[i] = Combine(c, f[i-1], Combine(c, v[i], x))
      BY <1>3, <2>3, <3>1
    <3>3. g[i] = Combine(c, f[i], x)
      BY <1>3, <2>1, <3>2, CombineLaws
    <3> QED
      BY <2>3, <3>3
  <2>4. CASE i > j
    <3>1. g[i-1] = Combine(c, f[i-1], x) /\ w[i] = v[i]
      BY <1>5, <2>1, <2>4
    <3>2. g[i] = Combine(c, Combine(c, f[i-1], x), v[i])
      BY <1>3, <3>1
    <3>3. Combine(c, Combine(c, f[i-1], x), v[i]) = Combine(c, f[i-1], Combine(c, x, v[i]))
      BY <2>1, CombineLaws
    <3>4. Combine(c, x, v[i]) = Combine(c, v[i], x)
      BY <2>1, CombineLaws
    <3>5. Combine(c, f[i-1], Combine(c, v[i], x)) = Combine(c, Combine(c, f[i-1], v[i]), x)
      BY <2>1, CombineLaws
    <3>6. g[i] = Combine(c, f[i], x)
      BY <1>3, <3>2, <3>3, <3>4, <3>5
    <3> QED
      BY <2>4, <3>6
  <2> QED
    BY <2>2, <2>3, <2>4
<1>6. 0..n \subseteq T
  <2> HIDE DEF T
  <2> QED
    BY <1>4, <1>5, InductionUpTo
<1>7. n \in T /\ ~(n < j)
  BY <1>6
<1> QED
  BY <1>1, <1>2, <1>7

\* The total of no shares.
LEMMA TotalsNeutral ==
    ASSUME NEW c \in Cells, NEW n \in Nat, NEW v \in [1..n -> Shares(c)],
           \A i \in 1..n : v[i] = Neutral(c)
    PROVE  Totals(c, n, v)[n] = Neutral(c)
<1>1. PICK f \in [0..n -> Shares(c)] : f = Totals(c, n, v)
  BY TotalsDef
<1>2. f[0] = Neutral(c) /\ \A i \in 1..n : f[i] = Combine(c, f[i-1], v[i])
  BY <1>1, TotalsDef
<1> DEFINE T == {i \in 0..n : f[i] = Neutral(c)}
<1>3. 0 \in T
  BY <1>2
<1>4. ASSUME NEW i \in 1..n, i - 1 \in T PROVE i \in T
  BY <1>2, <1>4, CombineLaws
<1>5. 0..n \subseteq T
  <2> HIDE DEF T
  <2> QED
    BY <1>3, <1>4, InductionUpTo
<1> QED
  BY <1>1, <1>5

-----------------------------------------------------------------------------
(***************************************************************************)
(* The total over the threads of all batches, in the order of the feed.    *)
(***************************************************************************)
BatchTotal(c, v, b) ==
    Totals(c, BatchLen[b], [i \in 1..BatchLen[b] |-> v[<<b, i>>]])[BatchLen[b]]

Total(c, v) ==
    Totals(c, Len(BatchLen), [b \in 1..Len(BatchLen) |-> BatchTotal(c, v, b)])[Len(BatchLen)]

\* The threads, by batch and place.
LEMMA Threads ==
    /\ Len(BatchLen) \in Nat /\ Batch = 1..Len(BatchLen)
    /\ \A b \in Batch : BatchLen[b] \in Nat
    /\ \A t \in Thread : t[1] \in Batch /\ t[2] \in 1..BatchLen[t[1]] /\ t = <<t[1], t[2]>>
    /\ \A b \in Batch : \A i \in 1..BatchLen[b] : <<b, i>> \in Thread
<1>1. /\ Len(BatchLen) \in Nat /\ Batch = 1..Len(BatchLen)
      /\ \A b \in Batch : BatchLen[b] \in Nat
  BY BatchLenAssumption DEF Batch
<1>2. ASSUME NEW t \in Thread
      PROVE  t[1] \in Batch /\ t[2] \in 1..BatchLen[t[1]] /\ t = <<t[1], t[2]>>
  <2>1. PICK b \in Batch : t \in {b} \X (1..BatchLen[b])
    BY DEF Thread
  <2> QED
    BY <2>1
<1>3. ASSUME NEW b \in Batch, NEW i \in 1..BatchLen[b] PROVE <<b, i>> \in Thread
  BY DEF Thread
<1> QED
  BY <1>1, <1>2, <1>3

\* The shares of a batch, and the totals of the batches, are shares.
LEMMA TotalType ==
    ASSUME NEW c \in Cells, NEW v \in [Thread -> Shares(c)]
    PROVE  /\ \A b \in Batch :
                /\ [i \in 1..BatchLen[b] |-> v[<<b, i>>]] \in [1..BatchLen[b] -> Shares(c)]
                /\ BatchTotal(c, v, b) \in Shares(c)
           /\ [b \in 1..Len(BatchLen) |-> BatchTotal(c, v, b)]
                \in [1..Len(BatchLen) -> Shares(c)]
           /\ Total(c, v) \in Shares(c)
<1>1. ASSUME NEW b \in Batch
      PROVE  /\ [i \in 1..BatchLen[b] |-> v[<<b, i>>]] \in [1..BatchLen[b] -> Shares(c)]
             /\ BatchTotal(c, v, b) \in Shares(c)
  <2>1. BatchLen[b] \in Nat /\ \A i \in 1..BatchLen[b] : <<b, i>> \in Thread
    BY Threads
  <2> DEFINE vb == [i \in 1..BatchLen[b] |-> v[<<b, i>>]]
  <2>2. vb \in [1..BatchLen[b] -> Shares(c)]
    BY <2>1
  <2> HIDE DEF vb
  <2>3. Totals(c, BatchLen[b], vb)[BatchLen[b]] \in Shares(c)
    BY <2>1, <2>2, TotalsDef
  <2> QED
    BY <2>2, <2>3 DEF BatchTotal, vb
<1>2. [b \in 1..Len(BatchLen) |-> BatchTotal(c, v, b)] \in [1..Len(BatchLen) -> Shares(c)]
  BY <1>1, Threads
<1>3. Total(c, v) \in Shares(c)
  BY <1>2, Threads, TotalsDef DEF Total
<1> QED
  BY <1>1, <1>2, <1>3

\* A share more of one thread is a share more in the total.
LEMMA TotalUpdate ==
    ASSUME NEW c \in Cells, NEW v \in [Thread -> Shares(c)], NEW w \in [Thread -> Shares(c)],
           NEW t \in Thread, NEW x \in Shares(c),
           w[t] = Combine(c, v[t], x), \A u \in Thread : u # t => w[u] = v[u]
    PROVE  Total(c, w) = Combine(c, Total(c, v), x)
<1>1. PICK j \in Batch : j = t[1]
  BY Threads
<1>2. PICK k \in 1..BatchLen[j] : k = t[2]
  BY <1>1, Threads
<1>3. t = <<j, k>>
  BY <1>1, <1>2, Threads
<1>4. BatchTotal(c, w, j) = Combine(c, BatchTotal(c, v, j), x)
  <2> DEFINE vj == [i \in 1..BatchLen[j] |-> v[<<j, i>>]]
             wj == [i \in 1..BatchLen[j] |-> w[<<j, i>>]]
  <2>1. vj \in [1..BatchLen[j] -> Shares(c)] /\ wj \in [1..BatchLen[j] -> Shares(c)]
    BY TotalType
  <2>2. wj[k] = Combine(c, vj[k], x)
    BY <1>3
  <2>3. ASSUME NEW i \in 1..BatchLen[j], i # k PROVE wj[i] = vj[i]
    <3>1. <<j, i>> \in Thread /\ <<j, i>> # t
      BY <1>3, <2>3, Threads
    <3> QED
      BY <3>1
  <2>4. BatchLen[j] \in Nat
    BY Threads
  <2> HIDE DEF vj, wj
  <2>5. Totals(c, BatchLen[j], wj)[BatchLen[j]] = Combine(c, Totals(c, BatchLen[j], vj)[BatchLen[j]], x)
    BY <2>1, <2>2, <2>3, <2>4, TotalsUpdate
  <2> QED
    BY <2>5 DEF BatchTotal, vj, wj
<1>5. ASSUME NEW b \in Batch, b # j PROVE BatchTotal(c, w, b) = BatchTotal(c, v, b)
  <2>1. ASSUME NEW i \in 1..BatchLen[b] PROVE w[<<b, i>>] = v[<<b, i>>]
    <3>1. <<b, i>> \in Thread /\ <<b, i>> # t
      BY <1>3, <1>5, Threads
    <3> QED
      BY <3>1
  <2>2. [i \in 1..BatchLen[b] |-> w[<<b, i>>]] = [i \in 1..BatchLen[b] |-> v[<<b, i>>]]
    BY <2>1
  <2> QED
    BY <2>2 DEF BatchTotal
<1> DEFINE vs == [b \in 1..Len(BatchLen) |-> BatchTotal(c, v, b)]
           ws == [b \in 1..Len(BatchLen) |-> BatchTotal(c, w, b)]
<1>6. vs \in [1..Len(BatchLen) -> Shares(c)] /\ ws \in [1..Len(BatchLen) -> Shares(c)]
  BY TotalType
<1>7. /\ j \in 1..Len(BatchLen) /\ ws[j] = Combine(c, vs[j], x)
      /\ \A b \in 1..Len(BatchLen) : b # j => ws[b] = vs[b]
  BY <1>4, <1>5, Threads
<1> HIDE DEF vs, ws
<1>8. Totals(c, Len(BatchLen), ws)[Len(BatchLen)]
        = Combine(c, Totals(c, Len(BatchLen), vs)[Len(BatchLen)], x)
  BY <1>6, <1>7, Threads, TotalsUpdate
<1> QED
  BY <1>8 DEF Total, vs, ws

\* The total before any atomic is made.
LEMMA TotalNeutral ==
    ASSUME NEW c \in Cells, NEW v \in [Thread -> Shares(c)],
           \A t \in Thread : v[t] = Neutral(c)
    PROVE  Total(c, v) = Neutral(c)
<1>1. ASSUME NEW b \in Batch PROVE BatchTotal(c, v, b) = Neutral(c)
  <2> DEFINE vb == [i \in 1..BatchLen[b] |-> v[<<b, i>>]]
  <2>1. vb \in [1..BatchLen[b] -> Shares(c)] /\ BatchLen[b] \in Nat
    BY TotalType, Threads
  <2>2. \A i \in 1..BatchLen[b] : vb[i] = Neutral(c)
    BY Threads
  <2> HIDE DEF vb
  <2>3. Totals(c, BatchLen[b], vb)[BatchLen[b]] = Neutral(c)
    BY <2>1, <2>2, TotalsNeutral
  <2> QED
    BY <2>3 DEF BatchTotal, vb
<1> DEFINE vs == [b \in 1..Len(BatchLen) |-> BatchTotal(c, v, b)]
<1>2. vs \in [1..Len(BatchLen) -> Shares(c)]
  BY TotalType
<1>3. \A b \in 1..Len(BatchLen) : vs[b] = Neutral(c)
  BY <1>1, Threads
<1> HIDE DEF vs
<1>4. Totals(c, Len(BatchLen), vs)[Len(BatchLen)] = Neutral(c)
  BY <1>2, <1>3, Threads, TotalsNeutral
<1> QED
  BY <1>4 DEF Total, vs

-----------------------------------------------------------------------------
(***************************************************************************)
(* The share of a message in a cell, and the atomics that bring it there.  *)
(***************************************************************************)
Quotes(d) == d.type \in {"A", "F", "U"}
Trades(d) == d.type \in {"P", "Q"} /\ d.qty # 0

\* Of a decoded message, in a cell of its symbol.
Share(d, c) ==
    IF c = "add_count" /\ Quotes(d) THEN 1
    ELSE IF c = "win_bid" /\ Quotes(d) /\ d.side = "B" THEN d.price
    ELSE IF c = "win_ask" /\ Quotes(d) /\ d.side = "S" THEN d.price
    ELSE IF c = "cancel_shares" /\ d.type = "X" THEN d.qty
    ELSE IF c = "vwap_num" /\ Trades(d) THEN d.price * d.qty
    ELSE IF c = "vwap_den" /\ Trades(d) THEN d.qty
    ELSE IF c = "trade_count" /\ Trades(d) THEN 1
    ELSE IF c = "buy_vol" /\ d.type = "P" /\ d.side = "B" THEN d.qty
    ELSE IF c = "sell_vol" /\ d.type = "P" /\ d.side = "S" THEN d.qty
    ELSE Neutral(c)

OpOf(c) == IF c = "win_bid" THEN "max" ELSE IF c = "win_ask" THEN "min" ELSE "add"

CellsOf(q) == {q[i].cell : i \in 1..Len(q)}

AnAtomic == [cell : Cells, op : {"add", "max", "min"}, val : Nat]

\* q holds atomics of message d, no two of them for one cell.
AtomicsOf(q, d) ==
    /\ q \in Seq(AnAtomic)
    /\ \A i \in 1..Len(q) : q[i].op = OpOf(q[i].cell) /\ q[i].val = Share(d, q[i].cell)
    /\ \A i, j \in 1..Len(q) : q[i].cell = q[j].cell => i = j

\* The decoded messages there are.
DecodedSlot(d) == d.price \in 0..U32-1 /\ d.qty \in Nat /\ d.locate \in Nat

LEMMA DecodedSlots ==
    ASSUME NEW m \in Slots
    PROVE  DecodedSlot(Decoded(m)) /\ Decoded(m).locate = m.locate
BY SlotsAssumption, WidthsAssumption DEF Decoded, DecodedSlot

\* Every share is one a cell can take.
LEMMA ShareType ==
    ASSUME NEW d, DecodedSlot(d), NEW c \in Cells
    PROVE  Share(d, c) \in Shares(c) /\ Share(d, c) \in Nat
<1>1. d.price \in Nat /\ d.qty \in Nat /\ d.price * d.qty \in Nat
  BY DEF DecodedSlot
<1>2. U32 - 1 \in 0..U32-1
  BY WidthsAssumption
<1> QED
  BY <1>1, <1>2 DEF DecodedSlot, Share, Shares, Neutral, ASK_EMPTY, Cells, Cell64, Cell32, Quote

\* The maximum and the minimum of two numbers.
LEMMA MaxMinOfTwo ==
    ASSUME NEW x \in Nat, NEW y \in Nat
    PROVE  /\ Max({x, y}) = IF x >= y THEN x ELSE y
           /\ Min({x, y}) = IF x <= y THEN x ELSE y
<1>1. PICK z \in {x, y} : \A u \in {x, y} : z >= u
  OBVIOUS
<1>2. Max({x, y}) \in {x, y} /\ \A u \in {x, y} : Max({x, y}) >= u
  BY <1>1 DEF Max
<1>3. PICK w \in {x, y} : \A u \in {x, y} : w <= u
  OBVIOUS
<1>4. Min({x, y}) \in {x, y} /\ \A u \in {x, y} : Min({x, y}) <= u
  BY <1>3 DEF Min
<1> QED
  BY <1>2, <1>4

\* An atomic combines its share with what the cell shows.
LEMMA AppliedCombines ==
    ASSUME NEW c \in Cells, NEW x \in 0..Width(c)-1, NEW y \in Shares(c),
           NEW a, a.cell = c, a.op = OpOf(c), a.val = y
    PROVE  Applied(a, x) = Shown(c, Combine(c, x, y))
<1>1. x \in Nat /\ y \in Nat
  BY ShownWrapped, WidthsAssumption DEF Shares
<1>2. CASE c = "win_bid"
  BY <1>1, <1>2, MaxMinOfTwo DEF Applied, OpOf, Combine, Shown, Quote
<1>3. CASE c = "win_ask"
  BY <1>1, <1>3, MaxMinOfTwo DEF Applied, OpOf, Combine, Shown, Quote
<1>4. CASE c \notin Quote
  BY <1>1, <1>4 DEF Applied, OpOf, Combine, Shown, Quote
<1> QED
  BY <1>2, <1>3, <1>4 DEF Quote

\* After its first atomic a thread has the others to make.
LEMMA AtomicsTail ==
    ASSUME NEW d, NEW q, AtomicsOf(q, d), q # <<>>
    PROVE  /\ Head(q).cell \in Cells /\ Head(q).op = OpOf(Head(q).cell)
           /\ Head(q).val = Share(d, Head(q).cell)
           /\ AtomicsOf(Tail(q), d)
           /\ Head(q).cell \in CellsOf(q) /\ Head(q).cell \notin CellsOf(Tail(q))
           /\ \A c : c # Head(q).cell => (c \in CellsOf(q) <=> c \in CellsOf(Tail(q)))
<1>1. q \in Seq(AnAtomic) /\ Len(q) \in Nat \ {0} /\ Head(q) = q[1] /\ q[1] \in AnAtomic
  BY DEF AtomicsOf
<1>2. /\ Tail(q) \in Seq(AnAtomic) /\ Len(Tail(q)) = Len(q) - 1
      /\ \A i \in 1..Len(q)-1 : Tail(q)[i] = q[i+1]
  BY <1>1
<1>3. 1 \in 1..Len(q) /\ \A i \in 1..Len(q)-1 : i + 1 \in 1..Len(q) /\ i + 1 # 1
  BY <1>1
<1>4. q[1].cell \in Cells /\ q[1].op = OpOf(q[1].cell) /\ q[1].val = Share(d, q[1].cell)
  BY <1>1, <1>3 DEF AtomicsOf, AnAtomic
<1>5. AtomicsOf(Tail(q), d)
  <2>1. \A i \in 1..Len(Tail(q)) :
          Tail(q)[i].op = OpOf(Tail(q)[i].cell) /\ Tail(q)[i].val = Share(d, Tail(q)[i].cell)
    BY <1>2, <1>3 DEF AtomicsOf
  <2>2. ASSUME NEW i \in 1..Len(Tail(q)), NEW j \in 1..Len(Tail(q)),
               Tail(q)[i].cell = Tail(q)[j].cell
        PROVE  i = j
    <3>1. i \in 1..Len(q)-1 /\ j \in 1..Len(q)-1
      BY <1>2
    <3>2. q[i+1].cell = q[j+1].cell
      BY <1>2, <2>2, <3>1
    <3>3. i + 1 = j + 1
      BY <1>3, <3>1, <3>2 DEF AtomicsOf
    <3> QED
      BY <3>1, <3>3
  <2> QED
    BY <1>2, <2>1, <2>2 DEF AtomicsOf
<1>6. q[1].cell \in CellsOf(q)
  BY <1>3 DEF CellsOf
<1>7. q[1].cell \notin CellsOf(Tail(q))
  <2> SUFFICES ASSUME NEW i \in 1..Len(q)-1, q[i+1].cell = q[1].cell PROVE FALSE
    BY <1>2 DEF CellsOf
  <2> QED
    BY <1>3 DEF AtomicsOf
<1>8. ASSUME NEW c, c # q[1].cell PROVE c \in CellsOf(q) <=> c \in CellsOf(Tail(q))
  <2>1. ASSUME NEW i \in 1..Len(q), q[i].cell = c PROVE c \in CellsOf(Tail(q))
    <3>1. i - 1 \in 1..Len(q)-1 /\ (i - 1) + 1 = i
      BY <1>1, <1>8, <2>1
    <3>2. Tail(q)[i-1].cell = c
      BY <1>2, <2>1, <3>1
    <3> QED
      BY <1>2, <3>1, <3>2 DEF CellsOf
  <2>2. ASSUME NEW i \in 1..Len(Tail(q)), Tail(q)[i].cell = c PROVE c \in CellsOf(q)
    <3>1. i + 1 \in 1..Len(q) /\ q[i+1].cell = c
      BY <1>2, <1>3, <2>2
    <3> QED
      BY <3>1 DEF CellsOf
  <2> QED
    BY <2>1, <2>2 DEF CellsOf
<1> QED
  BY <1>1, <1>4, <1>5, <1>6, <1>7, <1>8

\* Short sequences put together.
LEMMA TwoJoined ==
    ASSUME NEW S, NEW a \in S, NEW b \in S
    PROVE  <<a>> \o <<b>> = <<a, b>>
<1>1. <<a>> \in Seq(S) /\ <<b>> \in Seq(S) /\ <<a, b>> \in Seq(S) /\ Len(<<a, b>>) = 2
  OBVIOUS
<1>2. Len(<<a>> \o <<b>>) = 2 /\ <<a>> \o <<b>> \in Seq(S)
  BY <1>1
<1>3. \A i \in 1..2 : (<<a>> \o <<b>>)[i] = <<a, b>>[i]
  BY <1>1
<1> QED
  BY <1>1, <1>2, <1>3, SeqEqual

LEMMA FourJoined ==
    ASSUME NEW S, NEW a \in S, NEW b \in S, NEW c \in S, NEW d \in S
    PROVE  <<a, b, c>> \o <<d>> = <<a, b, c, d>>
<1>1. /\ <<a, b, c>> \in Seq(S) /\ <<d>> \in Seq(S)
      /\ <<a, b, c, d>> \in Seq(S) /\ Len(<<a, b, c, d>>) = 4
  OBVIOUS
<1>2. Len(<<a, b, c>> \o <<d>>) = 4 /\ <<a, b, c>> \o <<d>> \in Seq(S)
  BY <1>1
<1>3. \A i \in 1..4 : (<<a, b, c>> \o <<d>>)[i] = <<a, b, c, d>>[i]
  BY <1>1
<1> QED
  BY <1>1, <1>2, <1>3, SeqEqual

LEMMA NothingJoined ==
    ASSUME NEW S, NEW q \in Seq(S)
    PROVE  q \o <<>> = q
<1>1. q \o <<>> \in Seq(S) /\ Len(q \o <<>>) = Len(q)
  OBVIOUS
<1>2. \A i \in 1..Len(q) : (q \o <<>>)[i] = q[i]
  OBVIOUS
<1> QED
  BY <1>1, <1>2, SeqEqual

\* q holds an atomic of d for each cell in which d has a share, and no other.
Covers(q, d) ==
    AtomicsOf(q, d) /\ \A c \in Cells : c \notin CellsOf(q) => Share(d, c) = Neutral(c)

\* The atomics of an add or a replace.
LEMMA QuoteCovers ==
    ASSUME NEW d, DecodedSlot(d), Quotes(d)
    PROVE  Covers(<<Atomic("add_count", "add", 1)>> \o QuoteAtomics(d), d)
<1>1. PICK add : add = Atomic("add_count", "add", 1)
  OBVIOUS
<1>2. PICK bid : bid = Atomic("win_bid", "max", d.price)
  OBVIOUS
<1>3. PICK ask : ask = Atomic("win_ask", "min", d.price)
  OBVIOUS
<1>4. add \in AnAtomic /\ bid \in AnAtomic /\ ask \in AnAtomic
  BY <1>1, <1>2, <1>3 DEF DecodedSlot, Atomic, AnAtomic, Cells, Cell32, Quote
<1>5. CASE d.side = "B"
  <2>1. <<add>> \o QuoteAtomics(d) = <<add, bid>>
    BY <1>2, <1>4, <1>5, TwoJoined DEF QuoteAtomics
  <2>2. Covers(<<add, bid>>, d)
    BY <1>1, <1>2, <1>4, <1>5
    DEF Covers, Atomic, AtomicsOf, CellsOf, OpOf, Share, Quotes, Trades, Cells, Cell32, Cell64, Quote
  <2> QED
    BY <1>1, <2>1, <2>2
<1>6. CASE d.side = "S"
  <2>1. <<add>> \o QuoteAtomics(d) = <<add, ask>>
    BY <1>3, <1>4, <1>6, TwoJoined DEF QuoteAtomics
  <2>2. Covers(<<add, ask>>, d)
    BY <1>1, <1>3, <1>4, <1>6
    DEF Covers, Atomic, AtomicsOf, CellsOf, OpOf, Share, Quotes, Trades, Cells, Cell32, Cell64, Quote
  <2> QED
    BY <1>1, <2>1, <2>2
<1>7. CASE d.side \notin {"B", "S"}
  <2>1. <<add>> \o QuoteAtomics(d) = <<add>>
    <3>1. QuoteAtomics(d) = <<>>
      BY <1>7 DEF QuoteAtomics
    <3>2. <<add>> \in Seq(AnAtomic)
      BY <1>4
    <3> QED
      BY <3>1, <3>2, NothingJoined
  <2>2. Covers(<<add>>, d)
    BY <1>1, <1>4, <1>7
    DEF Covers, Atomic, AtomicsOf, CellsOf, OpOf, Share, Quotes, Trades, Cells, Cell32, Cell64, Quote
  <2> QED
    BY <1>1, <2>1, <2>2
<1> QED
  BY <1>5, <1>6, <1>7

\* The atomics of a trade, and of a cross.
LEMMA TradeCovers ==
    ASSUME NEW d, DecodedSlot(d), Trades(d)
    PROVE  /\ d.type = "P" => Covers(TradeAtomics(d) \o VolumeAtomics(d), d)
           /\ d.type = "Q" => Covers(TradeAtomics(d), d)
<1>1. PICK num : num = Atomic("vwap_num", "add", d.price * d.qty)
  OBVIOUS
<1>2. PICK den : den = Atomic("vwap_den", "add", d.qty)
  OBVIOUS
<1>3. PICK one : one = Atomic("trade_count", "add", 1)
  OBVIOUS
<1>4. PICK buy : buy = Atomic("buy_vol", "add", d.qty)
  OBVIOUS
<1>5. PICK sell : sell = Atomic("sell_vol", "add", d.qty)
  OBVIOUS
<1>6. d.price * d.qty \in Nat /\ d.qty \in Nat
  BY DEF DecodedSlot
<1>7. num \in AnAtomic /\ den \in AnAtomic /\ one \in AnAtomic /\ buy \in AnAtomic /\ sell \in AnAtomic
  BY <1>1, <1>2, <1>3, <1>4, <1>5, <1>6 DEF Atomic, AnAtomic, Cells, Cell32, Cell64
<1>8. TradeAtomics(d) = <<num, den, one>>
  BY <1>1, <1>2, <1>3 DEF TradeAtomics
<1>9. /\ num.cell = "vwap_num" /\ num.op = "add" /\ num.val = d.price * d.qty
      /\ den.cell = "vwap_den" /\ den.op = "add" /\ den.val = d.qty
      /\ one.cell = "trade_count" /\ one.op = "add" /\ one.val = 1
      /\ buy.cell = "buy_vol" /\ buy.op = "add" /\ buy.val = d.qty
      /\ sell.cell = "sell_vol" /\ sell.op = "add" /\ sell.val = d.qty
  BY <1>1, <1>2, <1>3, <1>4, <1>5 DEF Atomic
<1>10. CASE d.type = "P" /\ d.side = "B"
  <2>1. TradeAtomics(d) \o VolumeAtomics(d) = <<num, den, one, buy>>
    BY <1>4, <1>7, <1>8, <1>10, FourJoined DEF VolumeAtomics
  <2>2. Covers(<<num, den, one, buy>>, d)
    BY <1>7, <1>9, <1>10
    DEF Covers, AtomicsOf, CellsOf, OpOf, Share, Quotes, Trades, Cells, Cell32, Cell64, Quote
  <2> QED
    BY <1>10, <2>1, <2>2
<1>11. CASE d.type = "P" /\ d.side = "S"
  <2>1. TradeAtomics(d) \o VolumeAtomics(d) = <<num, den, one, sell>>
    BY <1>5, <1>7, <1>8, <1>11, FourJoined DEF VolumeAtomics
  <2>2. Covers(<<num, den, one, sell>>, d)
    BY <1>7, <1>9, <1>11
    DEF Covers, AtomicsOf, CellsOf, OpOf, Share, Quotes, Trades, Cells, Cell32, Cell64, Quote
  <2> QED
    BY <1>11, <2>1, <2>2
<1>12. CASE d.type = "Q" \/ (d.type = "P" /\ d.side \notin {"B", "S"})
  <2>1. d.type = "P" => TradeAtomics(d) \o VolumeAtomics(d) = <<num, den, one>>
    <3>1. d.type = "P" => VolumeAtomics(d) = <<>>
      BY <1>12 DEF VolumeAtomics
    <3>2. <<num, den, one>> \in Seq(AnAtomic)
      BY <1>7
    <3> QED
      BY <1>8, <3>1, <3>2, NothingJoined
  <2>2. Covers(<<num, den, one>>, d)
    BY <1>7, <1>9, <1>12
    DEF Covers, AtomicsOf, CellsOf, OpOf, Share, Quotes, Trades, Cells, Cell32, Cell64, Quote
  <2> QED
    BY <1>8, <2>1, <2>2
<1> QED
  BY <1>10, <1>11, <1>12 DEF Trades

\* What aggregate_kernel makes of a decoded message.
LEMMA AtomicsOfMessage ==
    ASSUME NEW d, DecodedSlot(d), d.locate < MAX_SYMBOLS
    PROVE  Covers(Atomics(d), d)
<1>1. ~(d.locate >= MAX_SYMBOLS)
  BY SymbolsAssumption DEF DecodedSlot
<1>2. CASE Quotes(d)
  <2>1. Atomics(d) = <<Atomic("add_count", "add", 1)>> \o QuoteAtomics(d)
    BY <1>1, <1>2 DEF Atomics, Quotes
  <2> QED
    BY <1>2, <2>1, QuoteCovers
<1>3. CASE d.type = "X"
  <2>1. Atomics(d) = <<Atomic("cancel_shares", "add", d.qty)>>
    BY <1>1, <1>3 DEF Atomics
  <2>2. PICK cancel : cancel = Atomic("cancel_shares", "add", d.qty)
    OBVIOUS
  <2>3. cancel \in AnAtomic
    BY <2>2 DEF DecodedSlot, Atomic, AnAtomic, Cells, Cell64
  <2>4. Covers(<<cancel>>, d)
    BY <1>3, <2>2, <2>3
    DEF Covers, Atomic, AtomicsOf, CellsOf, OpOf, Share, Quotes, Trades, Cells, Cell32, Cell64, Quote
  <2> QED
    BY <2>1, <2>2, <2>4
<1>4. CASE Trades(d)
  <2>1. CASE d.type = "P"
    <3>1. Atomics(d) = TradeAtomics(d) \o VolumeAtomics(d)
      BY <1>1, <1>4, <2>1 DEF Atomics, Trades
    <3> QED
      BY <1>4, <2>1, <3>1, TradeCovers
  <2>2. CASE d.type = "Q"
    <3>1. Atomics(d) = TradeAtomics(d)
      BY <1>1, <1>4, <2>2 DEF Atomics, Trades
    <3> QED
      BY <1>4, <2>2, <3>1, TradeCovers
  <2> QED
    BY <1>4, <2>1, <2>2 DEF Trades
<1>5. CASE ~Quotes(d) /\ ~Trades(d) /\ d.type # "X"
  <2>1. Atomics(d) = <<>>
    BY <1>1, <1>5 DEF Atomics, Quotes, Trades
  <2>2. \A c \in Cells : Share(d, c) = Neutral(c)
    BY <1>5 DEF Share, Quotes, Trades, Neutral
  <2>3. Covers(<<>>, d)
    BY <2>2 DEF Covers, AtomicsOf, CellsOf
  <2> QED
    BY <2>1, <2>3
<1> QED
  BY <1>2, <1>3, <1>4, <1>5

-----------------------------------------------------------------------------
(***************************************************************************)
(* What cpu_aggregate makes of a message.                                  *)
(***************************************************************************)
SymbolSet == {f \in [Cells -> Nat] : \A c \in Cells : f[c] \in 0..Width(c)-1}
AccumSet  == [Symbol -> SymbolSet]

\* A cell given the neutral share is left as it is.
LEMMA NeutralShown ==
    ASSUME NEW c \in Cells, NEW x \in 0..Width(c)-1
    PROVE  Shown(c, Combine(c, x, Neutral(c))) = x
<1>1. x \in Shares(c) /\ Shown(c, x) = x
  BY ShownRange
<1> QED
  BY <1>1, CombineLaws

\* A share given to a cell leaves it within its width.
LEMMA ShownType ==
    ASSUME NEW c \in Cells, NEW x \in 0..Width(c)-1, NEW y \in Shares(c)
    PROVE  Shown(c, Combine(c, x, y)) \in 0..Width(c)-1
<1>1. x \in Shares(c)
  BY ShownRange
<1>2. Combine(c, x, y) \in Shares(c)
  BY <1>1, CombineLaws
<1> QED
  BY <1>2, ShownRange

\* A symbol with another value in one cell.
LEMMA CellReplaced ==
    ASSUME NEW sym \in SymbolSet, NEW c \in Cells, NEW x \in 0..Width(c)-1
    PROVE  [sym EXCEPT ![c] = x] \in SymbolSet
<1>1. x \in Nat
  BY ShownWrapped
<1>2. [sym EXCEPT ![c] = x] \in [Cells -> Nat]
  BY <1>1 DEF SymbolSet
<1>3. \A e \in Cells : [sym EXCEPT ![c] = x][e] \in 0..Width(e)-1
  BY DEF SymbolSet
<1> QED
  BY <1>2, <1>3 DEF SymbolSet

\* The addition to a counter.
LEMMA PlusShown ==
    ASSUME NEW sym \in SymbolSet, NEW c \in Cells \ Quote, NEW v \in Nat
    PROVE  /\ Plus(sym, c, v) \in SymbolSet
           /\ Plus(sym, c, v)[c] = Shown(c, Combine(c, sym[c], v))
           /\ \A e \in Cells : e # c => Plus(sym, c, v)[e] = sym[e]
<1>1. /\ sym \in [Cells -> Nat] /\ sym[c] \in 0..Width(c)-1
  BY DEF SymbolSet
<1>2. PICK x : x = Shown(c, Combine(c, sym[c], v))
  OBVIOUS
<1>3. Plus(sym, c, v) = [sym EXCEPT ![c] = x]
  BY <1>2 DEF Plus, Shown, Combine, Quote
<1>4. x \in 0..Width(c)-1
  BY <1>1, <1>2, ShownType DEF Shares
<1> QED
  BY <1>1, <1>2, <1>3, <1>4, CellReplaced

\* The update of the best quotes.
LEMMA QuotedShown ==
    ASSUME NEW sym \in SymbolSet, NEW side, NEW price \in 0..U32-1
    PROVE  /\ Quoted(sym, side, price) \in SymbolSet
           /\ side = "B" => Quoted(sym, side, price)["win_bid"]
                              = Shown("win_bid", Combine("win_bid", sym["win_bid"], price))
           /\ side = "S" => Quoted(sym, side, price)["win_ask"]
                              = Shown("win_ask", Combine("win_ask", sym["win_ask"], price))
           /\ \A e \in Cells :
                ~(side = "B" /\ e = "win_bid") /\ ~(side = "S" /\ e = "win_ask")
                  => Quoted(sym, side, price)[e] = sym[e]
<1>1. /\ "win_bid" \in Cells /\ Width("win_bid") = U32
      /\ "win_ask" \in Cells /\ Width("win_ask") = U32
  BY DEF Cells, Cell64, Quote, Width
<1>2. sym \in [Cells -> Nat] /\ price \in Nat /\ sym["win_bid"] \in Nat /\ sym["win_ask"] \in Nat
  BY <1>1, WidthsAssumption DEF SymbolSet
<1>3. /\ [sym EXCEPT !["win_bid"] = price] \in SymbolSet
      /\ [sym EXCEPT !["win_ask"] = price] \in SymbolSet
  BY <1>1, CellReplaced
<1>4. CASE side = "B"
  <2>1. CASE price > sym["win_bid"]
    <3>1. Quoted(sym, side, price) = [sym EXCEPT !["win_bid"] = price]
      BY <1>4, <2>1 DEF Quoted
    <3>2. /\ Quoted(sym, side, price)["win_bid"] = price
          /\ \A e \in Cells : e # "win_bid" => Quoted(sym, side, price)[e] = sym[e]
      BY <1>1, <1>2, <3>1
    <3>3. Combine("win_bid", sym["win_bid"], price) = price
      BY <1>2, <2>1 DEF Combine
    <3>4. \A y : Shown("win_bid", y) = y
      BY DEF Shown, Quote
    <3>5. Quoted(sym, side, price) \in SymbolSet
      BY <1>3, <3>1
    <3> QED
      BY <1>4, <3>2, <3>3, <3>4, <3>5
  <2>2. CASE ~(price > sym["win_bid"])
    <3>1. Quoted(sym, side, price) = sym
      BY <1>4, <2>2 DEF Quoted
    <3> QED
      BY <1>1, <1>2, <1>4, <2>2, <3>1 DEF Shown, Combine, Quote
  <2> QED
    BY <2>1, <2>2
<1>5. CASE side = "S"
  <2>1. CASE price < sym["win_ask"]
    <3>1. Quoted(sym, side, price) = [sym EXCEPT !["win_ask"] = price]
      BY <1>5, <2>1 DEF Quoted
    <3>2. /\ Quoted(sym, side, price)["win_ask"] = price
          /\ \A e \in Cells : e # "win_ask" => Quoted(sym, side, price)[e] = sym[e]
      BY <1>1, <1>2, <3>1
    <3>3. Combine("win_ask", sym["win_ask"], price) = price
      BY <1>2, <2>1 DEF Combine
    <3>4. \A y : Shown("win_ask", y) = y
      BY DEF Shown, Quote
    <3>5. Quoted(sym, side, price) \in SymbolSet
      BY <1>3, <3>1
    <3> QED
      BY <1>5, <3>2, <3>3, <3>4, <3>5
  <2>2. CASE ~(price < sym["win_ask"])
    <3>1. Quoted(sym, side, price) = sym
      BY <1>5, <2>2 DEF Quoted
    <3> QED
      BY <1>1, <1>2, <1>5, <2>2, <3>1 DEF Shown, Combine, Quote
  <2> QED
    BY <2>1, <2>2
<1>6. CASE side \notin {"B", "S"}
  <2>1. Quoted(sym, side, price) = sym
    BY <1>6 DEF Quoted
  <2> QED
    BY <1>6, <2>1
<1> QED
  BY <1>4, <1>5, <1>6

\* The counters of a trade.
LEMMA TradedShown ==
    ASSUME NEW sym \in SymbolSet, NEW m, m.price * m.qty \in Nat, m.qty \in Nat
    PROVE  /\ Traded(sym, m) \in SymbolSet
           /\ Traded(sym, m)["vwap_num"]
                = Shown("vwap_num", Combine("vwap_num", sym["vwap_num"], m.price * m.qty))
           /\ Traded(sym, m)["vwap_den"]
                = Shown("vwap_den", Combine("vwap_den", sym["vwap_den"], m.qty))
           /\ Traded(sym, m)["trade_count"]
                = Shown("trade_count", Combine("trade_count", sym["trade_count"], 1))
           /\ \A c \in Cells \ {"vwap_num", "vwap_den", "trade_count"} :
                Traded(sym, m)[c] = sym[c]
<1>1. "vwap_num" \in Cells \ Quote /\ "vwap_den" \in Cells \ Quote /\ "trade_count" \in Cells \ Quote
  BY DEF Cells, Cell64, Cell32, Quote
<1> DEFINE product == m.price * m.qty
<1>a. product \in Nat
  OBVIOUS
<1> HIDE DEF product
<1>2. PICK one \in SymbolSet :
        /\ one = Plus(sym, "vwap_num", product)
        /\ one["vwap_num"] = Shown("vwap_num", Combine("vwap_num", sym["vwap_num"], product))
        /\ \A c \in Cells : c # "vwap_num" => one[c] = sym[c]
  <2>1. /\ Plus(sym, "vwap_num", product) \in SymbolSet
        /\ Plus(sym, "vwap_num", product)["vwap_num"]
             = Shown("vwap_num", Combine("vwap_num", sym["vwap_num"], product))
        /\ \A c \in Cells : c # "vwap_num" => Plus(sym, "vwap_num", product)[c] = sym[c]
    BY <1>1, <1>a, PlusShown
  <2> QED
    BY <2>1
<1>3. PICK two \in SymbolSet :
        /\ two = Plus(one, "vwap_den", m.qty)
        /\ two["vwap_den"] = Shown("vwap_den", Combine("vwap_den", one["vwap_den"], m.qty))
        /\ \A c \in Cells : c # "vwap_den" => two[c] = one[c]
  <2>1. /\ Plus(one, "vwap_den", m.qty) \in SymbolSet
        /\ Plus(one, "vwap_den", m.qty)["vwap_den"]
             = Shown("vwap_den", Combine("vwap_den", one["vwap_den"], m.qty))
        /\ \A c \in Cells : c # "vwap_den" => Plus(one, "vwap_den", m.qty)[c] = one[c]
    BY <1>1, PlusShown
  <2> QED
    BY <2>1
<1>u. PICK unit \in Nat : unit = 1
  OBVIOUS
<1>4. PICK three \in SymbolSet :
        /\ three = Plus(two, "trade_count", unit)
        /\ three["trade_count"] = Shown("trade_count", Combine("trade_count", two["trade_count"], unit))
        /\ \A c \in Cells : c # "trade_count" => three[c] = two[c]
  <2>1. /\ Plus(two, "trade_count", unit) \in SymbolSet
        /\ Plus(two, "trade_count", unit)["trade_count"]
             = Shown("trade_count", Combine("trade_count", two["trade_count"], unit))
        /\ \A c \in Cells : c # "trade_count" => Plus(two, "trade_count", unit)[c] = two[c]
    BY <1>1, PlusShown
  <2> QED
    BY <2>1
<1>5. Traded(sym, m) = three
  BY <1>u, <1>2, <1>3, <1>4 DEF Traded, product
<1> QED
  BY <1>1, <1>u, <1>2, <1>3, <1>4, <1>5 DEF product

\* The volume of a trade.
LEMMA VolumedShown ==
    ASSUME NEW sym \in SymbolSet, NEW m, m.qty \in Nat
    PROVE  /\ Volumed(sym, m) \in SymbolSet
           /\ m.side = "B" => Volumed(sym, m)["buy_vol"]
                                = Shown("buy_vol", Combine("buy_vol", sym["buy_vol"], m.qty))
           /\ m.side = "S" => Volumed(sym, m)["sell_vol"]
                                = Shown("sell_vol", Combine("sell_vol", sym["sell_vol"], m.qty))
           /\ \A c \in Cells :
                ~(m.side = "B" /\ c = "buy_vol") /\ ~(m.side = "S" /\ c = "sell_vol")
                  => Volumed(sym, m)[c] = sym[c]
<1>1. "buy_vol" \in Cells \ Quote /\ "sell_vol" \in Cells \ Quote
  BY DEF Cells, Cell64, Quote
<1>2. CASE m.side = "B"
  <2>1. Volumed(sym, m) = Plus(sym, "buy_vol", m.qty)
    BY <1>2 DEF Volumed
  <2> QED
    BY <1>1, <1>2, <2>1, PlusShown
<1>3. CASE m.side = "S"
  <2>1. Volumed(sym, m) = Plus(sym, "sell_vol", m.qty)
    BY <1>3 DEF Volumed
  <2> QED
    BY <1>1, <1>3, <2>1, PlusShown
<1>4. CASE m.side \notin {"B", "S"}
  <2>1. Volumed(sym, m) = sym
    BY <1>4 DEF Volumed
  <2> QED
    BY <1>4, <2>1
<1> QED
  BY <1>2, <1>3, <1>4

\* A message gives each cell of its symbol its share.
Given(sym, new, d) ==
    /\ new \in SymbolSet
    /\ \A c \in Cells : new[c] = Shown(c, Combine(c, sym[c], Share(d, c)))

\* The cells in which a message has a share; the others are left as they are.
LEMMA GivenByCells ==
    ASSUME NEW sym \in SymbolSet, NEW new \in SymbolSet, NEW d,
           \A c \in Cells : \/ new[c] = Shown(c, Combine(c, sym[c], Share(d, c)))
                            \/ new[c] = sym[c] /\ Share(d, c) = Neutral(c)
    PROVE  Given(sym, new, d)
<1>1. \A c \in Cells : sym[c] \in 0..Width(c)-1
  BY DEF SymbolSet
<1>2. \A c \in Cells : Shown(c, Combine(c, sym[c], Neutral(c))) = sym[c]
  BY <1>1, NeutralShown
<1> QED
  BY <1>2 DEF Given

LEMMA CpuSymbolGiven ==
    ASSUME NEW m \in Slots, NEW sym \in SymbolSet
    PROVE  Given(sym, CpuSymbol(sym, m), Decoded(m))
<1>1. PICK d : d = Decoded(m)
  OBVIOUS
<1>2. /\ d.type = m.type
      /\ m.type \in {"A", "F"} => d.side = m.side /\ d.price = m.price
      /\ m.type = "U" => d.side = m.tag /\ d.price = m.price
      /\ m.type = "X" => d.qty = m.qty
      /\ m.type = "P" => d.side = m.side /\ d.price = m.price /\ d.qty = m.qty
      /\ m.type = "Q" => d.side = "0" /\ d.price = m.price /\ d.qty = m.qty
  BY <1>1 DEF Decoded
<1>3. m.price \in 0..U32-1 /\ m.qty \in Nat /\ m.price * m.qty \in Nat
  <2>1. m.price \in 0..U32-1 /\ m.price \in Nat /\ m.qty \in Nat
    BY SlotsAssumption
  <2> QED
    BY <2>1
<1>4. "add_count" \in Cells \ Quote /\ "cancel_shares" \in Cells \ Quote
  BY DEF Cells, Cell32, Cell64, Quote
<1>5. CASE Quotes(d)
  <2>1. CpuSymbol(sym, m) = Quoted(Plus(sym, "add_count", 1), d.side, d.price)
    BY <1>2, <1>5 DEF CpuSymbol, Quotes
  <2>2. PICK one \in SymbolSet : one = Plus(sym, "add_count", 1)
    BY <1>4, PlusShown
  <2>3. d.price \in 0..U32-1
    BY <1>2, <1>3, <1>5 DEF Quotes
  <2>4. PICK two \in SymbolSet : two = Quoted(one, d.side, d.price)
    BY <2>3, QuotedShown
  <2>5. /\ one["add_count"] = Shown("add_count", Combine("add_count", sym["add_count"], 1))
        /\ \A c \in Cells : c # "add_count" => one[c] = sym[c]
    BY <1>4, <2>2, PlusShown
  <2>6. /\ d.side = "B" => two["win_bid"] = Shown("win_bid", Combine("win_bid", one["win_bid"], d.price))
        /\ d.side = "S" => two["win_ask"] = Shown("win_ask", Combine("win_ask", one["win_ask"], d.price))
        /\ \A c \in Cells :
             ~(d.side = "B" /\ c = "win_bid") /\ ~(d.side = "S" /\ c = "win_ask")
               => two[c] = one[c]
    BY <2>3, <2>4, QuotedShown
  <2>7. /\ Share(d, "add_count") = 1
        /\ d.side = "B" => Share(d, "win_bid") = d.price
        /\ d.side = "S" => Share(d, "win_ask") = d.price
        /\ \A c \in Cells :
             c # "add_count" /\ ~(d.side = "B" /\ c = "win_bid") /\ ~(d.side = "S" /\ c = "win_ask")
               => Share(d, c) = Neutral(c)
    BY <1>5 DEF Share, Quotes, Trades
  <2>8. ASSUME NEW c \in Cells
        PROVE  \/ two[c] = Shown(c, Combine(c, sym[c], Share(d, c)))
               \/ two[c] = sym[c] /\ Share(d, c) = Neutral(c)
    <3>1. "win_bid" \in Cells /\ "win_ask" \in Cells /\ "add_count" \in Cells
      BY <1>4 DEF Cells, Quote
    <3> QED
      BY <2>5, <2>6, <2>7, <3>1
  <2>9. Given(sym, two, d)
    BY <2>8, GivenByCells
  <2> QED
    BY <1>1, <2>1, <2>2, <2>4, <2>9
<1>6. CASE d.type = "X"
  <2>1. CpuSymbol(sym, m) = Plus(sym, "cancel_shares", d.qty)
    BY <1>2, <1>6 DEF CpuSymbol
  <2>2. d.qty \in Nat
    BY <1>2, <1>3, <1>6
  <2>3. /\ Plus(sym, "cancel_shares", d.qty) \in SymbolSet
        /\ Plus(sym, "cancel_shares", d.qty)["cancel_shares"]
             = Shown("cancel_shares", Combine("cancel_shares", sym["cancel_shares"], d.qty))
        /\ \A c \in Cells : c # "cancel_shares" => Plus(sym, "cancel_shares", d.qty)[c] = sym[c]
    BY <1>4, <2>2, PlusShown
  <2>4. /\ Share(d, "cancel_shares") = d.qty
        /\ \A c \in Cells : c # "cancel_shares" => Share(d, c) = Neutral(c)
    BY <1>6 DEF Share, Quotes, Trades
  <2>5. PICK new \in SymbolSet : new = Plus(sym, "cancel_shares", d.qty)
    BY <2>3
  <2>6. \A c \in Cells : \/ new[c] = Shown(c, Combine(c, sym[c], Share(d, c)))
                         \/ new[c] = sym[c] /\ Share(d, c) = Neutral(c)
    BY <2>3, <2>4, <2>5
  <2>7. Given(sym, new, d)
    BY <2>6, GivenByCells
  <2> QED
    BY <1>1, <2>1, <2>5, <2>7
<1>7. CASE Trades(d)
  <2>1. d.price = m.price /\ d.qty = m.qty /\ d.price * d.qty = m.price * m.qty
    BY <1>2, <1>7 DEF Trades
  <2>2. PICK one \in SymbolSet : one = Traded(sym, m)
    BY <1>3, TradedShown
  <2>3. /\ one["vwap_num"] = Shown("vwap_num", Combine("vwap_num", sym["vwap_num"], d.price * d.qty))
        /\ one["vwap_den"] = Shown("vwap_den", Combine("vwap_den", sym["vwap_den"], d.qty))
        /\ one["trade_count"] = Shown("trade_count", Combine("trade_count", sym["trade_count"], 1))
        /\ \A c \in Cells \ {"vwap_num", "vwap_den", "trade_count"} : one[c] = sym[c]
    BY <1>3, <2>1, <2>2, TradedShown
  <2>4. /\ Share(d, "vwap_num") = d.price * d.qty
        /\ Share(d, "vwap_den") = d.qty
        /\ Share(d, "trade_count") = 1
        /\ d.type = "P" /\ d.side = "B" => Share(d, "buy_vol") = d.qty
        /\ d.type = "P" /\ d.side = "S" => Share(d, "sell_vol") = d.qty
        /\ \A c \in Cells \ {"vwap_num", "vwap_den", "trade_count"} :
             ~(d.type = "P" /\ d.side = "B" /\ c = "buy_vol")
               /\ ~(d.type = "P" /\ d.side = "S" /\ c = "sell_vol")
               => Share(d, c) = Neutral(c)
    BY <1>7 DEF Share, Quotes, Trades
  <2>5. CASE d.type = "P"
    <3>1. CpuSymbol(sym, m) = Volumed(one, m)
      BY <1>2, <1>7, <2>1, <2>2, <2>5 DEF CpuSymbol, Trades
    <3>2. PICK two \in SymbolSet : two = Volumed(one, m)
      BY <1>3, VolumedShown
    <3>3. d.side = m.side
      BY <1>2, <2>5
    <3>4. /\ d.side = "B" => two["buy_vol"] = Shown("buy_vol", Combine("buy_vol", one["buy_vol"], d.qty))
          /\ d.side = "S" => two["sell_vol"] = Shown("sell_vol", Combine("sell_vol", one["sell_vol"], d.qty))
          /\ \A c \in Cells :
               ~(d.side = "B" /\ c = "buy_vol") /\ ~(d.side = "S" /\ c = "sell_vol")
                 => two[c] = one[c]
      BY <1>3, <2>1, <3>2, <3>3, VolumedShown
    <3>5. {"vwap_num", "vwap_den", "trade_count", "buy_vol", "sell_vol"} \subseteq Cells
      BY DEF Cells, Cell64, Cell32
    <3>6. ASSUME NEW c \in Cells
          PROVE  \/ two[c] = Shown(c, Combine(c, sym[c], Share(d, c)))
                 \/ two[c] = sym[c] /\ Share(d, c) = Neutral(c)
      BY <2>3, <2>4, <2>5, <3>4, <3>5
    <3>7. Given(sym, two, d)
      BY <3>6, GivenByCells
    <3> QED
      BY <1>1, <3>1, <3>2, <3>7
  <2>6. CASE d.type = "Q"
    <3>1. CpuSymbol(sym, m) = one
      BY <1>2, <1>7, <2>1, <2>2, <2>6 DEF CpuSymbol, Trades
    <3>2. ASSUME NEW c \in Cells
          PROVE  \/ one[c] = Shown(c, Combine(c, sym[c], Share(d, c)))
                 \/ one[c] = sym[c] /\ Share(d, c) = Neutral(c)
      BY <2>3, <2>4, <2>6
    <3>3. Given(sym, one, d)
      BY <3>2, GivenByCells
    <3> QED
      BY <1>1, <3>1, <3>3
  <2> QED
    BY <1>7, <2>5, <2>6 DEF Trades
<1>8. CASE ~Quotes(d) /\ d.type # "X" /\ ~Trades(d)
  <2>1. CpuSymbol(sym, m) = sym
    <3>1. m.type \notin {"A", "F", "U", "X"}
      BY <1>2, <1>8 DEF Quotes
    <3>2. m.type \in {"P", "Q"} => m.qty = 0
      BY <1>2, <1>8 DEF Trades
    <3> QED
      BY <3>1, <3>2 DEF CpuSymbol
  <2>2. \A c \in Cells : Share(d, c) = Neutral(c)
    <3>1. d.type = "P" => d.qty = 0 /\ Neutral("buy_vol") = 0 /\ Neutral("sell_vol") = 0
      BY <1>8 DEF Trades, Neutral
    <3> QED
      BY <1>8, <3>1 DEF Share
  <2>3. Given(sym, sym, d)
    BY <2>2, GivenByCells
  <2> QED
    BY <1>1, <2>1, <2>3
<1> QED
  BY <1>5, <1>6, <1>7, <1>8

\* The share of a message in a cell of symbol s.
SymbolShare(m, s, c) == IF m.locate = s THEN Share(Decoded(m), c) ELSE Neutral(c)

LEMMA SymbolShareType ==
    ASSUME NEW m \in Slots, NEW s, NEW c \in Cells
    PROVE  SymbolShare(m, s, c) \in Shares(c)
BY DecodedSlots, ShareType, CombineLaws DEF SymbolShare

\* One round of the loop of cpu_aggregate.
LEMMA CpuMessageGiven ==
    ASSUME NEW m \in Slots, NEW a \in AccumSet
    PROVE  /\ CpuMessage(a, m) \in AccumSet
           /\ \A s \in Symbol, c \in Cells :
                CpuMessage(a, m)[s][c] = Shown(c, Combine(c, a[s][c], SymbolShare(m, s, c)))
<1>1. m.locate \in Nat /\ (m.locate >= MAX_SYMBOLS <=> m.locate \notin Symbol)
  BY SlotsAssumption, SymbolsAssumption DEF Symbol
<1>2. \A s \in Symbol : a[s] \in SymbolSet
  BY DEF AccumSet
<1>3. \A s \in Symbol, c \in Cells : a[s][c] = Shown(c, Combine(c, a[s][c], Neutral(c)))
  <2>1. \A s \in Symbol, c \in Cells : a[s][c] \in 0..Width(c)-1
    BY <1>2 DEF SymbolSet
  <2> QED
    BY <2>1, NeutralShown
<1>4. CASE m.locate \in Symbol
  <2>1. PICK s : s = m.locate
    OBVIOUS
  <2>2. PICK new : new = CpuSymbol(a[s], m)
    OBVIOUS
  <2>3. new \in SymbolSet
        /\ \A c \in Cells : new[c] = Shown(c, Combine(c, a[s][c], Share(Decoded(m), c)))
    <3>1. Given(a[s], new, Decoded(m))
      BY <1>2, <1>4, <2>1, <2>2, CpuSymbolGiven
    <3> QED
      BY <3>1 DEF Given
  <2>4. CpuMessage(a, m) = [a EXCEPT ![s] = new]
    BY <1>1, <1>4, <2>1, <2>2 DEF CpuMessage
  <2>5. CpuMessage(a, m) \in AccumSet
    BY <2>3, <2>4 DEF AccumSet
  <2>6. ASSUME NEW u \in Symbol, NEW c \in Cells
        PROVE  CpuMessage(a, m)[u][c] = Shown(c, Combine(c, a[u][c], SymbolShare(m, u, c)))
    <3>1. CASE u = s
      <4>1. CpuMessage(a, m)[u] = new
        BY <2>4, <3>1 DEF AccumSet
      <4> QED
        BY <2>1, <2>3, <3>1, <4>1 DEF SymbolShare
    <3>2. CASE u # s
      <4>1. CpuMessage(a, m)[u] = a[u]
        BY <2>4, <3>2 DEF AccumSet
      <4>2. SymbolShare(m, u, c) = Neutral(c)
        BY <2>1, <3>2 DEF SymbolShare
      <4> QED
        BY <1>3, <4>1, <4>2
    <3> QED
      BY <3>1, <3>2
  <2> QED
    BY <2>5, <2>6
<1>5. CASE m.locate \notin Symbol
  <2>1. CpuMessage(a, m) = a
    BY <1>1, <1>5 DEF CpuMessage
  <2>2. \A s \in Symbol, c \in Cells : SymbolShare(m, s, c) = Neutral(c)
    BY <1>5 DEF SymbolShare
  <2> QED
    BY <1>3, <2>1, <2>2
<1> QED
  BY <1>4, <1>5

-----------------------------------------------------------------------------
(***************************************************************************)
(* The loops of the reference.                                             *)
(***************************************************************************)

\* The accumulators during cpu_aggregate.
Steps(b, a) ==
    CHOOSE g : g = [i \in 0..BatchLen[b] |->
                      IF i = 0 THEN a ELSE CpuMessage(g[i-1], slot[<<b, i>>])]

LEMMA CpuAggregateSteps ==
    ASSUME NEW b, NEW a
    PROVE  cpu_aggregate(b, a) = Steps(b, a)[BatchLen[b]]
BY DEF cpu_aggregate, Steps

LEMMA StepsDef ==
    ASSUME slot \in [Thread -> Slots], NEW b \in Batch, NEW a \in AccumSet
    PROVE  /\ Steps(b, a) \in [0..BatchLen[b] -> AccumSet]
           /\ Steps(b, a)[0] = a
           /\ \A i \in 1..BatchLen[b] :
                Steps(b, a)[i] = CpuMessage(Steps(b, a)[i-1], slot[<<b, i>>])
<1>1. PICK n \in Nat : n = BatchLen[b]
  BY Threads
<1>2. \A i \in 1..n : slot[<<b, i>>] \in Slots
  BY <1>1, Threads
<1> DEFINE h == [i \in 1..n |-> [x \in AccumSet |-> CpuMessage(x, slot[<<b, i>>])]]
<1>3. h \in Bodies(AccumSet, n)
  BY <1>2, CpuMessageGiven DEF Bodies
<1>4. \A i \in 1..n : \A x \in AccumSet : h[i][x] = CpuMessage(x, slot[<<b, i>>])
  OBVIOUS
<1>5. PICK f \in [0..n -> AccumSet] : f[0] = a /\ \A i \in 1..n : f[i] = h[i][f[i-1]]
  <2> HIDE DEF h
  <2>1. LoopRuns(AccumSet, a, n, h) # {}
    BY <1>3, LoopExists
  <2> QED
    BY <2>1 DEF LoopRuns
<1> HIDE DEF h
<1>6. \A i \in 1..n : i - 1 \in 0..n /\ i \in 0..n /\ i # 0
  OBVIOUS
<1>7. \A i \in 0..n : f[i] = IF i = 0 THEN a ELSE CpuMessage(f[i-1], slot[<<b, i>>])
  <2> SUFFICES ASSUME NEW i \in 0..n
               PROVE  f[i] = IF i = 0 THEN a ELSE CpuMessage(f[i-1], slot[<<b, i>>])
    OBVIOUS
  <2>1. CASE i = 0
    BY <1>5, <2>1
  <2>2. CASE i # 0
    <3>1. i \in 1..n
      BY <2>2
    <3>2. f[i-1] \in AccumSet
      BY <1>6, <3>1
    <3> QED
      BY <1>4, <1>5, <2>2, <3>1, <3>2
  <2> QED
    BY <2>1, <2>2
<1>8. f = [i \in 0..n |-> IF i = 0 THEN a ELSE CpuMessage(f[i-1], slot[<<b, i>>])]
  BY <1>7
<1>9. PICK g : g = Steps(b, a)
  OBVIOUS
<1>10. g = [i \in 0..n |-> IF i = 0 THEN a ELSE CpuMessage(g[i-1], slot[<<b, i>>])]
  BY <1>1, <1>8, <1>9 DEF Steps
<1>11. g[0] = a /\ \A i \in 1..n : g[i] = CpuMessage(g[i-1], slot[<<b, i>>])
  BY <1>6, <1>10
<1>12. \A i \in 0..n : g[i] \in AccumSet
  <2>1. \A i \in 1..n : g[i-1] \in AccumSet => g[i] = h[i][g[i-1]]
    BY <1>4, <1>11
  <2> QED
    BY <1>3, <1>11, <2>1, LoopType
<1>13. g \in [0..n -> AccumSet]
  BY <1>10, <1>12
<1> QED
  BY <1>1, <1>9, <1>11, <1>13

\* The shares of all messages in a cell of symbol s.
AllShares(s, c) == [t \in Thread |-> SymbolShare(slot[t], s, c)]

LEMMA AllSharesType ==
    ASSUME slot \in [Thread -> Slots], NEW s, NEW c \in Cells
    PROVE  AllShares(s, c) \in [Thread -> Shares(c)]
BY SymbolShareType DEF AllShares

\* A share that is given after those of x have been: the cell may have wrapped.
LEMMA ShownTwice ==
    ASSUME NEW c \in Cells, NEW x \in Shares(c), NEW y \in Shares(c), NEW z \in Shares(c)
    PROVE  Shown(c, Combine(c, Shown(c, Combine(c, x, y)), z)) = Shown(c, Combine(c, x, Combine(c, y, z)))
<1>1. PICK w \in Shares(c) : w = Combine(c, x, y)
  BY CombineLaws
<1>2. Shown(c, Combine(c, Shown(c, w), z)) = Shown(c, Combine(c, w, z))
  BY ShownCombine
<1>3. Combine(c, w, z) = Combine(c, x, Combine(c, y, z))
  BY <1>1, CombineLaws
<1> QED
  BY <1>1, <1>2, <1>3

\* cpu_aggregate gives every cell the total of the shares of the batch.
LEMMA CpuAggregateTotal ==
    ASSUME slot \in [Thread -> Slots], NEW b \in Batch, NEW a \in AccumSet
    PROVE  /\ cpu_aggregate(b, a) \in AccumSet
           /\ \A s \in Symbol, c \in Cells :
                cpu_aggregate(b, a)[s][c]
                  = Shown(c, Combine(c, a[s][c], BatchTotal(c, AllShares(s, c), b)))
<1>1. PICK n \in Nat : n = BatchLen[b]
  BY Threads
<1>2. PICK g \in [0..n -> AccumSet] : g = Steps(b, a)
  BY <1>1, StepsDef
<1>3. g[0] = a /\ \A i \in 1..n : g[i] = CpuMessage(g[i-1], slot[<<b, i>>])
  BY <1>1, <1>2, StepsDef
<1>4. cpu_aggregate(b, a) = g[n]
  BY <1>1, <1>2, CpuAggregateSteps
<1>5. \A i \in 1..n : i - 1 \in 0..n /\ slot[<<b, i>>] \in Slots
  BY <1>1, Threads
<1>6. ASSUME NEW s \in Symbol, NEW c \in Cells
      PROVE  g[n][s][c] = Shown(c, Combine(c, a[s][c], BatchTotal(c, AllShares(s, c), b)))
  <2> DEFINE vb == [i \in 1..n |-> AllShares(s, c)[<<b, i>>]]
  <2>1. vb \in [1..n -> Shares(c)]
    BY <1>1, AllSharesType, TotalType
  <2>2. \A i \in 1..n : vb[i] = SymbolShare(slot[<<b, i>>], s, c)
    BY <1>1, Threads DEF AllShares
  <2>3. BatchTotal(c, AllShares(s, c), b) = Totals(c, n, vb)[n]
    BY <1>1 DEF BatchTotal
  <2> HIDE DEF vb
  <2>4. PICK f \in [0..n -> Shares(c)] : f = Totals(c, n, vb)
    BY <2>1, TotalsDef
  <2>5. f[0] = Neutral(c) /\ \A i \in 1..n : f[i] = Combine(c, f[i-1], vb[i])
    BY <2>1, <2>4, TotalsDef
  <2>6. PICK x \in 0..Width(c)-1 : x = a[s][c]
    BY DEF AccumSet, SymbolSet
  <2>7. x \in Shares(c)
    BY ShownRange
  <2> DEFINE T == {i \in 0..n : g[i][s][c] = Shown(c, Combine(c, x, f[i]))}
  <2>8. 0 \in T
    BY <1>3, <2>5, <2>6, NeutralShown
  <2>9. ASSUME NEW i \in 1..n, i - 1 \in T PROVE i \in T
    <3>1. g[i-1] \in AccumSet /\ f[i-1] \in Shares(c) /\ vb[i] \in Shares(c)
      BY <1>5, <2>1
    <3>2. PICK old \in AccumSet : old = g[i-1]
      BY <3>1
    <3>3. PICK m \in Slots : m = slot[<<b, i>>]
      BY <1>5
    <3>4. PICK y \in Shares(c) : y = f[i-1]
      BY <3>1
    <3>5. PICK z \in Shares(c) : z = vb[i]
      BY <3>1
    <3>6. CpuMessage(old, m)[s][c] = Shown(c, Combine(c, old[s][c], SymbolShare(m, s, c)))
      BY CpuMessageGiven
    <3>7. g[i] = CpuMessage(old, m) /\ z = SymbolShare(m, s, c)
      BY <1>3, <2>2, <3>2, <3>3, <3>5
    <3>8. old[s][c] = Shown(c, Combine(c, x, y))
      BY <2>9, <3>2, <3>4
    <3>9. Shown(c, Combine(c, Shown(c, Combine(c, x, y)), z)) = Shown(c, Combine(c, x, Combine(c, y, z)))
      BY <2>7, ShownTwice
    <3>10. f[i] = Combine(c, y, z)
      BY <2>5, <3>4, <3>5
    <3>11. g[i][s][c] = Shown(c, Combine(c, x, f[i]))
      BY <3>6, <3>7, <3>8, <3>9, <3>10
    <3> QED
      BY <3>11
  <2>10. 0..n \subseteq T
    <3> HIDE DEF T
    <3> QED
      BY <2>8, <2>9, InductionUpTo
  <2>11. n \in T
    BY <2>10
  <2> QED
    BY <2>3, <2>4, <2>6, <2>11
<1> QED
  BY <1>4, <1>6

\* The accumulators between the batches, in the order of the feed.
Rounds ==
    CHOOSE g : g = [b \in 0..Len(BatchLen) |->
                      IF b = 0 THEN FreshAccum ELSE cpu_aggregate(b, g[b-1])]

LEMMA ReferenceRounds == Reference = Rounds[Len(BatchLen)]
BY DEF Reference, Rounds

LEMMA FreshNeutral ==
    FreshAccum \in AccumSet /\ \A s \in Symbol, c \in Cells : FreshAccum[s][c] = Neutral(c)
<1>1. \A c \in Cells : Neutral(c) \in 0..Width(c)-1 /\ Neutral(c) \in Nat
  BY WidthsAssumption DEF Neutral, Width, ASK_EMPTY, Cells, Cell64, Cell32, Quote
<1>2. FreshSymbol = [c \in Cells |-> Neutral(c)]
  BY DEF FreshSymbol, Cells, Neutral
<1>3. FreshSymbol \in SymbolSet
  BY <1>1, <1>2 DEF SymbolSet
<1> QED
  BY <1>2, <1>3 DEF FreshAccum, AccumSet

LEMMA RoundsDef ==
    ASSUME slot \in [Thread -> Slots]
    PROVE  /\ Rounds \in [0..Len(BatchLen) -> AccumSet]
           /\ Rounds[0] = FreshAccum
           /\ \A b \in 1..Len(BatchLen) : Rounds[b] = cpu_aggregate(b, Rounds[b-1])
<1>1. PICK n \in Nat : n = Len(BatchLen)
  BY Threads
<1>2. \A b \in 1..n : b \in Batch
  BY <1>1, Threads
<1> DEFINE h == [b \in 1..n |-> [x \in AccumSet |-> cpu_aggregate(b, x)]]
<1>3. h \in Bodies(AccumSet, n)
  BY <1>2, CpuAggregateTotal DEF Bodies
<1>4. \A b \in 1..n : \A x \in AccumSet : h[b][x] = cpu_aggregate(b, x)
  OBVIOUS
<1>5. PICK f \in [0..n -> AccumSet] : f[0] = FreshAccum /\ \A b \in 1..n : f[b] = h[b][f[b-1]]
  <2> HIDE DEF h
  <2>1. LoopRuns(AccumSet, FreshAccum, n, h) # {}
    BY <1>3, FreshNeutral, LoopExists
  <2> QED
    BY <2>1 DEF LoopRuns
<1> HIDE DEF h
<1>6. \A b \in 1..n : b - 1 \in 0..n /\ b \in 0..n /\ b # 0
  OBVIOUS
<1>7. \A b \in 0..n : f[b] = IF b = 0 THEN FreshAccum ELSE cpu_aggregate(b, f[b-1])
  <2> SUFFICES ASSUME NEW b \in 0..n
               PROVE  f[b] = IF b = 0 THEN FreshAccum ELSE cpu_aggregate(b, f[b-1])
    OBVIOUS
  <2>1. CASE b = 0
    BY <1>5, <2>1
  <2>2. CASE b # 0
    <3>1. b \in 1..n
      BY <2>2
    <3>2. f[b-1] \in AccumSet
      BY <1>6, <3>1
    <3> QED
      BY <1>4, <1>5, <2>2, <3>1, <3>2
  <2> QED
    BY <2>1, <2>2
<1>8. f = [b \in 0..n |-> IF b = 0 THEN FreshAccum ELSE cpu_aggregate(b, f[b-1])]
  BY <1>7
<1>9. PICK g : g = Rounds
  OBVIOUS
<1>10. g = [b \in 0..n |-> IF b = 0 THEN FreshAccum ELSE cpu_aggregate(b, g[b-1])]
  BY <1>1, <1>8, <1>9 DEF Rounds
<1>11. g[0] = FreshAccum /\ \A b \in 1..n : g[b] = cpu_aggregate(b, g[b-1])
  BY <1>6, <1>10
<1>12. \A b \in 0..n : g[b] \in AccumSet
  <2>1. \A b \in 1..n : g[b-1] \in AccumSet => g[b] = h[b][g[b-1]]
    BY <1>4, <1>11
  <2> QED
    BY <1>3, <1>11, <2>1, FreshNeutral, LoopType
<1>13. g \in [0..n -> AccumSet]
  BY <1>10, <1>12
<1> QED
  BY <1>1, <1>9, <1>11, <1>13

\* The reference holds the total of the shares of all messages.
LEMMA ReferenceTotal ==
    ASSUME slot \in [Thread -> Slots]
    PROVE  /\ Reference \in AccumSet
           /\ \A s \in Symbol, c \in Cells :
                Reference[s][c] = Shown(c, Total(c, AllShares(s, c)))
<1>1. PICK n \in Nat : n = Len(BatchLen)
  BY Threads
<1>2. PICK g \in [0..n -> AccumSet] : g = Rounds
  BY <1>1, RoundsDef
<1>3. g[0] = FreshAccum /\ \A b \in 1..n : g[b] = cpu_aggregate(b, g[b-1])
  BY <1>1, <1>2, RoundsDef
<1>4. Reference = g[n]
  BY <1>1, <1>2, ReferenceRounds
<1>5. \A b \in 1..n : b - 1 \in 0..n /\ b \in Batch
  BY <1>1, Threads
<1>6. ASSUME NEW s \in Symbol, NEW c \in Cells
      PROVE  g[n][s][c] = Shown(c, Total(c, AllShares(s, c)))
  <2> DEFINE vs == [b \in 1..n |-> BatchTotal(c, AllShares(s, c), b)]
  <2>1. vs \in [1..n -> Shares(c)]
    BY <1>1, AllSharesType, TotalType
  <2>2. \A b \in 1..n : vs[b] = BatchTotal(c, AllShares(s, c), b)
    OBVIOUS
  <2>3. Total(c, AllShares(s, c)) = Totals(c, n, vs)[n]
    BY <1>1 DEF Total
  <2> HIDE DEF vs
  <2>4. PICK f \in [0..n -> Shares(c)] : f = Totals(c, n, vs)
    BY <2>1, TotalsDef
  <2>5. f[0] = Neutral(c) /\ \A b \in 1..n : f[b] = Combine(c, f[b-1], vs[b])
    BY <2>1, <2>4, TotalsDef
  <2> DEFINE T == {b \in 0..n : g[b][s][c] = Shown(c, f[b])}
  <2>6. 0 \in T
    <3>1. Neutral(c) \in 0..Width(c)-1
      BY FreshNeutral DEF AccumSet, SymbolSet
    <3> QED
      BY <1>3, <2>5, <3>1, FreshNeutral, ShownRange
  <2>7. ASSUME NEW b \in 1..n, b - 1 \in T PROVE b \in T
    <3>1. g[b-1] \in AccumSet /\ f[b-1] \in Shares(c) /\ vs[b] \in Shares(c)
      BY <1>5, <2>1
    <3>2. g[b][s][c] = Shown(c, Combine(c, g[b-1][s][c], vs[b]))
      BY <1>3, <1>5, <2>2, <3>1, CpuAggregateTotal
    <3>3. g[b-1][s][c] = Shown(c, f[b-1])
      BY <2>7
    <3>4. g[b][s][c] = Shown(c, Combine(c, f[b-1], vs[b]))
      BY <3>1, <3>2, <3>3, ShownCombine
    <3> QED
      BY <2>5, <3>4
  <2>8. 0..n \subseteq T
    <3> HIDE DEF T
    <3> QED
      BY <2>6, <2>7, InductionUpTo
  <2>9. n \in T
    BY <2>8
  <2> QED
    BY <2>3, <2>4, <2>9
<1> QED
  BY <1>4, <1>6

-----------------------------------------------------------------------------
(***************************************************************************)
(* The inductive invariant.                                                *)
(***************************************************************************)
TypeInv ==
    /\ slot \in [Thread -> Slots]
    /\ pc \in [Thread -> {"decode", "decoded", "aggregate"}]
    /\ DOMAIN soa = Thread
    /\ DOMAIN todo = Thread
    /\ acc \in AccumSet

\* A thread past decode_kernel has its message decoded.
DecodedInv ==
    \A t \in Thread : soa[t] = IF pc[t] = "decode" THEN Undecoded ELSE Decoded(slot[t])

\* A thread in aggregate_kernel has atomics of its message left to make, and
\* none for a symbol beyond the table.
TodoInv ==
    \A t \in Thread :
        /\ pc[t] # "aggregate" => todo[t] = <<>>
        /\ pc[t] = "aggregate" => AtomicsOf(todo[t], Decoded(slot[t]))
        /\ todo[t] # <<>> => slot[t].locate < MAX_SYMBOLS

\* The shares whose atomics have been made, in a cell of symbol s.
Made(s, c) ==
    [t \in Thread |-> IF pc[t] = "aggregate" /\ c \notin CellsOf(todo[t])
                      THEN SymbolShare(slot[t], s, c) ELSE Neutral(c)]

\* Every cell shows the total of the shares made.
AccInv ==
    \A s \in Symbol, c \in Cells : acc[s][c] = Shown(c, Total(c, Made(s, c)))

Inv == TypeInv /\ DecodedInv /\ TodoInv /\ AccInv

LEMMA MadeType ==
    ASSUME slot \in [Thread -> Slots], NEW s, NEW c \in Cells
    PROVE  Made(s, c) \in [Thread -> Shares(c)]
<1>1. \A t \in Thread : SymbolShare(slot[t], s, c) \in Shares(c)
  BY SymbolShareType
<1> QED
  BY <1>1, CombineLaws DEF Made

\* Initially no share has been made.
LEMMA InitInv == Init => Inv
<1> SUFFICES ASSUME Init PROVE Inv
  OBVIOUS
<1>1. TypeInv
  BY FreshNeutral DEF Init, TypeInv
<1>2. DecodedInv /\ TodoInv
  BY DEF Init, DecodedInv, TodoInv
<1>3. ASSUME NEW s \in Symbol, NEW c \in Cells
      PROVE  acc[s][c] = Shown(c, Total(c, Made(s, c)))
  <2>1. \A t \in Thread : Made(s, c)[t] = Neutral(c)
    BY DEF Init, Made
  <2>2. Total(c, Made(s, c)) = Neutral(c)
    BY <1>1, <2>1, MadeType, TotalNeutral DEF TypeInv
  <2>3. acc[s][c] = Neutral(c) /\ Neutral(c) \in 0..Width(c)-1
    BY FreshNeutral DEF Init, AccumSet, SymbolSet
  <2> QED
    BY <2>2, <2>3, ShownRange
<1> QED
  BY <1>1, <1>2, <1>3 DEF Inv, AccInv

\* Decoding and reaching aggregate_kernel make no share.
LEMMA SharesKept ==
    ASSUME AccInv, acc' = acc,
           \A s \in Symbol, c \in Cells : Made(s, c)' = Made(s, c)
    PROVE  AccInv'
<1> SUFFICES ASSUME NEW s \in Symbol, NEW c \in Cells
             PROVE  acc'[s][c] = Shown(c, Total(c, Made(s, c)'))
  BY DEF AccInv
<1> QED
  BY DEF AccInv

LEMMA DecodeInv ==
    ASSUME Inv, NEW t \in Thread, Decode(t) PROVE Inv'
<1> USE DEF Inv
<1>1. TypeInv'
  BY DEF Decode, TypeInv
<1>2. DecodedInv'
  BY DEF Decode, DecodedInv, TypeInv
<1>3. TodoInv'
  BY DEF Decode, TodoInv, TypeInv
<1>4. ASSUME NEW s \in Symbol, NEW c \in Cells PROVE Made(s, c)' = Made(s, c)
  BY DEF Decode, Made, TypeInv
<1>5. AccInv'
  BY <1>4, SharesKept DEF Decode
<1> QED
  BY <1>1, <1>2, <1>3, <1>5

LEMMA StartAggregateInv ==
    ASSUME Inv, NEW t \in Thread, StartAggregate(t) PROVE Inv'
<1> USE DEF Inv
<1>1. PICK d : d = Decoded(slot[t])
  OBVIOUS
<1>2. slot[t] \in Slots /\ DecodedSlot(d) /\ d.locate = slot[t].locate /\ d.locate \in Nat
  BY <1>1, DecodedSlots DEF TypeInv, DecodedSlot
<1>3. soa[t] = d /\ todo[t] = <<>>
  BY <1>1 DEF StartAggregate, DecodedInv, TodoInv, TypeInv
<1>4. /\ todo' = [todo EXCEPT ![t] = Atomics(d)]
      /\ pc' = [pc EXCEPT ![t] = "aggregate"]
      /\ slot' = slot /\ soa' = soa /\ acc' = acc /\ pc[t] = "decoded"
  BY <1>3 DEF StartAggregate
<1>5. /\ AtomicsOf(Atomics(d), d)
      /\ Atomics(d) # <<>> => d.locate < MAX_SYMBOLS
      /\ \A s \in Symbol, c \in Cells :
           c \notin CellsOf(Atomics(d)) => SymbolShare(slot[t], s, c) = Neutral(c)
  <2>1. CASE d.locate < MAX_SYMBOLS
    <3>1. Covers(Atomics(d), d)
      BY <1>2, <2>1, AtomicsOfMessage
    <3> QED
      BY <1>1, <2>1, <3>1 DEF Covers, SymbolShare
  <2>2. CASE ~(d.locate < MAX_SYMBOLS)
    <3>1. d.locate >= MAX_SYMBOLS /\ slot[t].locate \notin Symbol
      BY <1>2, <2>2, SymbolsAssumption DEF Symbol
    <3>2. Atomics(d) = <<>>
      BY <3>1 DEF Atomics
    <3>3. \A s \in Symbol, c \in Cells : SymbolShare(slot[t], s, c) = Neutral(c)
      BY <3>1 DEF SymbolShare
    <3> QED
      BY <3>2, <3>3 DEF AtomicsOf
  <2> QED
    BY <2>1, <2>2
<1>6. TypeInv'
  BY <1>4 DEF TypeInv
<1>7. DecodedInv'
  BY <1>4 DEF DecodedInv, TypeInv
<1>8. TodoInv'
  <2> SUFFICES ASSUME NEW u \in Thread
               PROVE  /\ pc'[u] # "aggregate" => todo'[u] = <<>>
                      /\ pc'[u] = "aggregate" => AtomicsOf(todo'[u], Decoded(slot[u]))
                      /\ todo'[u] # <<>> => slot[u].locate < MAX_SYMBOLS
    BY <1>4 DEF TodoInv
  <2>1. CASE u = t
    <3>1. todo'[u] = Atomics(d) /\ pc'[u] = "aggregate"
      BY <1>4, <2>1 DEF TypeInv
    <3> QED
      BY <1>1, <1>2, <1>5, <2>1, <3>1
  <2>2. CASE u # t
    <3>1. todo'[u] = todo[u] /\ pc'[u] = pc[u]
      BY <1>4, <2>2 DEF TypeInv
    <3> QED
      BY <3>1 DEF TodoInv
  <2> QED
    BY <2>1, <2>2
<1>9. ASSUME NEW s \in Symbol, NEW c \in Cells PROVE Made(s, c)' = Made(s, c)
  <2>1. ASSUME NEW u \in Thread PROVE Made(s, c)'[u] = Made(s, c)[u]
    <3>1. CASE u = t
      <4>1. todo'[u] = Atomics(d) /\ pc'[u] = "aggregate" /\ pc[u] = "decoded"
        BY <1>4, <3>1 DEF TypeInv
      <4> QED
        BY <1>4, <1>5, <3>1, <4>1 DEF Made
    <3>2. CASE u # t
      <4>1. todo'[u] = todo[u] /\ pc'[u] = pc[u]
        BY <1>4, <3>2 DEF TypeInv
      <4> QED
        BY <1>4, <4>1 DEF Made
    <3> QED
      BY <3>1, <3>2
  <2> QED
    BY <2>1 DEF Made
<1>10. AccInv'
  BY <1>4, <1>9, SharesKept
<1> QED
  BY <1>6, <1>7, <1>8, <1>10

LEMMA MakeAtomicInv ==
    ASSUME Inv, NEW t \in Thread, MakeAtomic(t) PROVE Inv'
<1> USE DEF Inv
<1>1. PICK d : d = Decoded(slot[t])
  OBVIOUS
<1>2. PICK q : q = todo[t]
  OBVIOUS
<1>3. PICK hc : hc = Head(q).cell
  OBVIOUS
<1>4. q # <<>> /\ pc[t] = "aggregate" /\ AtomicsOf(q, d) /\ soa[t] = d /\ slot[t].locate < MAX_SYMBOLS
  BY <1>1, <1>2 DEF MakeAtomic, TodoInv, DecodedInv
<1>5. PICK sym \in Symbol : sym = slot[t].locate /\ sym = d.locate
  <2>1. slot[t] \in Slots
    BY DEF TypeInv
  <2>2. d.locate = slot[t].locate /\ d.locate \in Nat
    BY <1>1, <2>1, DecodedSlots DEF DecodedSlot
  <2> QED
    BY <1>4, <2>2, SymbolsAssumption DEF Symbol
<1>6. DecodedSlot(d)
  BY <1>1, DecodedSlots DEF TypeInv
<1>7. /\ hc \in Cells /\ Head(q).op = OpOf(hc) /\ Head(q).val = Share(d, hc)
      /\ AtomicsOf(Tail(q), d)
      /\ hc \in CellsOf(q) /\ hc \notin CellsOf(Tail(q))
      /\ \A c : c # hc => (c \in CellsOf(q) <=> c \in CellsOf(Tail(q)))
  BY <1>3, <1>4, AtomicsTail
<1>8. PICK x \in 0..Width(hc)-1 : x = acc[sym][hc]
  BY <1>7 DEF TypeInv, AccumSet, SymbolSet
<1>9. PICK y \in Shares(hc) : y = Share(d, hc)
  BY <1>6, <1>7, ShareType
<1>10. PICK new \in 0..Width(hc)-1 : new = Applied(Head(q), x) /\ new = Shown(hc, Combine(hc, x, y))
  <2>1. Applied(Head(q), x) = Shown(hc, Combine(hc, x, y))
    BY <1>3, <1>7, <1>9, AppliedCombines
  <2> QED
    BY <1>7, <2>1, ShownType
<1>11. /\ acc' = [acc EXCEPT ![sym][hc] = new]
       /\ todo' = [todo EXCEPT ![t] = Tail(q)]
       /\ slot' = slot /\ soa' = soa /\ pc' = pc
  BY <1>2, <1>3, <1>4, <1>5, <1>8, <1>10 DEF MakeAtomic
<1>12. /\ todo'[t] = Tail(q)
       /\ \A u \in Thread : u # t => todo'[u] = todo[u]
  BY <1>11 DEF TypeInv
<1>13. acc[sym] \in SymbolSet
  BY DEF TypeInv, AccumSet
<1>14. acc' = [acc EXCEPT ![sym] = [acc[sym] EXCEPT ![hc] = new]]
  BY <1>11
<1>15. [acc[sym] EXCEPT ![hc] = new] \in SymbolSet
  BY <1>7, <1>13, CellReplaced
<1>16. acc' \in AccumSet
  BY <1>14, <1>15 DEF TypeInv, AccumSet
<1>17. TypeInv'
  BY <1>11, <1>16 DEF TypeInv
<1>18. DecodedInv'
  BY <1>11 DEF DecodedInv
<1>19. TodoInv'
  <2> SUFFICES ASSUME NEW u \in Thread
               PROVE  /\ pc[u] # "aggregate" => todo'[u] = <<>>
                      /\ pc[u] = "aggregate" => AtomicsOf(todo'[u], Decoded(slot[u]))
                      /\ todo'[u] # <<>> => slot[u].locate < MAX_SYMBOLS
    BY <1>11 DEF TodoInv
  <2>1. CASE u = t
    BY <1>1, <1>4, <1>7, <1>12, <2>1
  <2>2. CASE u # t
    BY <1>12, <2>2 DEF TodoInv
  <2> QED
    BY <2>1, <2>2
<1>20. ASSUME NEW s \in Symbol, NEW c \in Cells
       PROVE  acc'[s][c] = Shown(c, Total(c, Made(s, c)'))
  <2>1. \A u \in Thread : u # t => Made(s, c)'[u] = Made(s, c)[u]
    BY <1>11, <1>12 DEF Made
  <2>2. DOMAIN Made(s, c) = Thread /\ DOMAIN Made(s, c)' = Thread
    BY DEF Made
  <2>3. CASE s = sym /\ c = hc
    <3>1. Made(s, c)[t] = Neutral(c)
      BY <1>2, <1>7, <2>3 DEF Made
    <3>2. Made(s, c)'[t] = y
      <4>1. SymbolShare(slot[t], sym, hc) = y
        BY <1>1, <1>5, <1>9 DEF SymbolShare
      <4>2. Made(s, c)'[t] = SymbolShare(slot[t], s, c)
        BY <1>4, <1>7, <1>11, <1>12, <2>3 DEF Made
      <4> QED
        BY <2>3, <4>1, <4>2
    <3>3. y = Combine(c, Neutral(c), y)
      BY <1>7, <1>9, <2>3, CombineLaws
    <3> DEFINE v == Made(s, c)
               w == Made(s, c)'
    <3>4. v \in [Thread -> Shares(c)]
      BY MadeType DEF TypeInv
    <3>5. w \in [Thread -> Shares(c)]
      <4>1. \A u \in Thread : w[u] \in Shares(c)
        BY <1>9, <2>1, <2>3, <3>2, <3>4
      <4> QED
        BY <2>2, <4>1 DEF Made
    <3>6. w[t] = Combine(c, v[t], y) /\ \A u \in Thread : u # t => w[u] = v[u]
      BY <2>1, <3>1, <3>2, <3>3
    <3>7. acc[s][c] = Shown(c, Total(c, v))
      BY DEF AccInv
    <3> HIDE DEF v, w
    <3>8. y \in Shares(c)
      BY <1>9, <2>3
    <3>9. Total(c, w) = Combine(c, Total(c, v), y)
      BY <3>4, <3>5, <3>6, <3>8, TotalUpdate
    <3>10. Total(c, v) \in Shares(c)
      BY <3>4, TotalType
    <3>11. Shown(c, Combine(c, Shown(c, Total(c, v)), y)) = Shown(c, Combine(c, Total(c, v), y))
      BY <3>8, <3>10, ShownCombine
    <3>12. acc'[s][c] = new
      BY <1>7, <1>13, <1>14, <2>3 DEF TypeInv, AccumSet, SymbolSet
    <3>13. acc'[s][c] = Shown(c, Total(c, w))
      BY <1>8, <1>10, <2>3, <3>7, <3>9, <3>11, <3>12
    <3> QED
      BY <3>13 DEF w
  <2>4. CASE ~(s = sym /\ c = hc)
    <3>1. acc'[s][c] = acc[s][c]
      <4>1. CASE s = sym
        BY <1>13, <1>14, <2>4, <4>1 DEF TypeInv, AccumSet, SymbolSet
      <4>2. CASE s # sym
        BY <1>14, <4>2 DEF TypeInv, AccumSet
      <4> QED
        BY <4>1, <4>2
    <3>2. Made(s, c)'[t] = Made(s, c)[t]
      <4>1. CASE s # sym
        <5>1. SymbolShare(slot[t], s, c) = Neutral(c)
          BY <1>5, <4>1 DEF SymbolShare
        <5> QED
          BY <1>11, <5>1 DEF Made
      <4>2. CASE c # hc
        <5>1. c \in CellsOf(todo[t]) <=> c \in CellsOf(todo'[t])
          BY <1>2, <1>7, <1>12, <4>2
        <5> QED
          BY <1>11, <5>1 DEF Made
      <4> QED
        BY <2>4, <4>1, <4>2
    <3>3. Made(s, c)' = Made(s, c)
      <4>1. \A u \in Thread : Made(s, c)'[u] = Made(s, c)[u]
        BY <2>1, <3>2
      <4> QED
        BY <4>1 DEF Made
    <3> QED
      BY <3>1, <3>3 DEF AccInv
  <2> QED
    BY <2>3, <2>4
<1>21. AccInv'
  BY <1>20 DEF AccInv
<1> QED
  BY <1>17, <1>18, <1>19, <1>21

LEMMA UnchangedInv == Inv /\ UNCHANGED vars => Inv'
BY DEF Inv, TypeInv, DecodedInv, TodoInv, AccInv, Made, vars

\* Inv holds in every reachable state.
LEMMA Invariance == Spec => []Inv
<1>1. Init => Inv
  BY InitInv
<1>2. Inv /\ [Next]_vars => Inv'
  <2> SUFFICES ASSUME Inv, [Next]_vars PROVE Inv'
    OBVIOUS
  <2>1. ASSUME NEW t \in Thread, Decode(t) PROVE Inv'
    BY <2>1, DecodeInv
  <2>2. ASSUME NEW t \in Thread, StartAggregate(t) PROVE Inv'
    BY <2>2, StartAggregateInv
  <2>3. ASSUME NEW t \in Thread, MakeAtomic(t) PROVE Inv'
    BY <2>3, MakeAtomicInv
  <2>4. CASE Terminated
    BY <2>4, UnchangedInv DEF Terminated
  <2>5. CASE UNCHANGED vars
    BY <2>5, UnchangedInv
  <2> QED
    BY <2>1, <2>2, <2>3, <2>4, <2>5 DEF Next
<1> QED
  BY <1>1, <1>2, PTL DEF Spec

-----------------------------------------------------------------------------
(***************************************************************************)
(* The results.                                                            *)
(***************************************************************************)

\* Every variable keeps its type, and no accumulator leaves its width: what the
\* atomics of kernels.cuh return fits the cells of DeviceAccum.
THEOREM TypeCorrect == Spec => []TypeOK
<1>1. Inv => TypeOK
  <2> SUFFICES ASSUME Inv PROVE TypeOK
    OBVIOUS
  <2>1. \A t \in Thread : soa[t] \in {Undecoded, Decoded(slot[t])}
    BY DEF Inv, DecodedInv
  <2>2. \A s \in Symbol, c \in Cells : acc[s][c] \in 0..Width(c)-1
    BY DEF Inv, TypeInv, AccumSet, SymbolSet
  <2>3. /\ \A c \in Cell64 : c \in Cells /\ Width(c) = U64
        /\ \A c \in Cell32 \cup Quote : c \in Cells /\ Width(c) = U32
    BY DEF Cells, Cell64, Cell32, Quote, Width
  <2> QED
    BY <2>1, <2>2, <2>3 DEF Inv, TypeInv, TypeOK
<1> QED
  BY <1>1, Invariance, PTL

\* When every thread of aggregate_kernel is done, the accumulators are those
\* cpu_aggregate makes of the same messages in the order of the feed.
THEOREM GpuEqualsCpu == Spec => []BitExact
<1>1. Inv => BitExact
  <2> SUFFICES ASSUME Inv, Done PROVE acc = Reference
    BY DEF BitExact
  <2>1. slot \in [Thread -> Slots] /\ acc \in AccumSet
    BY DEF Inv, TypeInv
  <2>2. Reference \in AccumSet
    BY <2>1, ReferenceTotal
  <2>3. ASSUME NEW s \in Symbol, NEW c \in Cells PROVE acc[s][c] = Reference[s][c]
    <3>1. \A t \in Thread : pc[t] = "aggregate" /\ c \notin CellsOf(todo[t])
      BY DEF Done, CellsOf
    <3>2. Made(s, c) = AllShares(s, c)
      BY <3>1 DEF Made, AllShares
    <3>3. acc[s][c] = Shown(c, Total(c, Made(s, c)))
      BY DEF Inv, AccInv
    <3>4. Reference[s][c] = Shown(c, Total(c, AllShares(s, c)))
      BY <2>1, ReferenceTotal
    <3> QED
      BY <3>2, <3>3, <3>4
  <2>4. ASSUME NEW s \in Symbol PROVE acc[s] = Reference[s]
    <3>1. acc[s] \in SymbolSet /\ Reference[s] \in SymbolSet
      BY <2>1, <2>2 DEF AccumSet
    <3> QED
      BY <2>3, <3>1 DEF SymbolSet
  <2> QED
    BY <2>1, <2>2, <2>4 DEF AccumSet
<1> QED
  BY <1>1, Invariance, PTL

\* The accumulators do not depend on the order in which two batches reach
\* cpu_aggregate, whatever they held before.
THEOREM BatchesCommute ==
    ASSUME slot \in [Thread -> Slots], NEW b1 \in Batch, NEW b2 \in Batch, NEW a \in AccumSet
    PROVE  cpu_aggregate(b1, cpu_aggregate(b2, a)) = cpu_aggregate(b2, cpu_aggregate(b1, a))
<1>1. PICK one \in AccumSet : one = cpu_aggregate(b1, a)
  BY CpuAggregateTotal
<1>2. PICK two \in AccumSet : two = cpu_aggregate(b2, a)
  BY CpuAggregateTotal
<1>3. PICK left \in AccumSet : left = cpu_aggregate(b1, two)
  BY CpuAggregateTotal
<1>4. PICK right \in AccumSet : right = cpu_aggregate(b2, one)
  BY CpuAggregateTotal
<1>5. ASSUME NEW s \in Symbol, NEW c \in Cells PROVE left[s][c] = right[s][c]
  <2>1. PICK x \in Shares(c) : x = a[s][c]
    BY ShownRange DEF AccumSet, SymbolSet
  <2>2. PICK y \in Shares(c) : y = BatchTotal(c, AllShares(s, c), b1)
    BY AllSharesType, TotalType
  <2>3. PICK z \in Shares(c) : z = BatchTotal(c, AllShares(s, c), b2)
    BY AllSharesType, TotalType
  <2>4. /\ one[s][c] = Shown(c, Combine(c, x, y))
        /\ two[s][c] = Shown(c, Combine(c, x, z))
    BY <1>1, <1>2, <2>1, <2>2, <2>3, CpuAggregateTotal
  <2>5. /\ left[s][c] = Shown(c, Combine(c, two[s][c], y))
        /\ right[s][c] = Shown(c, Combine(c, one[s][c], z))
    BY <1>3, <1>4, <2>2, <2>3, CpuAggregateTotal
  <2>6. /\ left[s][c] = Shown(c, Combine(c, x, Combine(c, z, y)))
        /\ right[s][c] = Shown(c, Combine(c, x, Combine(c, y, z)))
    BY <2>4, <2>5, ShownTwice
  <2> QED
    BY <2>6, CombineLaws
<1>6. ASSUME NEW s \in Symbol PROVE left[s] = right[s]
  <2>1. left[s] \in SymbolSet /\ right[s] \in SymbolSet
    BY DEF AccumSet
  <2> QED
    BY <1>5, <2>1 DEF SymbolSet
<1>7. left = right
  BY <1>6 DEF AccumSet
<1> QED
  BY <1>1, <1>2, <1>3, <1>4, <1>7
=============================================================================
