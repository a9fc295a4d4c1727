----------------------- MODULE DatagramBuilder_proofs -----------------------
(***************************************************************************)
(* Proofs about the datagram builder, for every sequence of buffers, every *)
(* size a datagram may have and every width of the header's fields.        *)
(*                                                                         *)
(* First what the folds compute, by induction; then the loop's invariant.  *)
(***************************************************************************)
EXTENDS DatagramBuilder, WellFoundedInduction, TLAPS

-----------------------------------------------------------------------------
(* Induction, over sets of numbers and sets of sequences.                  *)

(* A set that has 0 and each successor has all natural numbers: otherwise  *)
(* take the least that it has not.                                         *)
LEMMA SetInduction ==
  ASSUME NEW S, 0 \in S, \A n \in Nat : n \in S => n + 1 \in S
  PROVE  Nat \subseteq S
<1> SUFFICES ASSUME ~ (Nat \subseteq S) PROVE FALSE
  OBVIOUS
<1> DEFINE T == Nat \ S
           R == OpToRel(<, Nat)
<1>1. T \subseteq Nat /\ T # {}
  OBVIOUS
<1>2. IsWellFoundedOn(R, Nat)
  BY NatLessThanWellFounded
<1>3. \A x, y \in Nat : << x, y >> \in R <=> x < y
  BY DEF OpToRel
<1> HIDE DEF R
<1>4. PICK x \in T : \A y \in T : ~ (<< y, x >> \in R)
  <2> HIDE DEF T
  <2>1. QED BY <1>1, <1>2, WFMin
<1>5. x # 0 /\ x \in Nat
  OBVIOUS
<1>6. x - 1 \in Nat /\ x - 1 < x /\ (x - 1) + 1 = x
  BY <1>5
<1>7. x - 1 \in S
  BY <1>3, <1>4, <1>5, <1>6
<1>8. QED BY <1>5, <1>6, <1>7

(* A function on 1 .. n is a sequence.                                     *)
LEMMA IsASequence ==
  ASSUME NEW S, NEW n \in Nat, NEW f \in [1 .. n -> S]
  PROVE  f \in Seq(S) /\ Len(f) = n
OBVIOUS

(* A sequence that is not empty is its front and its last element.         *)
LEMMA FrontAndLast ==
  ASSUME NEW S, NEW s \in Seq(S), s # << >>
  PROVE  /\ Front(s) \in Seq(S) /\ Last(s) \in S
         /\ s = Append(Front(s), Last(s))
         /\ Len(Front(s)) = Len(s) - 1 /\ Len(s) \in Nat \ {0}
         /\ \A i \in 1 .. Len(s) - 1 : Front(s)[i] = s[i]
<1> DEFINE n == Len(s)
<1>1. n \in Nat \ {0} /\ n \in DOMAIN s /\ n - 1 \in Nat
  OBVIOUS
<1>2. s[n] \in S
  BY <1>1
<1>3. /\ SubSeq(s, 1, n - 1) \in Seq(S) /\ Len(SubSeq(s, 1, n - 1)) = n - 1
      /\ \A i \in 1 .. n - 1 : SubSeq(s, 1, n - 1)[i] = s[i]
  <2>1. \A i \in 1 .. n - 1 : i \in DOMAIN s /\ s[i] \in S
    BY <1>1
  <2>2. SubSeq(s, 1, n - 1) = [i \in 1 .. n - 1 |-> s[i]]
    BY <1>1
  <2> DEFINE f == [i \in 1 .. n - 1 |-> s[i]]
  <2>3. f \in [1 .. n - 1 -> S] /\ \A i \in 1 .. n - 1 : f[i] = s[i]
    BY <2>1
  <2> HIDE DEF f
  <2>4. f \in Seq(S) /\ Len(f) = n - 1
    BY <1>1, <2>3, IsASequence
  <2>5. QED BY <2>2, <2>3, <2>4 DEF f
<1>4. s = Append(SubSeq(s, 1, n - 1), s[n])
  <2> DEFINE l == Append(SubSeq(s, 1, n - 1), s[n])
  <2>1. l \in Seq(S) /\ Len(l) = n /\ \A i \in 1 .. n : l[i] = s[i]
    BY <1>1, <1>2, <1>3
  <2> HIDE DEF l
  <2>2. l = s
    BY <2>1
  <2>3. QED BY <2>2 DEF l
<1>5. QED BY <1>1, <1>2, <1>3, <1>4 DEF Front, Last

(* A set that has << >> and, with each sequence, every longer one.         *)
LEMMA SeqInduction ==
  ASSUME NEW S, NEW T, << >> \in T,
         \A s \in Seq(S), x \in S : s \in T => Append(s, x) \in T
  PROVE  Seq(S) \subseteq T
<1> DEFINE N == {n \in Nat : \A s \in Seq(S) : Len(s) = n => s \in T}
<1>1. 0 \in N
  <2>1. \A s \in Seq(S) : Len(s) = 0 => s = << >>
    OBVIOUS
  <2>2. QED BY <2>1
<1>2. ASSUME NEW n \in Nat, n \in N
      PROVE  n + 1 \in N
  <2>1. ASSUME NEW s \in Seq(S), Len(s) = n + 1
        PROVE  s \in T
    <3>1. s # << >>
      BY <2>1
    <3>2. /\ Front(s) \in Seq(S) /\ Last(s) \in S /\ s = Append(Front(s), Last(s))
          /\ Len(Front(s)) = n
      BY <2>1, <3>1, FrontAndLast
    <3>3. Front(s) \in T
      BY <1>2, <3>2
    <3>4. QED BY <3>2, <3>3
  <2>2. QED BY <2>1
<1> HIDE DEF N
<1>3. Nat \subseteq N
  BY <1>1, <1>2, SetInduction
<1>4. ASSUME NEW s \in Seq(S)
      PROVE  s \in T
  <2>1. Len(s) \in N
    BY <1>3
  <2>2. QED BY <2>1 DEF N
<1>5. QED BY <1>4

-----------------------------------------------------------------------------
(* Sum.                                                                    *)

(* The recursive function behind the fold: f[1 .. k] is the sum of the     *)
(* first k numbers.                                                        *)
IsSumTable(f, s, n) ==
  f = [t \in SUBSET (1 .. n) |-> IF t = {} THEN 0 ELSE f[t \ {Max(t)}] + s[Max(t)]]

(* The largest of some numbers up to n + 1.                                *)
LEMMA LargestIsLast ==
  ASSUME NEW n \in Nat, NEW t \in SUBSET (1 .. n + 1), n + 1 \in t
  PROVE  Max(t) = n + 1
<1>1. \A i \in t : i \in Int /\ n + 1 >= i
  OBVIOUS
<1>2. \A i \in t : (\A j \in t : i >= j) => i = n + 1
  BY <1>1
<1>3. QED BY <1>1, <1>2, Zenon DEF Max

(* There is such a table for every n.                                      *)
LEMMA SumTableExists ==
  ASSUME NEW s, NEW n \in Nat
  PROVE  \E f : IsSumTable(f, s, n)
<1> DEFINE N == {k \in Nat : \E f : IsSumTable(f, s, k)}
<1>1. 0 \in N
  <2>1. 1 .. 0 = {} /\ SUBSET (1 .. 0) = {{}}
    OBVIOUS
  <2>2. IsSumTable([t \in SUBSET (1 .. 0) |-> 0], s, 0)
    BY <2>1 DEF IsSumTable
  <2>3. QED BY <2>2
<1>2. ASSUME NEW k \in Nat, k \in N
      PROVE  k + 1 \in N
  <2>1. PICK f : IsSumTable(f, s, k)
    BY <1>2
  <2> DEFINE g == [t \in SUBSET (1 .. k + 1) |->
                     IF k + 1 \in t THEN f[t \ {k + 1}] + s[k + 1] ELSE f[t]]
  <2>2. ASSUME NEW t \in SUBSET (1 .. k + 1)
        PROVE  g[t] = IF t = {} THEN 0 ELSE g[t \ {Max(t)}] + s[Max(t)]
    <3>1. CASE k + 1 \in t
      <4>1. Max(t) = k + 1
        BY <3>1, LargestIsLast
      <4>2. t \ {k + 1} \in SUBSET (1 .. k + 1) /\ k + 1 \notin t \ {k + 1}
        OBVIOUS
      <4>3. g[t \ {k + 1}] = f[t \ {k + 1}]
        BY <4>2
      <4>4. g[t] = f[t \ {k + 1}] + s[k + 1]
        BY <3>1
      <4> HIDE DEF g
      <4>5. QED BY <3>1, <4>1, <4>3, <4>4
    <3>2. CASE k + 1 \notin t
      <4>a. \A i \in t : i \in 1 .. k
        BY <3>2
      <4>1. t \in SUBSET (1 .. k) /\ t \ {Max(t)} \in SUBSET (1 .. k)
        BY <4>a, Zenon
      <4>2. g[t] = f[t] /\ g[t \ {Max(t)}] = f[t \ {Max(t)}]
        BY <3>2, <4>1
      <4>3. f[t] = IF t = {} THEN 0 ELSE f[t \ {Max(t)}] + s[Max(t)]
        BY <2>1, <4>1 DEF IsSumTable
      <4> HIDE DEF g
      <4>4. QED BY <4>2, <4>3
    <3>3. QED BY <3>1, <3>2
  <2>3. IsSumTable(g, s, k + 1)
    <3>1. g = [t \in SUBSET (1 .. k + 1) |-> g[t]]
      OBVIOUS
    <3> HIDE DEF g
    <3>2. QED BY <2>2, <3>1 DEF IsSumTable
  <2> HIDE DEF g
  <2>4. QED BY <2>3
<1> HIDE DEF N
<1>3. Nat \subseteq N
  BY <1>1, <1>2, SetInduction
<1>4. QED BY <1>3 DEF N

(* The first k + 1 of n numbers.                                           *)
LEMMA FirstNumbers ==
  ASSUME NEW n \in Nat, NEW k \in Nat, k + 1 <= n
  PROVE  /\ 1 .. k + 1 \in SUBSET (1 .. n) /\ 1 .. k + 1 # {} /\ k + 1 \in 1 .. k + 1
         /\ Max(1 .. k + 1) = k + 1
         /\ (1 .. k + 1) \ {k + 1} = 1 .. k
<1>1. 1 .. k + 1 \in SUBSET (1 .. n) /\ 1 .. k + 1 # {} /\ k + 1 \in 1 .. k + 1
  OBVIOUS
<1>2. Max(1 .. k + 1) = k + 1
  BY <1>1, LargestIsLast
<1>3. (1 .. k + 1) \ {k + 1} = 1 .. k
  OBVIOUS
<1>4. QED BY <1>1, <1>2, <1>3

(* A step in such a table.                                                 *)
LEMMA SumTableStep ==
  ASSUME NEW f, NEW s, NEW n \in Nat, IsSumTable(f, s, n)
  PROVE  /\ f[{}] = 0
         /\ \A k \in Nat : k + 1 <= n => f[1 .. k + 1] = f[1 .. k] + s[k + 1]
<1>1. f[{}] = 0
  BY DEF IsSumTable
<1>2. ASSUME NEW k \in Nat, k + 1 <= n
      PROVE  f[1 .. k + 1] = f[1 .. k] + s[k + 1]
  <2>1. /\ 1 .. k + 1 \in SUBSET (1 .. n) /\ 1 .. k + 1 # {}
        /\ Max(1 .. k + 1) = k + 1
        /\ (1 .. k + 1) \ {k + 1} = 1 .. k
    BY <1>2, FirstNumbers
  <2>2. QED BY <2>1 DEF IsSumTable
<1>3. QED BY <1>1, <1>2

(* Where two sequences agree, their tables do.                             *)
LEMMA SumTablesAgree ==
  ASSUME NEW f, NEW s, NEW n \in Nat, IsSumTable(f, s, n),
         NEW f2, NEW s2, NEW n2 \in Nat, IsSumTable(f2, s2, n2),
         NEW m \in Nat, m <= n, m <= n2, \A i \in 1 .. m : s[i] = s2[i]
  PROVE  f[1 .. m] = f2[1 .. m]
<1> DEFINE N == {k \in Nat : k <= m => f[1 .. k] = f2[1 .. k]}
<1>1. 0 \in N
  BY SumTableStep
<1>2. ASSUME NEW k \in Nat, k \in N
      PROVE  k + 1 \in N
  <2>1. SUFFICES ASSUME k + 1 <= m PROVE f[1 .. k + 1] = f2[1 .. k + 1]
    OBVIOUS
  <2>2. f[1 .. k] = f2[1 .. k] /\ k + 1 <= n /\ k + 1 <= n2 /\ s[k + 1] = s2[k + 1]
    BY <1>2, <2>1
  <2>3. QED BY <2>2, SumTableStep
<1> HIDE DEF N
<1>3. Nat \subseteq N
  BY <1>1, <1>2, SetInduction
<1>4. QED BY <1>3 DEF N

(* Sum is what the table says.                                             *)
LEMMA SumTable ==
  ASSUME NEW S, NEW s \in Seq(S)
  PROVE  \E f : IsSumTable(f, s, Len(s)) /\ Sum(s) = f[1 .. Len(s)]
<1> DEFINE f == CHOOSE f : IsSumTable(f, s, Len(s))
<1>1. Len(s) \in Nat /\ DOMAIN s = 1 .. Len(s)
  OBVIOUS
<1>2. IsSumTable(f, s, Len(s))
  BY <1>1, SumTableExists
<1>3. Sum(s) = (CHOOSE iter : iter = [t \in SUBSET DOMAIN s |->
                   IF t = {} THEN 0 ELSE iter[t \ {Max(t)}] + s[Max(t)]])[DOMAIN s]
  BY DEF Sum, FoldLeft, MapThenFoldSet
<1>4. Sum(s) = f[1 .. Len(s)]
  BY <1>1, <1>3 DEF IsSumTable
<1> HIDE DEF f
<1>5. QED BY <1>2, <1>4

(* Nothing sums up to 0, and one number more is added.                     *)
LEMMA SumOfNothing == Sum(<< >>) = 0
<1>1. << >> \in Seq({}) /\ Len(<< >>) = 0 /\ 1 .. 0 = {}
  OBVIOUS
<1>2. PICK f : IsSumTable(f, << >>, Len(<< >>)) /\ Sum(<< >>) = f[1 .. Len(<< >>)]
  BY <1>1, SumTable
<1>3. QED BY <1>1, <1>2, SumTableStep

(* One number more at the end.                                             *)
LEMMA SumOfAppend ==
  ASSUME NEW S, NEW s \in Seq(S), NEW x \in S
  PROVE  Sum(Append(s, x)) = Sum(s) + x
<1> DEFINE l == Append(s, x)
           n == Len(s)
<1>1. /\ l \in Seq(S) /\ Len(l) = n + 1 /\ n \in Nat /\ l[n + 1] = x
      /\ \A i \in 1 .. n : l[i] = s[i]
  OBVIOUS
<1>2. PICK f : IsSumTable(f, s, n) /\ Sum(s) = f[1 .. n]
  BY SumTable
<1> HIDE DEF l, n
<1>3. PICK g : IsSumTable(g, l, n + 1) /\ Sum(l) = g[1 .. n + 1]
  BY <1>1, SumTable
<1>4. g[1 .. n + 1] = g[1 .. n] + x
  BY <1>1, <1>3, SumTableStep
<1>5. g[1 .. n] = f[1 .. n]
  BY <1>1, <1>2, <1>3, SumTablesAgree
<1>6. QED BY <1>2, <1>3, <1>4, <1>5 DEF l

(* Sums of natural numbers are natural numbers.                            *)
LEMMA SumIsNat ==
  ASSUME NEW s \in Seq(Nat)
  PROVE  Sum(s) \in Nat
<1> DEFINE T == {l \in Seq(Nat) : Sum(l) \in Nat}
<1>1. << >> \in T
  BY SumOfNothing
<1>2. ASSUME NEW l \in Seq(Nat), NEW x \in Nat, l \in T
      PROVE  Append(l, x) \in T
  <2>1. Sum(l) \in Nat /\ Append(l, x) \in Seq(Nat)
    BY <1>2
  <2>2. Sum(Append(l, x)) = Sum(l) + x
    BY SumOfAppend
  <2>3. QED BY <2>1, <2>2
<1> HIDE DEF T
<1>3. Seq(Nat) \subseteq T
  BY <1>1, <1>2, SeqInduction
<1>4. QED BY <1>3 DEF T

(* The sum without the last number.                                        *)
LEMMA SumOfFront ==
  ASSUME NEW S, NEW s \in Seq(S), s # << >>
  PROVE  Sum(s) = Sum(Front(s)) + Last(s)
<1>1. Front(s) \in Seq(S) /\ Last(s) \in S /\ s = Append(Front(s), Last(s))
  BY FrontAndLast
<1>2. QED BY <1>1, SumOfAppend

-----------------------------------------------------------------------------
(* NonEmpty, which is a fold, too: f[1 .. k] are the buffers with a size   *)
(* among the first k.                                                      *)
Kept(l, size) == IF size > 0 THEN Append(l, size) ELSE l

IsKeptTable(f, s, n) ==
  f = [t \in SUBSET (1 .. n) |-> IF t = {} THEN << >> ELSE Kept(f[t \ {Max(t)}], s[Max(t)])]

(* There is such a table for every n.                                      *)
LEMMA KeptTableExists ==
  ASSUME NEW s, NEW n \in Nat
  PROVE  \E f : IsKeptTable(f, s, n)
<1> DEFINE N == {k \in Nat : \E f : IsKeptTable(f, s, k)}
<1>1. 0 \in N
  <2>1. 1 .. 0 = {} /\ SUBSET (1 .. 0) = {{}}
    OBVIOUS
  <2>2. IsKeptTable([t \in SUBSET (1 .. 0) |-> << >>], s, 0)
    BY <2>1 DEF IsKeptTable
  <2>3. QED BY <2>2
<1>2. ASSUME NEW k \in Nat, k \in N
      PROVE  k + 1 \in N
  <2>1. PICK f : IsKeptTable(f, s, k)
    BY <1>2
  <2> DEFINE g == [t \in SUBSET (1 .. k + 1) |->
                     IF k + 1 \in t THEN Kept(f[t \ {k + 1}], s[k + 1]) ELSE f[t]]
  <2>2. ASSUME NEW t \in SUBSET (1 .. k + 1)
        PROVE  g[t] = IF t = {} THEN << >> ELSE Kept(g[t \ {Max(t)}], s[Max(t)])
    <3>1. CASE k + 1 \in t
      <4>1. Max(t) = k + 1
        BY <3>1, LargestIsLast
      <4>2. t \ {k + 1} \in SUBSET (1 .. k + 1) /\ k + 1 \notin t \ {k + 1}
        OBVIOUS
      <4>3. g[t \ {k + 1}] = f[t \ {k + 1}]
        BY <4>2
      <4>4. g[t] = Kept(f[t \ {k + 1}], s[k + 1])
        BY <3>1
      <4> HIDE DEF g
      <4>5. QED BY <3>1, <4>1, <4>3, <4>4
    <3>2. CASE k + 1 \notin t
      <4>a. \A i \in t : i \in 1 .. k
        BY <3>2
      <4>1. t \in SUBSET (1 .. k) /\ t \ {Max(t)} \in SUBSET (1 .. k)
        BY <4>a, Zenon
      <4>2. g[t] = f[t] /\ g[t \ {Max(t)}] = f[t \ {Max(t)}]
        BY <3>2, <4>1
      <4>3. f[t] = IF t = {} THEN << >> ELSE Kept(f[t \ {Max(t)}], s[Max(t)])
        BY <2>1, <4>1 DEF IsKeptTable
      <4> HIDE DEF g
      <4>4. QED BY <4>2, <4>3
    <3>3. QED BY <3>1, <3>2
  <2>3. IsKeptTable(g, s, k + 1)
    <3>1. g = [t \in SUBSET (1 .. k + 1) |-> g[t]]
      OBVIOUS
    <3> HIDE DEF g
    <3>2. QED BY <2>2, <3>1 DEF IsKeptTable
  <2> HIDE DEF g
  <2>4. QED BY <2>3
<1> HIDE DEF N
<1>3. Nat \subseteq N
  BY <1>1, <1>2, SetInduction
<1>4. QED BY <1>3 DEF N

(* Every buffer that is kept has a size.                                   *)
LEMMA NonEmptyHaveSizes ==
  ASSUME NEW s \in Seq(Nat)
  PROVE  NonEmpty(s) \in Seq(Nat \ {0})
<1> DEFINE n == Len(s)
           f == CHOOSE f : IsKeptTable(f, s, n)
           N == {k \in Nat : k <= n => f[1 .. k] \in Seq(Nat \ {0})}
<1>1. n \in Nat /\ DOMAIN s = 1 .. n
  OBVIOUS
<1>2. IsKeptTable(f, s, n)
  BY <1>1, KeptTableExists
<1>3. NonEmpty(s) = (CHOOSE iter : iter = [t \in SUBSET DOMAIN s |->
                       IF t = {} THEN << >> ELSE Kept(iter[t \ {Max(t)}], s[Max(t)])])[DOMAIN s]
  BY DEF NonEmpty, FoldLeft, MapThenFoldSet, Kept
<1>4. NonEmpty(s) = f[1 .. n]
  BY <1>1, <1>3 DEF IsKeptTable
<1> HIDE DEF f, n
<1>5. 0 \in N
  <2>1. 1 .. 0 = {} /\ {} \in SUBSET (1 .. n)
    OBVIOUS
  <2>2. f[1 .. 0] = << >>
    BY <1>2, <2>1 DEF IsKeptTable
  <2>3. f[1 .. 0] \in Seq(Nat \ {0})
    BY <2>2
  <2> HIDE DEF IsKeptTable
  <2>4. QED BY <2>3
<1>6. ASSUME NEW k \in Nat, k \in N
      PROVE  k + 1 \in N
  <2>1. SUFFICES ASSUME k + 1 <= n PROVE f[1 .. k + 1] \in Seq(Nat \ {0})
    OBVIOUS
  <2>2. f[1 .. k] \in Seq(Nat \ {0}) /\ s[k + 1] \in Nat
    BY <1>1, <1>6, <2>1 DEF n
  <2>3. /\ 1 .. k + 1 \in SUBSET (1 .. n) /\ 1 .. k + 1 # {}
        /\ Max(1 .. k + 1) = k + 1
        /\ (1 .. k + 1) \ {k + 1} = 1 .. k
    BY <1>1, <2>1, FirstNumbers
  <2>4. f[1 .. k + 1] = Kept(f[1 .. k], s[k + 1])
    BY <1>2, <2>3 DEF IsKeptTable
  <2>5. QED BY <2>2, <2>4 DEF Kept
<1> HIDE DEF N
<1>7. Nat \subseteq N
  BY <1>5, <1>6, SetInduction
<1>8. QED BY <1>1, <1>4, <1>7 DEF N

-----------------------------------------------------------------------------
(* Arithmetic in uint32_t, and beginnings of sequences.                    *)

LEMMA AsUInt32IsNat ==
  ASSUME NEW n \in Nat
  PROVE  /\ AsUInt32(n) \in Nat
         /\ n <= UINT32_MAX => AsUInt32(n) = n
         /\ n > UINT32_MAX /\ n <= 2 * UINT32_MAX + 1 => AsUInt32(n) = n - (UINT32_MAX + 1)
<1> DEFINE w == UINT32_MAX + 1
<1>1. w \in Nat \ {0} /\ UINT32_MAX = w - 1
  BY UInt32Assumption
<1> HIDE DEF w
<1>2. n % w \in Nat
  BY <1>1
<1>3. ASSUME n < w PROVE n % w = n
  BY <1>1, <1>3
<1>4. ASSUME n >= w, n < 2 * w PROVE n % w = n - w
  BY <1>1, <1>4
<1>5. AsUInt32(n) = n % w
  BY DEF AsUInt32, w
<1>6. QED BY <1>1, <1>2, <1>3, <1>4, <1>5

(* The first k elements.                                                   *)
LEMMA FirstElements ==
  ASSUME NEW S, NEW s \in Seq(S)
  PROVE  /\ SubSeq(s, 1, 0) = << >>
         /\ SubSeq(s, 1, Len(s)) = s
         /\ \A k \in 1 .. Len(s) : /\ SubSeq(s, 1, k - 1) \in Seq(S)
                                   /\ s[k] \in S
                                   /\ SubSeq(s, 1, k) = Append(SubSeq(s, 1, k - 1), s[k])
<1>1. SubSeq(s, 1, 0) = << >>
  OBVIOUS
<1>2. SubSeq(s, 1, Len(s)) = s
  OBVIOUS
<1>3. ASSUME NEW k \in 1 .. Len(s)
      PROVE  /\ SubSeq(s, 1, k - 1) \in Seq(S)
             /\ s[k] \in S
             /\ SubSeq(s, 1, k) = Append(SubSeq(s, 1, k - 1), s[k])
  <2> DEFINE l == SubSeq(s, 1, k)
  <2>1. k \in Nat \ {0} /\ k <= Len(s) /\ Len(s) \in Nat /\ \A i \in 1 .. k : s[i] \in S
    OBVIOUS
  <2>2. l = [i \in 1 .. k |-> s[i]]
    BY <2>1
  <2>3. l \in [1 .. k -> S]
    BY <2>1, <2>2
  <2> HIDE DEF l
  <2>4. l \in Seq(S) /\ Len(l) = k /\ l # << >>
    BY <2>1, <2>3, IsASequence
  <2>5. l = Append(Front(l), Last(l)) /\ Front(l) \in Seq(S)
    BY <2>4, FrontAndLast
  <2>6. Last(l) = s[k]
    BY <2>1, <2>2, <2>4 DEF Last
  <2>7. Front(l) = SubSeq(s, 1, k - 1)
    BY <2>1, <2>2, <2>4 DEF Front
  <2>8. QED BY <2>1, <2>5, <2>6, <2>7 DEF l
<1>4. QED BY <1>1, <1>2, <1>3

-----------------------------------------------------------------------------
(* The bytes of datagrams and of lists of them.                            *)

Parts == [buffer : Nat, offset : Nat, length : Nat]

Datagram == [type : Nat, num : Nat, len : Nat, parts : Seq(Parts)]

Lengths(parts) == [i \in DOMAIN parts |-> PartSize(parts[i])]

(* What a datagram has behind its header.                                  *)
Bytes(datagram) == Sum(Lengths(datagram.parts))

(* size() is the header and the bytes behind it.                           *)
LEMMA SizeIsHeaderAndBytes ==
  ASSUME NEW datagram \in Datagram
  PROVE  /\ SizeOf(datagram) = HeaderSize + Bytes(datagram)
         /\ Bytes(datagram) \in Nat
<1> DEFINE parts == datagram.parts
<1>1. parts \in Seq(Parts) /\ Len(parts) \in Nat /\ DOMAIN parts = 1 .. Len(parts)
  BY DEF Datagram
<1> HIDE DEF parts
<1>2. Lengths(parts) \in [1 .. Len(parts) -> Nat]
  <2>1. \A i \in 1 .. Len(parts) : parts[i] \in Parts
    BY <1>1
  <2>2. QED BY <1>1, <2>1 DEF Lengths, PartSize, Parts
<1>3. Lengths(parts) \in Seq(Nat)
  BY <1>1, <1>2, IsASequence
<1>4. QED BY <1>3, SumIsNat DEF SizeOf, Bytes, Lengths, parts

(* A datagram that gets one part more.                                     *)
LEMMA PartAddsItsLength ==
  ASSUME NEW parts \in Seq(Parts), NEW part \in Parts
  PROVE  /\ Sum(Lengths(Append(parts, part))) = Sum(Lengths(parts)) + part.length
         /\ Sum(Lengths(<< >>)) = 0
<1> DEFINE n == Len(parts)
<1>1. n \in Nat /\ DOMAIN parts = 1 .. n /\ \A i \in 1 .. n : parts[i] \in Parts
  OBVIOUS
<1>2. /\ DOMAIN Append(parts, part) = 1 .. n + 1
      /\ \A i \in 1 .. n : Append(parts, part)[i] = parts[i]
      /\ Append(parts, part)[n + 1] = part
  OBVIOUS
<1> HIDE DEF n
<1>3. Lengths(parts) \in [1 .. n -> Nat] /\ part.length \in Nat
  BY <1>1 DEF Lengths, PartSize, Parts
<1>4. Lengths(parts) \in Seq(Nat) /\ Len(Lengths(parts)) = n
  BY <1>1, <1>3, IsASequence
<1>5. Lengths(Append(parts, part)) = [i \in 1 .. n + 1 |-> IF i = n + 1 THEN part.length ELSE Lengths(parts)[i]]
  <2>1. \A i \in 1 .. n + 1 : PartSize(Append(parts, part)[i])
                                = IF i = n + 1 THEN part.length ELSE Lengths(parts)[i]
    <3>1. \A i \in 1 .. n : Lengths(parts)[i] = parts[i].length
      BY <1>1 DEF Lengths, PartSize
    <3>2. QED BY <1>1, <1>2, <3>1 DEF PartSize
  <2>2. QED BY <1>2, <2>1 DEF Lengths
<1>6. Append(Lengths(parts), part.length)
        = [i \in 1 .. n + 1 |-> IF i = n + 1 THEN part.length ELSE Lengths(parts)[i]]
  BY <1>1, <1>3, <1>4
<1>7. Lengths(<< >>) = << >>
  BY DEF Lengths
<1>8. Lengths(Append(parts, part)) = Append(Lengths(parts), part.length)
  BY <1>5, <1>6
<1>9. Sum(Append(Lengths(parts), part.length)) = Sum(Lengths(parts)) + part.length
  BY <1>3, <1>4, SumOfAppend
<1>10. QED BY <1>7, <1>8, <1>9, SumOfNothing

(* A message that fits in one datagram.                                    *)
LEMMA WholeBuffers ==
  ASSUME NEW buffers \in Seq(Nat)
  PROVE  Whole(buffers) \in Seq(Parts) /\ Sum(Lengths(Whole(buffers))) = Sum(buffers)
<1> DEFINE n == Len(buffers)
<1>1. n \in Nat /\ buffers = [i \in 1 .. n |-> buffers[i]] /\ \A i \in 1 .. n : buffers[i] \in Nat
  OBVIOUS
<1> HIDE DEF n
<1>2. Whole(buffers) \in [1 .. n -> Parts] /\ \A i \in 1 .. n : Whole(buffers)[i].length = buffers[i]
  BY <1>1 DEF Whole, Part, Parts
<1>3. Whole(buffers) \in Seq(Parts)
  BY <1>1, <1>2, IsASequence
<1>4. Lengths(Whole(buffers)) = buffers
  <2>1. DOMAIN Whole(buffers) = 1 .. n
    BY <1>2
  <2>2. QED BY <1>1, <1>2, <2>1 DEF Lengths, PartSize
<1>5. QED BY <1>3, <1>4

(* The bytes of each fragment: the list's first datagram is the info.      *)
FragmentBytes(list) == [i \in 1 .. Len(list) - 1 |-> Bytes(list[i + 1])]

(* They are a sequence, one shorter than the list.                         *)
LEMMA FragmentBytesAreNumbers ==
  ASSUME NEW list \in Seq(Datagram), list # << >>
  PROVE  FragmentBytes(list) \in Seq(Nat) /\ Len(FragmentBytes(list)) = Len(list) - 1
<1> DEFINE n == Len(list) - 1
<1>1. n \in Nat /\ \A i \in 1 .. n : list[i + 1] \in Datagram
  OBVIOUS
<1> HIDE DEF n
<1>2. FragmentBytes(list) \in [1 .. n -> Nat]
  <2>1. FragmentBytes(list) = [i \in 1 .. n |-> Bytes(list[i + 1])]
    BY DEF FragmentBytes, n
  <2>2. \A i \in 1 .. n : Bytes(list[i + 1]) \in Nat
    BY <1>1, SizeIsHeaderAndBytes
  <2>3. QED BY <2>1, <2>2
<1>3. QED BY <1>1, <1>2, IsASequence DEF n

(* A fragment at the end of the list: a new one, or the last with more     *)
(* bytes in it.                                                            *)
LEMMA ListGetsBytes ==
  ASSUME NEW list \in Seq(Datagram), list # << >>, NEW datagram \in Datagram
  PROVE  /\ Sum(FragmentBytes(Append(list, datagram))) = Sum(FragmentBytes(list)) + Bytes(datagram)
         /\ Len(list) > 1 => Sum(FragmentBytes(list)) = Sum(FragmentBytes(Front(list))) + Bytes(Last(list))
<1>1. ASSUME NEW l \in Seq(Datagram), l # << >>, NEW d \in Datagram
      PROVE  Sum(FragmentBytes(Append(l, d))) = Sum(FragmentBytes(l)) + Bytes(d)
  <2> DEFINE n == Len(l) - 1
             more == Append(l, d)
  <2>1. /\ n \in Nat /\ Len(more) = n + 2 /\ more[n + 2] = d
        /\ \A i \in 1 .. n : more[i + 1] = l[i + 1]
    BY <1>1
  <2>2. /\ FragmentBytes(l) \in Seq(Nat) /\ Len(FragmentBytes(l)) = n
        /\ FragmentBytes(l) = [i \in 1 .. n |-> Bytes(l[i + 1])]
    BY <1>1, FragmentBytesAreNumbers DEF FragmentBytes
  <2> HIDE DEF n, more
  <2>3. FragmentBytes(more) = [i \in 1 .. n + 1 |-> Bytes(more[i + 1])]
    BY <2>1 DEF FragmentBytes
  <2>4. \A i \in 1 .. n + 1 : Bytes(more[i + 1]) = IF i = n + 1 THEN Bytes(d) ELSE FragmentBytes(l)[i]
    <3>1. (n + 1) + 1 = n + 2 /\ \A i \in 1 .. n + 1 : i # n + 1 => i \in 1 .. n
      BY <2>1
    <3>2. QED BY <2>1, <2>2, <3>1
  <2>5. Append(FragmentBytes(l), Bytes(d))
          = [i \in 1 .. n + 1 |-> IF i = n + 1 THEN Bytes(d) ELSE FragmentBytes(l)[i]]
    BY <2>1, <2>2
  <2>6. FragmentBytes(more) = Append(FragmentBytes(l), Bytes(d))
    BY <2>3, <2>4, <2>5
  <2>7. Bytes(d) \in Nat
    BY SizeIsHeaderAndBytes
  <2>8. QED BY <2>2, <2>6, <2>7, SumOfAppend DEF more
<1>2. ASSUME Len(list) > 1
      PROVE  Sum(FragmentBytes(list)) = Sum(FragmentBytes(Front(list))) + Bytes(Last(list))
  <2>1. /\ Front(list) \in Seq(Datagram) /\ Last(list) \in Datagram
        /\ list = Append(Front(list), Last(list)) /\ Len(Front(list)) = Len(list) - 1
    BY FrontAndLast
  <2>2. Front(list) # << >>
    BY <1>2, <2>1
  <2>3. QED BY <1>1, <2>1, <2>2
<1>3. QED BY <1>1, <1>2

-----------------------------------------------------------------------------
(* The invariant.                                                          *)

(* Where the loop is: within a buffer, or behind the last.                 *)
Position ==
  /\ buffer_index \in 1 .. Len(buffer_sequence) + 1
  /\ offset_in_current_buffer \in Nat
  /\ buffer_index <= Len(buffer_sequence) =>
        offset_in_current_buffer < buffer_sequence[buffer_index]
  /\ buffer_index > Len(buffer_sequence) => offset_in_current_buffer = 0

(* The bytes before that.                                                  *)
Taken == Sum(SubSeq(buffer_sequence, 1, buffer_index - 1)) + offset_in_current_buffer

InfoOK(info) ==
  /\ info.type = datagram_type_fragmented_message_info
  /\ info.num = NeededFragmentCount(AsUInt32(Sum(buffer_sequence)))
  /\ info.len = AsUInt32(Sum(buffer_sequence))
  /\ info.parts = << >>

(* The header of the i-th datagram of the list, a fragment.                *)
HeaderOK(fragment, i) ==
  /\ fragment.num = AsUInt32(i - 2)
  /\ Sum(buffer_sequence) <= UINT32_MAX => fragment.len = Bytes(fragment)

(* All fragments but the last are full, and none is empty.                 *)
FragmentsOK(list) ==
  \A i \in 2 .. Len(list) :
     /\ HeaderOK(list[i], i)
     /\ Bytes(list[i]) \in 1 .. PayloadBytesPerDatagram
     /\ i < Len(list) => Bytes(list[i]) = PayloadBytesPerDatagram

LoopInv ==
  /\ buffer_sequence \in Seq(Nat \ {0})
  /\ max_udp_datagram_size > HeaderSize
  /\ Sum(buffer_sequence) > PayloadBytesPerDatagram
  /\ Position
  /\ datagram_list # << >>
  /\ InfoOK(datagram_list[1])
  /\ FragmentsOK(datagram_list)
  /\ Sum(FragmentBytes(datagram_list)) = Taken

(* A message of one datagram.                                              *)
Single ==
  /\ Sum(buffer_sequence) + HeaderSize <= max_udp_datagram_size
  /\ datagram_list = << [ type  |-> datagram_type_non_fragmented_message,
                          num   |-> 1,
                          len   |-> AsUInt32(Sum(buffer_sequence)),
                          parts |-> Whole(buffer_sequence) ] >>

BuilderInv ==
  /\ buffer_sequence \in Seq(Nat)
  /\ max_udp_datagram_size \in Nat
  /\ datagram_list \in Seq(Datagram)
  /\ \/ /\ pc \in {"start", "invalid_argument"}
        /\ datagram_list = << >> /\ buffer_index = 1 /\ offset_in_current_buffer = 0
     \/ pc = "done" /\ Single
     \/ pc = "loop" /\ LoopInv
     \/ pc = "done" /\ LoopInv /\ buffer_index = Len(buffer_sequence) + 1

(* The invariant holds at the start.                                       *)
LEMMA BuilderInvInit == Init => BuilderInv
BY InputAssumption DEF Init, BuilderInv

(* The list to which a round adds bytes: its last datagram has room.       *)
LEMMA RoundHasRoom ==
  ASSUME BuilderInv, LoopInv, NEW list, list = WithRoom(datagram_list)
  PROVE  /\ list \in Seq(Datagram)
         /\ Len(list) > 1
         /\ list[1] = datagram_list[1]
         /\ Bytes(Last(list)) < PayloadBytesPerDatagram
         /\ HeaderOK(Last(list), Len(list))
         /\ \A i \in 2 .. Len(list) - 1 :
               HeaderOK(list[i], i) /\ Bytes(list[i]) = PayloadBytesPerDatagram
         /\ Sum(FragmentBytes(Front(list))) + Bytes(Last(list)) = Taken
<1> DEFINE P == PayloadBytesPerDatagram
           n == Len(datagram_list)
<1>1. /\ datagram_list \in Seq(Datagram) /\ datagram_list # << >> /\ n \in Nat \ {0}
      /\ max_udp_datagram_size \in Nat /\ max_udp_datagram_size > HeaderSize
      /\ P = max_udp_datagram_size - HeaderSize /\ P \in Nat \ {0} /\ HeaderSize = 24
  BY DEF BuilderInv, LoopInv, PayloadBytesPerDatagram, HeaderSize
<1>2. \A i \in 2 .. n : /\ HeaderOK(datagram_list[i], i)
                        /\ Bytes(datagram_list[i]) \in 1 .. P
                        /\ i < n => Bytes(datagram_list[i]) = P
  BY DEF LoopInv, FragmentsOK
<1>3. Last(datagram_list) = datagram_list[n] /\ Last(datagram_list) \in Datagram
  BY <1>1, FrontAndLast DEF Last
<1>4. SizeOf(Last(datagram_list)) = HeaderSize + Bytes(Last(datagram_list))
      /\ Bytes(Last(datagram_list)) \in Nat
  BY <1>3, SizeIsHeaderAndBytes
<1> DEFINE new == [ type  |-> datagram_type_fragment,
                    num   |-> AsUInt32(n - 1),
                    len   |-> 0,
                    parts |-> << >> ]
<1> HIDE DEF P
<1>5. CASE n <= 1 \/ SizeOf(Last(datagram_list)) >= max_udp_datagram_size
  <2>1. list = Append(datagram_list, new)
    BY <1>5 DEF WithRoom
  <2>2. new \in Datagram /\ Bytes(new) = 0
    <3>1. n - 1 \in Nat /\ AsUInt32(n - 1) \in Nat
      BY <1>1, AsUInt32IsNat
    <3>2. << >> \in Seq(Parts) /\ Sum(Lengths(<< >>)) = 0
      BY SumOfNothing DEF Lengths
    <3> HIDE DEF n
    <3>3. QED BY <3>1, <3>2 DEF Datagram, Bytes, datagram_type_fragment
  <2>3. HeaderOK(new, n + 1)
    <3>1. (n + 1) - 2 = n - 1
      BY <1>1
    <3>2. new.num = AsUInt32((n + 1) - 2) /\ new.len = Bytes(new)
      BY <2>2, <3>1
    <3> HIDE DEF new
    <3>3. QED BY <3>2 DEF HeaderOK
  <2>4. n > 1 => Bytes(datagram_list[n]) = P
    <3>1. n > 1 => Bytes(datagram_list[n]) \in 1 .. P
      BY <1>1, <1>2
    <3>2. n > 1 => Bytes(datagram_list[n]) >= P
      BY <1>1, <1>3, <1>4, <1>5
    <3>3. QED BY <1>1, <3>1, <3>2
  <2> HIDE DEF new, n
  <2>5. /\ list \in Seq(Datagram) /\ Len(list) = Len(datagram_list) + 1
        /\ \A i \in 1 .. Len(datagram_list) : list[i] = datagram_list[i]
        /\ list[Len(datagram_list) + 1] = new
    BY <1>1, <2>1, <2>2
  <2>6. /\ Len(list) = n + 1 /\ Last(list) = new
        /\ \A i \in 1 .. n : list[i] = datagram_list[i]
    BY <2>5 DEF Last, n
  <2>7. Front(list) = datagram_list
    <3>1. list # << >> /\ Front(list) \in Seq(Datagram) /\ Len(Front(list)) = n
          /\ \A i \in 1 .. n : Front(list)[i] = list[i]
      BY <1>1, <2>5, <2>6, FrontAndLast
    <3>2. QED BY <1>1, <2>6, <3>1 DEF n
  <2>8. Sum(FragmentBytes(Front(list))) + Bytes(Last(list)) = Taken
    <3>1. Sum(FragmentBytes(datagram_list)) = Taken /\ Sum(FragmentBytes(datagram_list)) \in Nat
      BY <1>1, FragmentBytesAreNumbers, SumIsNat DEF LoopInv
    <3>2. QED BY <2>2, <2>6, <2>7, <3>1
  <2>9. \A i \in 2 .. Len(list) - 1 : HeaderOK(list[i], i) /\ Bytes(list[i]) = P
    <3> SUFFICES ASSUME NEW i \in 2 .. n
                 PROVE  HeaderOK(list[i], i) /\ Bytes(list[i]) = P
      BY <1>1, <2>6
    <3>1. list[i] = datagram_list[i]
      BY <1>1, <2>6
    <3>2. CASE i = n
      BY <1>1, <1>2, <2>4, <3>1, <3>2
    <3>3. CASE i # n
      BY <1>1, <1>2, <3>1, <3>3
    <3>4. QED BY <3>2, <3>3
  <2>10. Bytes(Last(list)) < P /\ HeaderOK(Last(list), Len(list)) /\ Len(list) > 1 /\ list[1] = datagram_list[1]
    BY <1>1, <2>2, <2>3, <2>6
  <2>11. QED BY <2>5, <2>8, <2>9, <2>10 DEF P
<1>6. CASE ~ (n <= 1 \/ SizeOf(Last(datagram_list)) >= max_udp_datagram_size)
  <2>1. list = datagram_list
    BY <1>6 DEF WithRoom
  <2>2. n > 1 /\ Bytes(Last(list)) < P /\ Last(list) = list[n]
    BY <1>1, <1>3, <1>4, <1>6, <2>1
  <2>3. HeaderOK(Last(list), n)
    BY <1>1, <1>2, <2>1, <2>2
  <2>4. \A i \in 2 .. n - 1 : HeaderOK(list[i], i) /\ Bytes(list[i]) = P
    BY <1>1, <1>2, <2>1
  <2>5. Sum(FragmentBytes(Front(list))) + Bytes(Last(list)) = Taken
    BY <1>1, <2>1, <2>2, ListGetsBytes DEF LoopInv
  <2>6. QED BY <1>1, <2>1, <2>2, <2>3, <2>4, <2>5 DEF P
<1>7. QED BY <1>5, <1>6

(* The bytes a round puts into it: at least one, and no more than it has   *)
(* room for or than are left of the buffer.                                *)
LEMMA RoundAddsBytes ==
  ASSUME BuilderInv, LoopInv, buffer_index <= Len(buffer_sequence),
         NEW list, list = WithRoom(datagram_list),
         NEW bytes, bytes = BytesToFit(Last(list))
  PROVE  /\ bytes \in Nat \ {0}
         /\ offset_in_current_buffer + bytes <= buffer_sequence[buffer_index]
         /\ WithPart(Last(list), bytes) \in Datagram
         /\ Bytes(WithPart(Last(list), bytes)) = Bytes(Last(list)) + bytes
         /\ Bytes(WithPart(Last(list), bytes)) \in 1 .. PayloadBytesPerDatagram
         /\ HeaderOK(WithPart(Last(list), bytes), Len(list))
<1> DEFINE P == PayloadBytesPerDatagram
           last == Last(list)
           size == buffer_sequence[buffer_index]
           off == offset_in_current_buffer
           new == WithPart(last, bytes)
<1>1. /\ max_udp_datagram_size \in Nat /\ HeaderSize = 24
      /\ P = max_udp_datagram_size - HeaderSize /\ P \in Nat \ {0}
  BY DEF BuilderInv, LoopInv, PayloadBytesPerDatagram, HeaderSize
<1>2. size \in Nat \ {0} /\ off \in Nat /\ off < size /\ buffer_index \in Nat
  BY DEF LoopInv, Position
<1>3. list \in Seq(Datagram) /\ Len(list) > 1 /\ Bytes(last) < P /\ HeaderOK(last, Len(list))
  BY RoundHasRoom
<1>4. last \in Datagram
  <2>1. list # << >>
    BY <1>3
  <2>2. QED BY <1>3, <2>1, FrontAndLast
<1>5. Bytes(last) \in Nat /\ SizeOf(last) = HeaderSize + Bytes(last)
  BY <1>4, SizeIsHeaderAndBytes
<1>6. /\ bytes = IF max_udp_datagram_size - SizeOf(last) <= size - off
                 THEN max_udp_datagram_size - SizeOf(last) ELSE size - off
  BY DEF BytesToFit
<1> HIDE DEF P, last, size, off
<1>7. bytes \in Nat \ {0} /\ off + bytes <= size /\ Bytes(last) + bytes \in 1 .. P
  BY <1>1, <1>2, <1>3, <1>5, <1>6
<1>8. /\ last.parts \in Seq(Parts) /\ last.len \in Nat /\ last.num \in Nat /\ last.type \in Nat
      /\ last = [ type |-> last.type, num |-> last.num, len |-> last.len, parts |-> last.parts ]
  BY <1>4 DEF Datagram
<1> DEFINE part == Part(buffer_index, off, bytes)
<1>9. part \in Parts /\ part.length = bytes
  BY <1>2, <1>7 DEF Part, Parts
<1>10. new = [ type |-> last.type, num |-> last.num, len |-> AsUInt32(last.len + bytes),
               parts |-> Append(last.parts, part) ]
  <2>1. new = [last EXCEPT !.parts = Append(last.parts, part), !.len = AsUInt32(last.len + bytes)]
    BY DEF WithPart, off
  <2> DEFINE e == AsUInt32(last.len + bytes)
             a == Append(last.parts, part)
  <2> HIDE DEF e, a, part, new
  <2>2. new = [last EXCEPT !.parts = a, !.len = e]
    BY <2>1 DEF e, a
  <2>3. new = [ type |-> last.type, num |-> last.num, len |-> e, parts |-> a ]
    BY <1>8, <2>2
  <2>4. QED BY <2>3 DEF e, a
<1> HIDE DEF part, new
<1>11. new \in Datagram
  <2>1. AsUInt32(last.len + bytes) \in Nat
    BY <1>7, <1>8, AsUInt32IsNat
  <2>2. Append(last.parts, part) \in Seq(Parts)
    BY <1>8, <1>9
  <2>3. QED BY <1>8, <1>10, <2>1, <2>2 DEF Datagram
<1>12. Bytes(new) = Bytes(last) + bytes
  <2>1. Sum(Lengths(Append(last.parts, part))) = Sum(Lengths(last.parts)) + part.length
    BY <1>8, <1>9, PartAddsItsLength
  <2>2. new.parts = Append(last.parts, part)
    BY <1>10
  <2>3. QED BY <1>9, <2>1, <2>2 DEF Bytes
<1>13. HeaderOK(new, Len(list))
  <2>1. new.num = AsUInt32(Len(list) - 2)
    BY <1>3, <1>10 DEF HeaderOK
  <2>2. ASSUME Sum(buffer_sequence) <= UINT32_MAX
        PROVE  new.len = Bytes(new)
    <3>1. last.len = Bytes(last)
      BY <1>3, <2>2 DEF HeaderOK
    <3>2. new.len = AsUInt32(Bytes(last) + bytes)
      BY <1>10, <3>1
    <3>3. Sum(buffer_sequence) > P /\ Sum(buffer_sequence) \in Nat
      BY SumIsNat DEF LoopInv, BuilderInv, P
    <3>4. Bytes(last) + bytes <= UINT32_MAX /\ Bytes(last) + bytes \in Nat
      BY <1>1, <1>5, <1>7, <2>2, <3>3, UInt32Assumption
    <3>5. QED BY <1>12, <3>2, <3>4, AsUInt32IsNat
  <2>3. QED BY <2>1, <2>2 DEF HeaderOK
<1>14. QED BY <1>7, <1>11, <1>12, <1>13 DEF P, last, size, off, new

(* Where the loop is afterwards.                                           *)
LEMMA RoundTakesBytes ==
  ASSUME BuilderInv, LoopInv, buffer_index <= Len(buffer_sequence),
         NEW bytes \in Nat \ {0},
         offset_in_current_buffer + bytes <= buffer_sequence[buffer_index],
         UNCHANGED buffer_sequence,
         \/ /\ offset_in_current_buffer + bytes >= buffer_sequence[buffer_index]
            /\ buffer_index' = buffer_index + 1
            /\ offset_in_current_buffer' = 0
         \/ /\ offset_in_current_buffer + bytes < buffer_sequence[buffer_index]
            /\ offset_in_current_buffer' = offset_in_current_buffer + bytes
            /\ UNCHANGED buffer_index
  PROVE  Position' /\ Taken' = Taken + bytes
<1> DEFINE size == buffer_sequence[buffer_index]
           off == offset_in_current_buffer
           first == SubSeq(buffer_sequence, 1, buffer_index - 1)
<1>1. /\ buffer_sequence \in Seq(Nat \ {0}) /\ buffer_index \in 1 .. Len(buffer_sequence)
      /\ off \in Nat /\ Len(buffer_sequence) \in Nat
  BY DEF LoopInv, Position
<1>2. /\ first \in Seq(Nat \ {0}) /\ size \in Nat \ {0}
      /\ SubSeq(buffer_sequence, 1, buffer_index) = Append(first, size)
  BY <1>1, FirstElements
<1>3. Taken = Sum(first) + off /\ Sum(first) \in Nat
  <2>1. first \in Seq(Nat)
    BY <1>2
  <2>2. QED BY <2>1, SumIsNat DEF Taken
<1>4. Sum(SubSeq(buffer_sequence, 1, buffer_index)) = Sum(first) + size
  BY <1>2, SumOfAppend
<1>5. CASE /\ off + bytes >= size
           /\ buffer_index' = buffer_index + 1
           /\ offset_in_current_buffer' = 0
  <2>1. off + bytes = size
    <3>1. off \in Nat /\ size \in Nat /\ off + bytes <= size /\ off + bytes >= size
      BY <1>1, <1>2, <1>5
    <3> HIDE DEF size, off, first
    <3>2. QED BY <3>1
  <2>2. Position'
    <3>1. \A i \in 1 .. Len(buffer_sequence) : 0 < buffer_sequence[i]
      BY <1>1
    <3> HIDE DEF size, off, first
    <3>2. buffer_index' \in 1 .. Len(buffer_sequence) + 1 /\ buffer_index' \in Nat \ {0}
      BY <1>1, <1>5
    <3>3. buffer_index' <= Len(buffer_sequence) => 0 < buffer_sequence[buffer_index']
      BY <1>1, <3>1, <3>2
    <3>4. QED BY <1>5, <3>2, <3>3 DEF Position
  <2>3. (buffer_index + 1) - 1 = buffer_index
    BY <1>1
  <2>4. Taken' = Sum(SubSeq(buffer_sequence, 1, buffer_index)) + 0
    BY <1>5, <2>3 DEF Taken
  <2>5. off \in Nat /\ size \in Nat
    BY <1>1, <1>2
  <2> HIDE DEF size, off, first
  <2>6. QED BY <1>3, <1>4, <2>1, <2>2, <2>4, <2>5
<1>6. CASE /\ off + bytes < size
           /\ offset_in_current_buffer' = off + bytes
           /\ UNCHANGED buffer_index
  <2>1. Position'
    BY <1>1, <1>6 DEF Position
  <2>2. Taken' = Sum(first) + (off + bytes)
    BY <1>6 DEF Taken
  <2> HIDE DEF size, off, first
  <2>3. QED BY <1>1, <1>3, <2>1, <2>2
<1>7. QED BY <1>5, <1>6

(* A round of the loop keeps the invariant.                                *)
LEMMA FillDatagramInv ==
  ASSUME BuilderInv, LoopInv, FillDatagram
  PROVE  BuilderInv'
<1> DEFINE list == WithRoom(datagram_list)
           bytes == BytesToFit(Last(list))
           new == WithPart(Last(list), bytes)
           n == Len(list)
           P == PayloadBytesPerDatagram
<1>1. /\ pc = "loop" /\ pc' = "loop" /\ buffer_index <= Len(buffer_sequence)
      /\ UNCHANGED << buffer_sequence, max_udp_datagram_size >>
      /\ datagram_list' = Append(Front(list), new)
      /\ \/ /\ offset_in_current_buffer + bytes >= buffer_sequence[buffer_index]
            /\ buffer_index' = buffer_index + 1
            /\ offset_in_current_buffer' = 0
         \/ /\ offset_in_current_buffer + bytes < buffer_sequence[buffer_index]
            /\ offset_in_current_buffer' = offset_in_current_buffer + bytes
            /\ UNCHANGED buffer_index
  BY DEF FillDatagram
<1>2. /\ list \in Seq(Datagram) /\ n > 1 /\ list[1] = datagram_list[1]
      /\ \A i \in 2 .. n - 1 : HeaderOK(list[i], i) /\ Bytes(list[i]) = P
      /\ Sum(FragmentBytes(Front(list))) + Bytes(Last(list)) = Taken
  BY RoundHasRoom
<1>3. /\ bytes \in Nat \ {0}
      /\ offset_in_current_buffer + bytes <= buffer_sequence[buffer_index]
      /\ new \in Datagram
      /\ Bytes(new) = Bytes(Last(list)) + bytes
      /\ Bytes(new) \in 1 .. P
      /\ HeaderOK(new, n)
  BY <1>1, RoundAddsBytes
<1> HIDE DEF list, bytes, new, n, P
<1>4. Position' /\ Taken' = Taken + bytes
  BY <1>1, <1>3, RoundTakesBytes
<1>5. /\ Front(list) \in Seq(Datagram) /\ Len(Front(list)) = n - 1 /\ n \in Nat \ {0}
      /\ Last(list) \in Datagram
      /\ \A i \in 1 .. n - 1 : Front(list)[i] = list[i]
  <2>1. list # << >>
    BY <1>2 DEF n
  <2>2. QED BY <1>2, <2>1, FrontAndLast DEF n
<1>6. /\ datagram_list' \in Seq(Datagram) /\ datagram_list' # << >> /\ Len(datagram_list') = n
      /\ datagram_list'[1] = datagram_list[1]
      /\ datagram_list'[n] = new
      /\ \A i \in 2 .. n - 1 : datagram_list'[i] = list[i]
  <2>1. Append(Front(list), new) \in Seq(Datagram) /\ Len(Append(Front(list), new)) = (n - 1) + 1
    BY <1>3, <1>5
  <2>2. Append(Front(list), new)[(n - 1) + 1] = new
    BY <1>5
  <2>3. \A i \in 1 .. n - 1 : Append(Front(list), new)[i] = list[i]
    BY <1>5
  <2>4. (n - 1) + 1 = n /\ n > 1
    BY <1>2, <1>5
  <2>5. QED BY <1>1, <1>2, <1>5, <2>1, <2>2, <2>3, <2>4
<1>7. Sum(FragmentBytes(datagram_list')) = Taken + bytes
  <2>1. Front(list) # << >>
    BY <1>2, <1>5
  <2>2. Sum(FragmentBytes(Append(Front(list), new))) = Sum(FragmentBytes(Front(list))) + Bytes(new)
    BY <1>3, <1>5, <2>1, ListGetsBytes
  <2>3. Sum(FragmentBytes(Front(list))) \in Nat /\ Bytes(Last(list)) \in Nat
    BY <1>5, <2>1, FragmentBytesAreNumbers, SumIsNat, SizeIsHeaderAndBytes
  <2>4. QED BY <1>1, <1>2, <1>3, <2>2, <2>3
<1>8. FragmentsOK(datagram_list)'
  <2>1. \A i \in 2 .. n : /\ HeaderOK(datagram_list'[i], i)
                          /\ Bytes(datagram_list'[i]) \in 1 .. P
                          /\ i < n => Bytes(datagram_list'[i]) = P
    <3> SUFFICES ASSUME NEW i \in 2 .. n
                 PROVE  /\ HeaderOK(datagram_list'[i], i)
                        /\ Bytes(datagram_list'[i]) \in 1 .. P
                        /\ i < n => Bytes(datagram_list'[i]) = P
      OBVIOUS
    <3>1. CASE i = n
      BY <1>3, <1>6, <3>1
    <3>2. CASE i # n
      <4>1. P \in Nat \ {0}
        BY DEF P, PayloadBytesPerDatagram, LoopInv, BuilderInv, HeaderSize
      <4>2. i \in 2 .. n - 1
        BY <1>5, <3>2
      <4>3. QED BY <1>2, <1>6, <4>1, <4>2
    <3>3. QED BY <3>1, <3>2
  <2>2. PayloadBytesPerDatagram' = P
    BY <1>1 DEF PayloadBytesPerDatagram, P
  <2>3. \A d, i : HeaderOK(d, i) => HeaderOK(d, i)'
    BY <1>1 DEF HeaderOK
  <2>4. QED BY <1>1, <1>6, <2>1, <2>2, <2>3 DEF FragmentsOK, HeaderOK
<1>9. InfoOK(datagram_list[1])'
  <2>1. PayloadBytesPerDatagram' = PayloadBytesPerDatagram
    BY <1>1 DEF PayloadBytesPerDatagram
  <2>2. InfoOK(datagram_list[1])
    BY DEF LoopInv
  <2>3. QED BY <1>1, <1>6, <2>1, <2>2 DEF InfoOK, NeededFragmentCount
<1>10. LoopInv'
  <2>1. PayloadBytesPerDatagram' = PayloadBytesPerDatagram
    BY <1>1 DEF PayloadBytesPerDatagram
  <2>2. /\ buffer_sequence \in Seq(Nat \ {0})
        /\ max_udp_datagram_size > HeaderSize
        /\ Sum(buffer_sequence) > PayloadBytesPerDatagram
    BY DEF LoopInv
  <2>3. QED BY <1>1, <1>4, <1>6, <1>7, <1>8, <1>9, <2>1, <2>2 DEF LoopInv
<1>11. QED BY <1>1, <1>6, <1>10 DEF BuilderInv

(* What the first step hands over to the loop.                             *)
LEMMA LoopStartsRight ==
  ASSUME BuilderInv, pc = "start", max_udp_datagram_size > HeaderSize,
         buffer_sequence' = NonEmpty(buffer_sequence),
         Sum(buffer_sequence') + HeaderSize > max_udp_datagram_size,
         create_fragmented_datagram_list(buffer_sequence'),
         UNCHANGED << max_udp_datagram_size, buffer_index, offset_in_current_buffer >>
  PROVE  datagram_list' \in Seq(Datagram) /\ LoopInv'
<1> DEFINE s == buffer_sequence'
           P == PayloadBytesPerDatagram
           info == [ type  |-> datagram_type_fragmented_message_info,
                     num   |-> NeededFragmentCount(AsUInt32(Sum(s))),
                     len   |-> AsUInt32(Sum(s)),
                     parts |-> << >> ]
<1>1. /\ max_udp_datagram_size \in Nat /\ buffer_sequence \in Seq(Nat)
      /\ P = max_udp_datagram_size - HeaderSize /\ P \in Nat \ {0} /\ HeaderSize = 24
      /\ P' = P /\ buffer_index' = 1 /\ offset_in_current_buffer' = 0
  BY DEF BuilderInv, PayloadBytesPerDatagram, HeaderSize
<1>2. s \in Seq(Nat \ {0}) /\ s \in Seq(Nat)
  <2>1. s \in Seq(Nat \ {0})
    BY <1>1, NonEmptyHaveSizes
  <2> HIDE DEF s
  <2>2. s \in Seq(Nat)
    BY <2>1
  <2>3. QED BY <2>1, <2>2
<1>3. datagram_list' = << info >> /\ pc' = "loop"
  BY DEF create_fragmented_datagram_list
<1>4. Sum(s) \in Nat /\ Sum(s) > P
  <2>1. Sum(s) \in Nat
    BY <1>2, SumIsNat
  <2>2. Sum(s) + HeaderSize > max_udp_datagram_size
    OBVIOUS
  <2> HIDE DEF s, P
  <2>3. QED BY <1>1, <2>1, <2>2
<1>5. info \in Datagram
  <2>1. AsUInt32(Sum(s)) \in Nat
    BY <1>4, AsUInt32IsNat
  <2>2. AsUInt32(AsUInt32(Sum(s)) + (P - 1)) \in Nat
    <3>1. AsUInt32(Sum(s)) + (P - 1) \in Nat
      BY <1>1, <2>1
    <3>2. QED BY <3>1, AsUInt32IsNat
  <2>3. NeededFragmentCount(AsUInt32(Sum(s))) \in Nat
    <3> DEFINE a == AsUInt32(AsUInt32(Sum(s)) + (P - 1))
    <3>1. NeededFragmentCount(AsUInt32(Sum(s))) = a \div P
      BY DEF NeededFragmentCount
    <3>2. a \in Nat
      BY <2>2
    <3> HIDE DEF a, P
    <3>3. a \div P \in Nat
      BY <1>1, <3>2
    <3>4. QED BY <3>1, <3>3
  <2> HIDE DEF s
  <2>4. << >> \in Seq(Parts)
    OBVIOUS
  <2>5. QED BY <2>1, <2>3, <2>4 DEF Datagram, datagram_type_fragmented_message_info
<1>6. /\ info.type = datagram_type_fragmented_message_info
      /\ info.num = NeededFragmentCount(AsUInt32(Sum(s)))
      /\ info.len = AsUInt32(Sum(s))
      /\ info.parts = << >>
  OBVIOUS
<1> HIDE DEF info
<1>7. datagram_list' \in Seq(Datagram) /\ Len(datagram_list') = 1 /\ datagram_list'[1] = info
  BY <1>3, <1>5
<1>8. FragmentsOK(datagram_list)'
  <2>1. \A i \in 2 .. Len(datagram_list') : FALSE
    BY <1>7
  <2>2. QED BY <2>1 DEF FragmentsOK
<1>14. InfoOK(datagram_list[1])'
  <2>1. NeededFragmentCount(AsUInt32(Sum(s))) = NeededFragmentCount(AsUInt32(Sum(buffer_sequence)))'
    BY <1>1 DEF NeededFragmentCount
  <2>2. QED BY <1>6, <1>7, <2>1 DEF InfoOK
<1>9. Sum(FragmentBytes(datagram_list')) = 0
  <2>1. FragmentBytes(datagram_list') = << >>
    <3>1. 1 .. Len(datagram_list') - 1 = {}
      BY <1>7
    <3>2. FragmentBytes(datagram_list') = [i \in {} |-> Bytes(datagram_list'[i + 1])]
      BY <3>1 DEF FragmentBytes
    <3>3. QED BY <3>2
  <2>2. QED BY <2>1, SumOfNothing
<1>10. Taken' = 0
  <2>1. SubSeq(s, 1, 0) = << >>
    BY <1>2, FirstElements
  <2>2. Taken' = Sum(SubSeq(s, 1, 1 - 1)) + 0
    BY <1>1 DEF Taken
  <2>3. 1 - 1 = 0
    OBVIOUS
  <2>4. Sum(SubSeq(s, 1, 1 - 1)) = 0
    BY <2>1, <2>3, SumOfNothing, Zenon
  <2>5. QED BY <2>2, <2>4
<1>11. Position'
  <2>1. s # << >>
    BY <1>1, <1>4, SumOfNothing
  <2>2. Len(s) \in Nat \ {0} /\ 1 \in 1 .. Len(s) /\ s[1] \in Nat \ {0}
    BY <1>2, <2>1
  <2>3. QED BY <1>1, <2>2 DEF Position
<1>12. LoopInv'
  <2>1. datagram_list' # << >> /\ (max_udp_datagram_size > HeaderSize)'
    <3>1. datagram_list' # << >>
      BY <1>3
    <3>2. (max_udp_datagram_size > HeaderSize)'
      BY DEF HeaderSize
    <3>3. QED BY <3>1, <3>2
  <2>2. (Sum(buffer_sequence) > PayloadBytesPerDatagram)'
    BY <1>1, <1>4
  <2>3. (Sum(FragmentBytes(datagram_list)) = Taken)'
    BY <1>9, <1>10
  <2>4. (buffer_sequence \in Seq(Nat \ {0}))'
    BY <1>2
  <2>5. QED BY <1>8, <1>11, <1>14, <2>1, <2>2, <2>3, <2>4, Zenon DEF LoopInv
<1>13. QED BY <1>7, <1>12

(* The first step, whichever way it goes, establishes it.                  *)
LEMMA CreateDatagramListInv ==
  ASSUME BuilderInv, create_datagram_list
  PROVE  BuilderInv'
<1>1. /\ pc = "start" /\ buffer_sequence \in Seq(Nat) /\ max_udp_datagram_size \in Nat
      /\ datagram_list = << >> /\ buffer_index = 1 /\ offset_in_current_buffer = 0
      /\ UNCHANGED << max_udp_datagram_size, buffer_index, offset_in_current_buffer >>
  BY DEF BuilderInv, create_datagram_list
<1>2. CASE Refuse
  BY <1>1, <1>2 DEF Refuse, BuilderInv
<1>3. ASSUME max_udp_datagram_size > HeaderSize, buffer_sequence' = NonEmpty(buffer_sequence)
      PROVE  buffer_sequence' \in Seq(Nat)
  <2>1. buffer_sequence' \in Seq(Nat \ {0})
    BY <1>1, <1>3, NonEmptyHaveSizes
  <2>2. QED BY <2>1
<1>4. CASE /\ max_udp_datagram_size > HeaderSize
           /\ buffer_sequence' = NonEmpty(buffer_sequence)
           /\ Sum(buffer_sequence') + HeaderSize <= max_udp_datagram_size
           /\ create_non_fragmented_datagram(buffer_sequence')
  <2> DEFINE s == buffer_sequence'
             d == [ type  |-> datagram_type_non_fragmented_message,
                    num   |-> 1,
                    len   |-> AsUInt32(Sum(s)),
                    parts |-> Whole(s) ]
  <2>1. pc' = "done" /\ datagram_list' = << d >>
    BY <1>4 DEF create_non_fragmented_datagram
  <2>2. s \in Seq(Nat)
    BY <1>3, <1>4
  <2>3. Whole(s) \in Seq(Parts) /\ AsUInt32(Sum(s)) \in Nat
    BY <2>2, WholeBuffers, SumIsNat, AsUInt32IsNat
  <2>4. Single'
    BY <1>1, <1>4, <2>1 DEF Single
  <2>5. d \in Datagram
    BY <2>3 DEF Datagram, datagram_type_non_fragmented_message
  <2> HIDE DEF d
  <2>6. datagram_list' \in Seq(Datagram)
    BY <2>1, <2>5
  <2>7. QED BY <1>1, <2>1, <2>2, <2>4, <2>6 DEF BuilderInv
<1>5. CASE /\ max_udp_datagram_size > HeaderSize
           /\ buffer_sequence' = NonEmpty(buffer_sequence)
           /\ Sum(buffer_sequence') + HeaderSize > max_udp_datagram_size
           /\ create_fragmented_datagram_list(buffer_sequence')
  <2>1. datagram_list' \in Seq(Datagram) /\ LoopInv'
    BY <1>1, <1>5, LoopStartsRight
  <2>2. pc' = "loop"
    BY <1>5 DEF create_fragmented_datagram_list
  <2>3. QED BY <1>1, <1>3, <1>5, <2>1, <2>2 DEF BuilderInv
<1>6. QED BY <1>2, <1>4, <1>5 DEF create_datagram_list

(* Every step keeps it.                                                    *)
LEMMA BuilderInvNext == BuilderInv /\ [Next]_vars => BuilderInv'
<1> SUFFICES ASSUME BuilderInv, [Next]_vars
             PROVE  BuilderInv'
  OBVIOUS
<1>1. CASE create_datagram_list
  BY <1>1, CreateDatagramListInv
<1>2. CASE FillDatagram
  <2>1. LoopInv
    BY <1>2 DEF BuilderInv, FillDatagram
  <2>2. QED BY <1>2, <2>1, FillDatagramInv
<1>3. CASE LeaveLoop
  <2>1. /\ pc = "loop" /\ pc' = "done" /\ buffer_index > Len(buffer_sequence)
        /\ UNCHANGED << buffer_sequence, max_udp_datagram_size, datagram_list,
                        buffer_index, offset_in_current_buffer >>
    BY <1>3 DEF LeaveLoop
  <2>2. LoopInv
    BY <2>1 DEF BuilderInv
  <2>3. buffer_index = Len(buffer_sequence) + 1
    BY <2>1, <2>2 DEF LoopInv, Position
  <2>4. LoopInv'
    BY <2>1, <2>2 DEF LoopInv, Position, InfoOK, FragmentsOK, HeaderOK, Taken,
                      NeededFragmentCount, PayloadBytesPerDatagram
  <2>5. QED BY <2>1, <2>3, <2>4 DEF BuilderInv
<1>4. CASE UNCHANGED vars
  BY <1>4 DEF vars, BuilderInv, LoopInv, Single, Position, InfoOK, FragmentsOK, HeaderOK,
              Taken, NeededFragmentCount, PayloadBytesPerDatagram
<1>5. QED BY <1>1, <1>2, <1>3, <1>4 DEF Next

(* So it always holds.                                                     *)
LEMMA BuilderInvariantHolds == Spec => []BuilderInv
BY BuilderInvInit, BuilderInvNext, PTL DEF Spec

-----------------------------------------------------------------------------
(* The size of the datagrams.                                              *)

(* The fragments are what is behind the info.                              *)
LEMMA FragmentsFollowTheInfo ==
  ASSUME BuilderInv, datagram_list # << >>
  PROVE  /\ Fragments \in Seq(Datagram)
         /\ Len(datagram_list) \in Nat \ {0}
         /\ Len(Fragments) = Len(datagram_list) - 1
         /\ DOMAIN Fragments = 1 .. Len(datagram_list) - 1
         /\ \A i \in 1 .. Len(datagram_list) - 1 : Fragments[i] = datagram_list[i + 1]
BY DEF BuilderInv, Fragments

(* No datagram is larger than max_udp_datagram_size_ allows, and every     *)
(* fragment but the last is as large as it allows: the loop never starts a *)
(* datagram before the one before it is full.                              *)
THEOREM DatagramSizes == Spec => []DatagramsAreAsLargeAsAllowed
<1>1. BuilderInv => DatagramsAreAsLargeAsAllowed
  <2> SUFFICES ASSUME BuilderInv
               PROVE  DatagramsAreAsLargeAsAllowed
    OBVIOUS
  <2> DEFINE max == max_udp_datagram_size
             n == Len(datagram_list)
  <2>1. CASE datagram_list = << >>
    BY <2>1 DEF DatagramsAreAsLargeAsAllowed, Fragments
  <2>2. CASE Single
    <3> DEFINE d == [ type  |-> datagram_type_non_fragmented_message,
                      num   |-> 1,
                      len   |-> AsUInt32(Sum(buffer_sequence)),
                      parts |-> Whole(buffer_sequence) ]
    <3>1. datagram_list = << d >> /\ Sum(buffer_sequence) + HeaderSize <= max
      BY <2>2 DEF Single
    <3>2. buffer_sequence \in Seq(Nat) /\ datagram_list \in Seq(Datagram)
      BY DEF BuilderInv
    <3>3. d.parts = Whole(buffer_sequence)
      OBVIOUS
    <3> HIDE DEF d
    <3>4. d \in Datagram
      BY <3>1, <3>2
    <3>5. SizeOf(d) = HeaderSize + Sum(buffer_sequence)
      BY <3>2, <3>3, <3>4, WholeBuffers, SizeIsHeaderAndBytes DEF Bytes
    <3>6. SizeOf(d) <= max
      BY <3>1, <3>2, <3>5, SumIsNat DEF HeaderSize
    <3>7. n = 1 /\ DOMAIN datagram_list = {1} /\ datagram_list[1] = d /\ datagram_list # << >>
      BY <3>1
    <3>8. Len(Fragments) = 0 /\ DOMAIN Fragments = 1 .. 0
      BY <3>7, FragmentsFollowTheInfo
    <3>9. \A i \in DOMAIN Fragments : FALSE
      BY <3>8
    <3>10. QED BY <3>6, <3>7, <3>9 DEF DatagramsAreAsLargeAsAllowed
  <2>3. CASE LoopInv
    <3>1. /\ datagram_list \in Seq(Datagram) /\ datagram_list # << >> /\ n \in Nat \ {0}
          /\ DOMAIN datagram_list = 1 .. n
          /\ max \in Nat /\ max > HeaderSize /\ HeaderSize = 24
          /\ PayloadBytesPerDatagram = max - HeaderSize
      BY <2>3 DEF BuilderInv, LoopInv, HeaderSize, PayloadBytesPerDatagram
    <3>2. \A i \in 1 .. n : /\ SizeOf(datagram_list[i]) = HeaderSize + Bytes(datagram_list[i])
                            /\ Bytes(datagram_list[i]) \in Nat
      <4>1. \A i \in 1 .. n : datagram_list[i] \in Datagram
        BY <3>1
      <4>2. QED BY <4>1, SizeIsHeaderAndBytes
    <3>3. Bytes(datagram_list[1]) = 0
      <4>1. datagram_list[1].parts = << >> /\ Lengths(<< >>) = << >>
        BY <2>3 DEF LoopInv, InfoOK, Lengths
      <4>2. QED BY <4>1, SumOfNothing DEF Bytes
    <3>4. \A i \in 2 .. n : /\ Bytes(datagram_list[i]) \in 1 .. PayloadBytesPerDatagram
                            /\ i < n => Bytes(datagram_list[i]) = PayloadBytesPerDatagram
      BY <2>3 DEF LoopInv, FragmentsOK
    <3>5. \A i \in 1 .. n : SizeOf(datagram_list[i]) <= max
      <4> SUFFICES ASSUME NEW i \in 1 .. n
                   PROVE  SizeOf(datagram_list[i]) <= max
        OBVIOUS
      <4>1. CASE i = 1
        BY <3>1, <3>2, <3>3, <4>1
      <4>2. CASE i # 1
        <5>1. i \in 2 .. n
          BY <3>1, <4>2
        <5>2. QED BY <3>1, <3>2, <3>4, <5>1
      <4>3. QED BY <4>1, <4>2
    <3>6. ASSUME NEW i \in DOMAIN Fragments, i < Len(Fragments)
          PROVE  SizeOf(Fragments[i]) = max
      <4>1. /\ Fragments[i] = datagram_list[i + 1] /\ i \in 1 .. n - 1 /\ i < n - 1
        BY <3>1, <3>6, FragmentsFollowTheInfo
      <4>2. i + 1 \in 2 .. n /\ i + 1 \in 1 .. n /\ i + 1 < n
        BY <3>1, <4>1
      <4>3. SizeOf(datagram_list[i + 1]) = HeaderSize + PayloadBytesPerDatagram
        BY <3>2, <3>4, <4>2
      <4>4. QED BY <3>1, <4>1, <4>3
    <3>7. QED BY <3>1, <3>5, <3>6 DEF DatagramsAreAsLargeAsAllowed
  <2>4. QED BY <2>1, <2>2, <2>3 DEF BuilderInv
<1>2. QED BY <1>1, BuilderInvariantHolds, PTL

-----------------------------------------------------------------------------
(* What the info announces.                                                *)

(* Fragments that are all full but the last.                               *)
LEMMA SumOfFullFragments ==
  ASSUME NEW P \in Nat, NEW s \in Seq(Nat), s # << >>, \A i \in 1 .. Len(s) - 1 : s[i] = P
  PROVE  Sum(s) = (Len(s) - 1) * P + Last(s)
<1> DEFINE T == {l \in Seq({P}) : Sum(l) = Len(l) * P}
<1>1. << >> \in T
  <2>1. << >> \in Seq({P}) /\ Len(<< >>) = 0 /\ 0 * P = 0
    OBVIOUS
  <2>2. QED BY <2>1, SumOfNothing
<1>2. ASSUME NEW l \in Seq({P}), NEW x \in {P}, l \in T
      PROVE  Append(l, x) \in T
  <2>1. Sum(l) = Len(l) * P /\ Len(l) \in Nat /\ x = P
    BY <1>2
  <2>2. Append(l, x) \in Seq({P}) /\ Len(Append(l, x)) = Len(l) + 1
    OBVIOUS
  <2>3. Sum(Append(l, x)) = Sum(l) + x
    BY SumOfAppend
  <2>4. Len(l) * P + P = (Len(l) + 1) * P
    BY <2>1
  <2>5. QED BY <2>1, <2>2, <2>3, <2>4
<1> HIDE DEF T
<1>3. Seq({P}) \subseteq T
  BY <1>1, <1>2, SeqInduction
<1>4. /\ Front(s) \in Seq(Nat) /\ Len(Front(s)) = Len(s) - 1 /\ Len(s) \in Nat \ {0}
      /\ \A i \in 1 .. Len(s) - 1 : Front(s)[i] = s[i]
  BY FrontAndLast
<1>5. Front(s) \in Seq({P})
  <2> DEFINE n == Len(s) - 1
             front == Front(s)
  <2>1. n \in Nat /\ front = [i \in 1 .. n |-> front[i]]
    BY <1>4
  <2>2. front \in [1 .. n -> {P}]
    <3>1. \A i \in 1 .. n : front[i] = P
      BY <1>4
    <3> HIDE DEF front
    <3>2. QED BY <2>1, <3>1
  <2> HIDE DEF n, front
  <2>3. front \in Seq({P})
    BY <2>1, <2>2, IsASequence
  <2>4. QED BY <2>3 DEF front
<1>6. Sum(Front(s)) = (Len(s) - 1) * P
  BY <1>3, <1>4, <1>5 DEF T
<1>7. Sum(s) = Sum(Front(s)) + Last(s)
  BY SumOfFront
<1>8. QED BY <1>6, <1>7

(* The division that rounds up.                                            *)
LEMMA RoundedUp ==
  ASSUME NEW P \in Nat \ {0}, NEW m \in Nat \ {0}, NEW last \in 1 .. P,
         NEW total \in Nat, total = (m - 1) * P + last
  PROVE  (total + (P - 1)) \div P = m /\ m <= total
<1>1. PICK r \in Nat : r = last - 1 /\ r < P
  OBVIOUS
<1>2. total + (P - 1) = m * P + r
  <2>1. (m - 1) * P = m * P - P /\ m * P \in Nat
    OBVIOUS
  <2>2. QED BY <1>1, <2>1
<1>3. (m * P + r) \div P = m
  BY <1>1
<1>4. (m - 1) * P >= m - 1
  <2>1. m - 1 \in Nat /\ P - 1 \in Nat
    OBVIOUS
  <2>2. (m - 1) * (P - 1) \in Nat
    BY <2>1
  <2>3. (m - 1) * P = (m - 1) * (P - 1) + (m - 1)
    BY <2>1
  <2>4. QED BY <2>1, <2>2, <2>3
<1>5. (m - 1) * P \in Nat
  OBVIOUS
<1>6. QED BY <1>2, <1>3, <1>4, <1>5

(* The info's len, computed before the loop, is that of the fragments the  *)
(* loop makes, for every message below the width of the header's fields,   *)
(* and so is its num if rounding up does not overflow; and the fragments   *)
(* have consecutive numbers (create_fragmented_datagram_list).             *)
THEOREM InfoIsRight == Spec => []InfoAnnouncesTheFragments
<1>1. BuilderInv => InfoAnnouncesTheFragments
  <2> SUFFICES ASSUME BuilderInv, pc = "done", Len(datagram_list) > 1,
                      Sum(buffer_sequence) <= UINT32_MAX
               PROVE  /\ datagram_list[1].type = datagram_type_fragmented_message_info
                      /\ datagram_list[1].len = Sum([i \in DOMAIN Fragments |-> Fragments[i].len])
                      /\ FarFromTheLimit => datagram_list[1].num = Len(Fragments)
                      /\ \A i \in 2 .. Len(Fragments) : Fragments[i].num = Fragments[i - 1].num + 1
    BY DEF InfoAnnouncesTheFragments
  <2> DEFINE P == PayloadBytesPerDatagram
             total == Sum(buffer_sequence)
             m == Len(datagram_list) - 1
             F == FragmentBytes(datagram_list)
  <2>1. LoopInv /\ buffer_index = Len(buffer_sequence) + 1
    <3>1. ASSUME Single PROVE FALSE
      <4>1. PICK d : datagram_list = << d >>
        BY <3>1 DEF Single
      <4>2. Len(datagram_list) = 1
        BY <4>1
      <4>3. QED BY <4>2
    <3>2. QED BY <3>1 DEF BuilderInv
  <2>2. /\ datagram_list # << >> /\ m \in Nat \ {0} /\ m + 1 = Len(datagram_list)
        /\ DOMAIN Fragments = 1 .. m /\ Len(Fragments) = m
        /\ \A i \in 1 .. m : Fragments[i] = datagram_list[i + 1]
    <3>1. datagram_list # << >>
      BY <2>1 DEF LoopInv
    <3>2. QED BY <3>1, FragmentsFollowTheInfo
  <2>3. /\ P \in Nat \ {0} /\ total \in Nat /\ total > P /\ total <= UINT32_MAX
        /\ UINT32_MAX \in Nat
    BY <2>1, SumIsNat, UInt32Assumption
       DEF BuilderInv, LoopInv, PayloadBytesPerDatagram, HeaderSize
  <2>4. total = Sum(F)
    <3>1. buffer_sequence \in Seq(Nat \ {0}) /\ offset_in_current_buffer = 0
          /\ buffer_index - 1 = Len(buffer_sequence)
      BY <2>1 DEF LoopInv, Position
    <3>2. SubSeq(buffer_sequence, 1, buffer_index - 1) = buffer_sequence
      BY <3>1, FirstElements
    <3>3. Sum(SubSeq(buffer_sequence, 1, buffer_index - 1)) = total
      BY <3>2, Zenon
    <3>4. Taken = total
      <4> HIDE DEF total
      <4>1. QED BY <2>3, <3>1, <3>3 DEF Taken
    <3>5. QED BY <2>1, <3>4 DEF LoopInv
  <2>5. F \in Seq(Nat) /\ Len(F) = m /\ F = [i \in 1 .. m |-> Bytes(datagram_list[i + 1])]
    BY <2>2, FragmentBytesAreNumbers DEF BuilderInv, FragmentBytes
  <2>6. \A i \in 1 .. m : /\ HeaderOK(datagram_list[i + 1], i + 1)
                          /\ Bytes(datagram_list[i + 1]) \in 1 .. P
                          /\ i < m => Bytes(datagram_list[i + 1]) = P
    <3>1. \A j \in 2 .. m + 1 : /\ HeaderOK(datagram_list[j], j)
                                /\ Bytes(datagram_list[j]) \in 1 .. P
                                /\ j < m + 1 => Bytes(datagram_list[j]) = P
      BY <2>1, <2>2 DEF LoopInv, FragmentsOK
    <3>2. \A i \in 1 .. m : i + 1 \in 2 .. m + 1 /\ (i < m => i + 1 < m + 1)
      BY <2>2
    <3> HIDE DEF m, P
    <3>3. QED BY <3>1, <3>2
  <2>7. datagram_list[1].type = datagram_type_fragmented_message_info
    BY <2>1 DEF LoopInv, InfoOK
  <2> HIDE DEF P, total, m, F
  <2>8. Last(F) \in 1 .. P /\ total = (m - 1) * P + Last(F)
    <3>1. F # << >> /\ Last(F) = F[m] /\ m \in 1 .. m
      BY <2>2, <2>5 DEF Last
    <3>2. F[m] \in 1 .. P /\ \A i \in 1 .. m - 1 : F[i] = P
      BY <2>2, <2>5, <2>6
    <3>3. P \in Nat
      BY <2>3
    <3>4. Sum(F) = (Len(F) - 1) * P + Last(F)
      BY <2>5, <3>1, <3>2, <3>3, SumOfFullFragments
    <3>5. QED BY <2>4, <2>5, <3>1, <3>2, <3>4
  <2>9. (total + (P - 1)) \div P = m /\ m <= total
    BY <2>2, <2>3, <2>8, RoundedUp
  <2>10. \A i \in 2 .. Len(Fragments) : Fragments[i].num = Fragments[i - 1].num + 1
    <3>1. ASSUME NEW i \in 1 .. m
          PROVE  Fragments[i].num = i - 1
      <4>1. Fragments[i].num = AsUInt32((i + 1) - 2)
        BY <2>2, <2>6 DEF HeaderOK
      <4>2. (i + 1) - 2 = i - 1 /\ i - 1 \in Nat /\ i - 1 <= UINT32_MAX
        BY <2>2, <2>3, <2>9
      <4>3. AsUInt32(i - 1) = i - 1
        BY <4>2, AsUInt32IsNat
      <4>4. QED BY <4>1, <4>2, <4>3
    <3>2. \A i \in 2 .. m : i \in 1 .. m /\ i - 1 \in 1 .. m
      BY <2>2
    <3>3. QED BY <2>2, <3>1, <3>2
  <2>11. datagram_list[1].len = Sum([i \in DOMAIN Fragments |-> Fragments[i].len])
    <3>1. \A i \in 1 .. m : Fragments[i].len = Bytes(datagram_list[i + 1])
      BY <2>2, <2>3, <2>6 DEF HeaderOK, total
    <3>2. [i \in DOMAIN Fragments |-> Fragments[i].len] = F
      BY <2>2, <2>5, <3>1
    <3>3. datagram_list[1].len = AsUInt32(total)
      BY <2>1 DEF LoopInv, InfoOK, total
    <3>4. AsUInt32(total) = total
      BY <2>3, AsUInt32IsNat
    <3>5. QED BY <2>4, <3>2, <3>3, <3>4
  <2>12. ASSUME FarFromTheLimit
         PROVE  datagram_list[1].num = Len(Fragments)
    <3> DEFINE up == total + (P - 1)
    <3>1. datagram_list[1].num = AsUInt32(AsUInt32(total) + (P - 1)) \div P
      BY <2>1 DEF LoopInv, InfoOK, NeededFragmentCount, total, P
    <3>2. AsUInt32(total) = total
      BY <2>3, AsUInt32IsNat
    <3>3. datagram_list[1].num = AsUInt32(up) \div P
      BY <3>1, <3>2
    <3>4. up \in Nat /\ up <= UINT32_MAX
      BY <2>3, <2>12 DEF FarFromTheLimit, total, P
    <3>5. AsUInt32(up) = up
      BY <3>4, AsUInt32IsNat
    <3>6. QED BY <2>2, <2>9, <3>3, <3>5
  <2>13. QED BY <2>7, <2>10, <2>11, <2>12
<1>2. QED BY <1>1, BuilderInvariantHolds, PTL

-----------------------------------------------------------------------------
(* The payload: sequences put together.                                    *)

LEMMA Concatenation ==
  ASSUME NEW S, NEW a \in Seq(S), NEW b \in Seq(S), NEW c \in Seq(S)
  PROVE  /\ a \o b \in Seq(S) /\ Len(a \o b) = Len(a) + Len(b)
         /\ (a \o b) \o c = a \o (b \o c)
         /\ a \o << >> = a /\ << >> \o a = a
<1>1. /\ a \o b \in Seq(S) /\ Len(a \o b) = Len(a) + Len(b) /\ Len(a) \in Nat /\ Len(b) \in Nat
  OBVIOUS
<1>2. (a \o b) \o c = a \o (b \o c)
  OBVIOUS
<1>3. a \o << >> = a /\ << >> \o a = a
  OBVIOUS
<1>4. QED BY <1>1, <1>2, <1>3

(* The i-th element of a concatenation.                                    *)
LEMMA ElementsOfConcatenation ==
  ASSUME NEW S, NEW a \in Seq(S), NEW b \in Seq(S), NEW i \in 1 .. Len(a) + Len(b)
  PROVE  (a \o b)[i] = IF i <= Len(a) THEN a[i] ELSE b[i - Len(a)]
OBVIOUS

(* The recursive function behind FlattenSeq: f[k] is what the first k      *)
(* sequences are together.                                                 *)
IsFlatTable(f, ss, n) ==
  f = [i \in 1 .. n |-> IF i = 1 THEN ss[i] ELSE f[i - 1] \o ss[i]]

(* There is such a table for every n.                                      *)
LEMMA FlatTableExists ==
  ASSUME NEW ss, NEW n \in Nat
  PROVE  \E f : IsFlatTable(f, ss, n)
<1> DEFINE N == {k \in Nat : \E f : IsFlatTable(f, ss, k)}
<1>1. 0 \in N
  <2>1. IsFlatTable([i \in 1 .. 0 |-> << >>], ss, 0)
    <3>1. 1 .. 0 = {}
      OBVIOUS
    <3>2. QED BY <3>1 DEF IsFlatTable
  <2>2. QED BY <2>1
<1>2. ASSUME NEW k \in Nat, k \in N
      PROVE  k + 1 \in N
  <2>1. PICK f : IsFlatTable(f, ss, k)
    BY <1>2
  <2> DEFINE e == IF k = 0 THEN ss[1] ELSE f[k] \o ss[k + 1]
             g == [i \in 1 .. k + 1 |-> IF i = k + 1 THEN e ELSE f[i]]
  <2>2. ASSUME NEW i \in 1 .. k + 1
        PROVE  g[i] = IF i = 1 THEN ss[i] ELSE g[i - 1] \o ss[i]
    <3>1. CASE i = k + 1
      <4>1. g[i] = e
        BY <3>1
      <4>2. CASE i = 1
        BY <3>1, <4>1, <4>2
      <4>3. CASE i # 1
        <5>1. k # 0 /\ i - 1 = k /\ k \in 1 .. k + 1 /\ k # k + 1
          BY <3>1, <4>3
        <5>2. g[i - 1] = f[k]
          BY <5>1
        <5>3. e = f[k] \o ss[i]
          BY <3>1, <5>1
        <5> HIDE DEF g, e
        <5>4. QED BY <4>1, <4>3, <5>2, <5>3
      <4>4. QED BY <4>2, <4>3
    <3>2. CASE i # k + 1
      <4>1. i \in 1 .. k
        BY <3>2
      <4>2. f[i] = IF i = 1 THEN ss[i] ELSE f[i - 1] \o ss[i]
        BY <2>1, <4>1 DEF IsFlatTable
      <4>3. g[i] = f[i]
        BY <3>2
      <4>4. i # 1 => g[i - 1] = f[i - 1]
        <5>1. i # 1 => i - 1 \in 1 .. k + 1 /\ i - 1 # k + 1
          BY <4>1
        <5> HIDE DEF e
        <5>2. QED BY <5>1
      <4> HIDE DEF g, e
      <4>5. QED BY <4>2, <4>3, <4>4
    <3>3. QED BY <3>1, <3>2
  <2>3. IsFlatTable(g, ss, k + 1)
    <3>1. g = [i \in 1 .. k + 1 |-> g[i]]
      OBVIOUS
    <3> HIDE DEF g
    <3>2. QED BY <2>2, <3>1 DEF IsFlatTable
  <2> HIDE DEF g
  <2>4. QED BY <2>3
<1> HIDE DEF N
<1>3. Nat \subseteq N
  BY <1>1, <1>2, SetInduction
<1>4. QED BY <1>3 DEF N

(* FlattenSeq is what the table says.                                      *)
LEMMA FlatTable ==
  ASSUME NEW S, NEW ss \in Seq(S), ss # << >>
  PROVE  \E f : IsFlatTable(f, ss, Len(ss)) /\ FlattenSeq(ss) = f[Len(ss)]
<1> DEFINE f == CHOOSE f : IsFlatTable(f, ss, Len(ss))
<1>1. Len(ss) \in Nat /\ Len(ss) # 0
  OBVIOUS
<1>2. IsFlatTable(f, ss, Len(ss))
  BY <1>1, FlatTableExists
<1>3. FlattenSeq(ss) = (CHOOSE iter : iter = [i \in 1 .. Len(ss) |->
                          IF i = 1 THEN ss[i] ELSE iter[i - 1] \o ss[i]])[Len(ss)]
  BY <1>1 DEF FlattenSeq
<1>4. FlattenSeq(ss) = f[Len(ss)]
  BY <1>3 DEF IsFlatTable
<1> HIDE DEF f
<1>5. QED BY <1>2, <1>4

(* The tables of two sequences agree where the sequences do, and their     *)
(* entries are sequences.                                                  *)
LEMMA FlatTablesAgree ==
  ASSUME NEW f, NEW ss, NEW n \in Nat, IsFlatTable(f, ss, n),
         NEW g, NEW tt, NEW n2 \in Nat, IsFlatTable(g, tt, n2),
         NEW m \in Nat \ {0}, m <= n, m <= n2, \A i \in 1 .. m : ss[i] = tt[i]
  PROVE  f[m] = g[m]
<1> DEFINE N == {k \in Nat : k + 1 <= m => f[k + 1] = g[k + 1]}
<1>1. 0 \in N
  <2>1. 1 \in 1 .. n /\ 1 \in 1 .. n2 /\ 1 \in 1 .. m
    OBVIOUS
  <2>2. f[1] = ss[1] /\ g[1] = tt[1]
    BY <2>1, Zenon DEF IsFlatTable
  <2>3. f[0 + 1] = g[0 + 1]
    BY <2>1, <2>2
  <2>4. QED BY <2>3
<1>2. ASSUME NEW k \in Nat, k \in N
      PROVE  k + 1 \in N
  <2>1. SUFFICES ASSUME (k + 1) + 1 <= m PROVE f[(k + 1) + 1] = g[(k + 1) + 1]
    OBVIOUS
  <2> DEFINE j == (k + 1) + 1
  <2>2. j \in 1 .. n /\ j \in 1 .. n2 /\ j \in 1 .. m /\ j # 1 /\ j - 1 = k + 1
    BY <2>1
  <2>3. f[k + 1] = g[k + 1]
    BY <1>2, <2>1
  <2> HIDE DEF j
  <2>4. f[j] = f[k + 1] \o ss[j] /\ g[j] = g[k + 1] \o tt[j]
    <3>1. f[j] = f[j - 1] \o ss[j]
      BY <2>2, Zenon DEF IsFlatTable
    <3>2. g[j] = g[j - 1] \o tt[j]
      BY <2>2, Zenon DEF IsFlatTable
    <3>3. QED BY <2>2, <3>1, <3>2
  <2>5. QED BY <2>2, <2>3, <2>4 DEF j
<1> HIDE DEF N
<1>3. Nat \subseteq N
  BY <1>1, <1>2, SetInduction
<1>4. m - 1 \in Nat /\ (m - 1) + 1 = m
  OBVIOUS
<1>5. m - 1 \in N
  BY <1>3, <1>4
<1>6. QED BY <1>4, <1>5 DEF N

(* No sequences are together the empty one.                                *)
LEMMA FlatOfNothing == FlattenSeq(<< >>) = << >>
BY DEF FlattenSeq

(* One sequence more at the end.                                           *)
LEMMA FlatOfAppend ==
  ASSUME NEW S, NEW ss \in Seq(Seq(S)), NEW t \in Seq(S)
  PROVE  FlattenSeq(Append(ss, t)) = IF ss = << >> THEN t ELSE FlattenSeq(ss) \o t
<1> DEFINE l == Append(ss, t)
           n == Len(ss)
<1>1. /\ l \in Seq(Seq(S)) /\ Len(l) = n + 1 /\ n \in Nat /\ l[n + 1] = t /\ l # << >>
      /\ \A i \in 1 .. n : l[i] = ss[i]
      /\ ss = << >> <=> n = 0
  OBVIOUS
<1> HIDE DEF l
<1>2. PICK f : IsFlatTable(f, l, n + 1) /\ FlattenSeq(l) = f[n + 1]
  BY <1>1, FlatTable
<1>3. CASE ss = << >>
  <2>1. n = 0 /\ n + 1 = 1 /\ 1 \in 1 .. 1
    BY <1>1, <1>3
  <2>2. f[1] = l[1]
    BY <1>2, <2>1 DEF IsFlatTable
  <2>3. QED BY <1>1, <1>2, <1>3, <2>1, <2>2 DEF l
<1>4. CASE ss # << >>
  <2>1. PICK g : IsFlatTable(g, ss, n) /\ FlattenSeq(ss) = g[n]
    BY <1>4, FlatTable
  <2>2. n \in Nat \ {0} /\ n + 1 \in 1 .. n + 1 /\ n + 1 # 1 /\ (n + 1) - 1 = n
    BY <1>1, <1>4
  <2> HIDE DEF n
  <2>3. f[n + 1] = f[n] \o l[n + 1]
    <3>1. f[n + 1] = f[(n + 1) - 1] \o l[n + 1]
      BY <1>2, <2>2, Zenon DEF IsFlatTable
    <3>2. QED BY <2>2, <3>1
  <2>4. f[n] = g[n]
    <3>1. n + 1 \in Nat /\ n <= n + 1 /\ n <= n
      BY <2>2
    <3>2. QED BY <1>1, <1>2, <2>1, <2>2, <3>1, FlatTablesAgree
  <2>5. QED BY <1>1, <1>2, <1>4, <2>1, <2>3, <2>4 DEF l
<1>5. QED BY <1>3, <1>4

(* The same without the case distinction: what FlattenSeq returns is a     *)
(* sequence, and grows at its end.                                         *)
LEMMA FlatGrows ==
  ASSUME NEW S, NEW ss \in Seq(Seq(S)), NEW t \in Seq(S)
  PROVE  /\ FlattenSeq(ss) \in Seq(S)
         /\ FlattenSeq(Append(ss, t)) = FlattenSeq(ss) \o t
<1> DEFINE T == {l \in Seq(Seq(S)) : FlattenSeq(l) \in Seq(S)}
<1>1. << >> \in T
  <2>1. << >> \in Seq(Seq(S)) /\ << >> \in Seq(S)
    OBVIOUS
  <2>2. FlattenSeq(<< >>) \in Seq(S)
    BY <2>1, FlatOfNothing, Zenon
  <2>3. QED BY <2>1, <2>2, Zenon
<1>2. ASSUME NEW l \in Seq(Seq(S)), NEW x \in Seq(S), l \in T
      PROVE  Append(l, x) \in T
  <2>1. FlattenSeq(l) \in Seq(S) /\ Append(l, x) \in Seq(Seq(S))
    BY <1>2
  <2>2. FlattenSeq(l) \o x \in Seq(S)
    BY <2>1
  <2>3. FlattenSeq(Append(l, x)) = IF l = << >> THEN x ELSE FlattenSeq(l) \o x
    BY FlatOfAppend
  <2>4. QED BY <2>1, <2>2, <2>3
<1> HIDE DEF T
<1>3. Seq(Seq(S)) \subseteq T
  BY <1>1, <1>2, SeqInduction
<1>4. FlattenSeq(ss) \in Seq(S)
  BY <1>3 DEF T
<1>5. FlattenSeq(Append(ss, t)) = IF ss = << >> THEN t ELSE FlattenSeq(ss) \o t
  BY FlatOfAppend
<1>6. ss = << >> => FlattenSeq(ss) \o t = t
  <2>1. << >> \o t = t
    OBVIOUS
  <2>2. QED BY <2>1, FlatOfNothing
<1>7. QED BY <1>4, <1>5, <1>6

-----------------------------------------------------------------------------
(* The bytes of parts, of datagrams and of lists.                          *)

Byte == Nat \X Nat

(* A part has as many bytes as its length says, and two parts that touch   *)
(* have the bytes of one.                                                  *)
LEMMA BytesOfParts ==
  ASSUME NEW b \in Nat, NEW o \in Nat, NEW l1 \in Nat, NEW l2 \in Nat
  PROVE  /\ BytesOf(Part(b, o, l1)) \in Seq(Byte)
         /\ Len(BytesOf(Part(b, o, l1))) = l1
         /\ BytesOf(Part(b, o, 0)) = << >>
         /\ BytesOf(Part(b, o, l1)) \o BytesOf(Part(b, o + l1, l2)) = BytesOf(Part(b, o, l1 + l2))
<1>1. ASSUME NEW p \in Nat, NEW l \in Nat
      PROVE  /\ BytesOf(Part(b, p, l)) = [i \in 1 .. l |-> << b, p + i >>]
             /\ BytesOf(Part(b, p, l)) \in Seq(Byte)
             /\ Len(BytesOf(Part(b, p, l))) = l
  <2> DEFINE f == [i \in 1 .. l |-> << b, p + i >>]
  <2>1. BytesOf(Part(b, p, l)) = f
    BY DEF BytesOf, Part
  <2>2. \A i \in 1 .. l : << b, p + i >> \in Byte
    BY DEF Byte
  <2>3. f \in [1 .. l -> Byte]
    BY <2>2
  <2> HIDE DEF f
  <2>4. f \in Seq(Byte) /\ Len(f) = l
    BY <2>3, IsASequence
  <2>5. QED BY <2>1, <2>4 DEF f
<1>2. BytesOf(Part(b, o, 0)) = << >>
  <2>1. BytesOf(Part(b, o, 0)) = [i \in {} |-> << b, o + i >>]
    BY <1>1
  <2>2. QED BY <2>1
<1>3. BytesOf(Part(b, o, l1)) \o BytesOf(Part(b, o + l1, l2)) = BytesOf(Part(b, o, l1 + l2))
  <2> DEFINE f == BytesOf(Part(b, o, l1))
             g == BytesOf(Part(b, o + l1, l2))
             h == BytesOf(Part(b, o, l1 + l2))
  <2>1. o + l1 \in Nat /\ l1 + l2 \in Nat
    OBVIOUS
  <2>2. /\ f \in Seq(Byte) /\ Len(f) = l1 /\ \A i \in 1 .. l1 : f[i] = << b, o + i >>
        /\ g \in Seq(Byte) /\ Len(g) = l2 /\ \A i \in 1 .. l2 : g[i] = << b, (o + l1) + i >>
        /\ h \in Seq(Byte) /\ Len(h) = l1 + l2 /\ \A i \in 1 .. l1 + l2 : h[i] = << b, o + i >>
    <3>1. /\ f \in Seq(Byte) /\ Len(f) = l1 /\ f = [i \in 1 .. l1 |-> << b, o + i >>]
          /\ g \in Seq(Byte) /\ Len(g) = l2 /\ g = [i \in 1 .. l2 |-> << b, (o + l1) + i >>]
          /\ h \in Seq(Byte) /\ Len(h) = l1 + l2 /\ h = [i \in 1 .. l1 + l2 |-> << b, o + i >>]
      BY <1>1, <2>1, Zenon
    <3> HIDE DEF f, g, h
    <3>2. /\ \A i \in 1 .. l1 : f[i] = << b, o + i >>
          /\ \A i \in 1 .. l2 : g[i] = << b, (o + l1) + i >>
          /\ \A i \in 1 .. l1 + l2 : h[i] = << b, o + i >>
      BY <3>1, Zenon
    <3>3. QED BY <3>1, <3>2
  <2> HIDE DEF f, g, h
  <2>3. f \o g \in Seq(Byte) /\ Len(f \o g) = l1 + l2
    BY <2>2
  <2>4. \A i \in 1 .. l1 + l2 : (f \o g)[i] = h[i]
    <3> SUFFICES ASSUME NEW i \in 1 .. l1 + l2
                 PROVE  (f \o g)[i] = h[i]
      OBVIOUS
    <3>1. (f \o g)[i] = IF i <= l1 THEN f[i] ELSE g[i - l1]
      BY <2>2, Zenon, ElementsOfConcatenation
    <3>2. CASE i <= l1
      <4>1. i \in 1 .. l1
        BY <3>2
      <4>2. QED BY <2>2, <3>1, <3>2, <4>1, Zenon
    <3>3. CASE ~ (i <= l1)
      <4>1. i - l1 \in 1 .. l2 /\ (o + l1) + (i - l1) = o + i
        BY <3>3
      <4>2. g[i - l1] = << b, (o + l1) + (i - l1) >>
        BY <2>2, <4>1, Zenon
      <4>3. g[i - l1] = << b, o + i >>
        BY <4>1, <4>2, Zenon
      <4>4. QED BY <2>2, <3>1, <3>3, <4>3, Zenon
    <3>4. QED BY <3>2, <3>3, Zenon
  <2>5. f \o g = h
    <3> DEFINE k == f \o g
    <3>1. k \in Seq(Byte) /\ Len(k) = l1 + l2 /\ \A i \in 1 .. l1 + l2 : k[i] = h[i]
      BY <2>3, <2>4
    <3> HIDE DEF k
    <3>2. k = h
      BY <2>2, <3>1
    <3>3. QED BY <3>2 DEF k
  <2>6. QED BY <2>5 DEF f, g, h
<1>4. QED BY <1>1, <1>2, <1>3

(* The first bytes of a buffer, and more of them.                          *)
LEMMA FirstBytes ==
  ASSUME NEW b \in Nat, NEW l1 \in Nat, NEW l2 \in Nat
  PROVE  BytesOf(Part(b, 0, l1)) \o BytesOf(Part(b, l1, l2)) = BytesOf(Part(b, 0, l1 + l2))
<1>1. PICK o \in Nat : o = 0 /\ o + l1 = l1
  OBVIOUS
<1>2. BytesOf(Part(b, o, l1)) \o BytesOf(Part(b, o + l1, l2)) = BytesOf(Part(b, o, l1 + l2))
  BY BytesOfParts, ZenonT(30)
<1>3. QED BY <1>1, <1>2, Zenon

(* Where each element of a sequence is mapped to a sequence of bytes.      *)
LEMMA MappedSequence ==
  ASSUME NEW S, NEW T, NEW s \in Seq(S), NEW x \in S, NEW f \in [S -> T]
  PROVE  /\ [i \in DOMAIN s |-> f[s[i]]] \in Seq(T)
         /\ [i \in DOMAIN Append(s, x) |-> f[Append(s, x)[i]]]
              = Append([i \in DOMAIN s |-> f[s[i]]], f[x])
<1> DEFINE n == Len(s)
           l == Append(s, x)
           g == [i \in DOMAIN s |-> f[s[i]]]
<1>1. /\ n \in Nat /\ DOMAIN s = 1 .. n /\ \A i \in 1 .. n : s[i] \in S
      /\ DOMAIN l = 1 .. n + 1 /\ l[n + 1] = x /\ \A i \in 1 .. n : l[i] = s[i]
  OBVIOUS
<1> HIDE DEF n, l
<1>2. g \in [1 .. n -> T] /\ \A i \in 1 .. n : g[i] = f[s[i]]
  BY <1>1
<1> HIDE DEF g
<1>3. g \in Seq(T) /\ Len(g) = n
  BY <1>1, <1>2, IsASequence
<1>4. f[x] \in T
  OBVIOUS
<1>5. Append(g, f[x]) = [i \in 1 .. n + 1 |-> IF i = n + 1 THEN f[x] ELSE g[i]]
  BY <1>1, <1>3
<1>6. \A i \in 1 .. n + 1 : f[l[i]] = IF i = n + 1 THEN f[x] ELSE g[i]
  BY <1>1, <1>2
<1>7. [i \in DOMAIN l |-> f[l[i]]] = Append(g, f[x])
  BY <1>1, <1>5, <1>6
<1>8. QED BY <1>3, <1>7 DEF g, l

PayloadOfParts(parts) == FlattenSeq([i \in DOMAIN parts |-> BytesOf(parts[i])])

(* The payload of a datagram's parts grows at its end with each part.      *)
LEMMA PayloadGrows ==
  ASSUME NEW parts \in Seq(Parts), NEW part \in Parts
  PROVE  /\ PayloadOfParts(parts) \in Seq(Byte)
         /\ BytesOf(part) \in Seq(Byte)
         /\ PayloadOfParts(Append(parts, part)) = PayloadOfParts(parts) \o BytesOf(part)
<1> DEFINE f == [p \in Parts |-> BytesOf(p)]
           g == [i \in DOMAIN parts |-> f[parts[i]]]
           more == Append(parts, part)
<1>1. \A p \in Parts : BytesOf(p) \in Seq(Byte)
  <2> SUFFICES ASSUME NEW p \in Parts
               PROVE  BytesOf(p) \in Seq(Byte)
    OBVIOUS
  <2>1. /\ p = Part(p.buffer, p.offset, p.length)
        /\ p.buffer \in Nat /\ p.offset \in Nat /\ p.length \in Nat
    BY DEF Part, Parts
  <2>2. BytesOf(Part(p.buffer, p.offset, p.length)) \in Seq(Byte)
    BY <2>1, BytesOfParts
  <2>3. QED BY <2>1, <2>2, Zenon
<1>2. f \in [Parts -> Seq(Byte)] /\ \A p \in Parts : f[p] = BytesOf(p)
  BY <1>1
<1>3. /\ more \in Seq(Parts)
      /\ \A i \in DOMAIN parts : parts[i] \in Parts
      /\ \A i \in DOMAIN more : more[i] \in Parts
  <2>1. more \in Seq(Parts)
    OBVIOUS
  <2> HIDE DEF more
  <2>2. QED BY <2>1
<1> HIDE DEF f, more
<1>4. /\ [i \in DOMAIN parts |-> BytesOf(parts[i])] = g
      /\ [i \in DOMAIN more |-> BytesOf(more[i])] = [i \in DOMAIN more |-> f[more[i]]]
  BY <1>2, <1>3
<1>5. g \in Seq(Seq(Byte)) /\ [i \in DOMAIN more |-> f[more[i]]] = Append(g, f[part])
  <2>1. g \in Seq(Seq(Byte))
    <3>1. DOMAIN parts = 1 .. Len(parts) /\ Len(parts) \in Nat
      OBVIOUS
    <3>2. g \in [1 .. Len(parts) -> Seq(Byte)]
      BY <1>2, <1>3, <3>1
    <3> HIDE DEF g
    <3>3. QED BY <3>1, <3>2, IsASequence
  <2>2. [i \in DOMAIN Append(parts, part) |-> f[Append(parts, part)[i]]] = Append(g, f[part])
    BY <1>2, MappedSequence
  <2>3. QED BY <2>1, <2>2 DEF more
<1> HIDE DEF g
<1>6. f[part] = BytesOf(part) /\ f[part] \in Seq(Byte)
  BY <1>1, <1>2
<1>7. FlattenSeq(g) \in Seq(Byte) /\ FlattenSeq(Append(g, f[part])) = FlattenSeq(g) \o f[part]
  BY <1>5, <1>6, FlatGrows
<1>8. PayloadOfParts(parts) = FlattenSeq(g)
  BY <1>4, Zenon DEF PayloadOfParts
<1>9. PayloadOfParts(more) = FlattenSeq(Append(g, f[part]))
  BY <1>4, <1>5, Zenon DEF PayloadOfParts
<1>10. QED BY <1>6, <1>7, <1>8, <1>9, Zenon DEF more

(* No parts and no datagrams have no payload.                              *)
LEMMA NothingHasNoPayload ==
  /\ PayloadOfParts(<< >>) = << >>
  /\ PayloadOfList(<< >>) = << >>
<1>1. [i \in DOMAIN << >> |-> BytesOf(<< >>[i])] = << >>
  OBVIOUS
<1>2. [i \in DOMAIN << >> |-> Payload(<< >>[i])] = << >>
  OBVIOUS
<1>3. QED BY <1>1, <1>2, FlatOfNothing, Zenon DEF PayloadOfParts, PayloadOfList

(* The payload of a list grows at its end with each datagram.              *)
LEMMA PayloadOfListGrows ==
  ASSUME NEW list \in Seq(Datagram), NEW datagram \in Datagram
  PROVE  /\ PayloadOfList(list) \in Seq(Byte)
         /\ Payload(datagram) \in Seq(Byte)
         /\ PayloadOfList(Append(list, datagram)) = PayloadOfList(list) \o Payload(datagram)
<1> DEFINE f == [d \in Datagram |-> Payload(d)]
           g == [i \in DOMAIN list |-> f[list[i]]]
           more == Append(list, datagram)
<1>1. \A d \in Datagram : Payload(d) \in Seq(Byte)
  <2> SUFFICES ASSUME NEW d \in Datagram
               PROVE  Payload(d) \in Seq(Byte)
    OBVIOUS
  <2>1. d.parts \in Seq(Parts)
    BY DEF Datagram
  <2>2. Part(0, 0, 0) \in Parts
    BY DEF Part, Parts
  <2>3. PayloadOfParts(d.parts) \in Seq(Byte)
    BY <2>1, <2>2, PayloadGrows
  <2>4. QED BY <2>3 DEF Payload, PayloadOfParts
<1>2. f \in [Datagram -> Seq(Byte)] /\ \A d \in Datagram : f[d] = Payload(d)
  BY <1>1
<1>3. /\ more \in Seq(Datagram)
      /\ \A i \in DOMAIN list : list[i] \in Datagram
      /\ \A i \in DOMAIN more : more[i] \in Datagram
  <2>1. more \in Seq(Datagram)
    OBVIOUS
  <2> HIDE DEF more
  <2>2. QED BY <2>1
<1> HIDE DEF f, more
<1>4. /\ [i \in DOMAIN list |-> Payload(list[i])] = g
      /\ [i \in DOMAIN more |-> Payload(more[i])] = [i \in DOMAIN more |-> f[more[i]]]
  BY <1>2, <1>3
<1>5. g \in Seq(Seq(Byte)) /\ [i \in DOMAIN more |-> f[more[i]]] = Append(g, f[datagram])
  <2>1. g \in Seq(Seq(Byte))
    <3>1. DOMAIN list = 1 .. Len(list) /\ Len(list) \in Nat
      OBVIOUS
    <3>2. g \in [1 .. Len(list) -> Seq(Byte)]
      BY <1>2, <1>3, <3>1
    <3> HIDE DEF g
    <3>3. QED BY <3>1, <3>2, IsASequence
  <2>2. [i \in DOMAIN Append(list, datagram) |-> f[Append(list, datagram)[i]]] = Append(g, f[datagram])
    BY <1>2, MappedSequence
  <2>3. QED BY <2>1, <2>2 DEF more
<1> HIDE DEF g
<1>6. f[datagram] = Payload(datagram) /\ f[datagram] \in Seq(Byte)
  BY <1>1, <1>2
<1>7. /\ FlattenSeq(g) \in Seq(Byte)
      /\ FlattenSeq(Append(g, f[datagram])) = FlattenSeq(g) \o f[datagram]
  BY <1>5, <1>6, FlatGrows
<1>8. PayloadOfList(list) = FlattenSeq(g)
  BY <1>4, Zenon DEF PayloadOfList
<1>9. PayloadOfList(more) = FlattenSeq(Append(g, f[datagram]))
  BY <1>4, <1>5, Zenon DEF PayloadOfList
<1>10. QED BY <1>6, <1>7, <1>8, <1>9, Zenon DEF more

(* The bytes of each buffer, and of the first k together.                  *)
Buffers == [i \in DOMAIN buffer_sequence |-> BytesOf(Part(i, 0, buffer_sequence[i]))]

WholeBytes(k) == FlattenSeq(SubSeq(Buffers, 1, k))

(* From nothing to all bytes, a buffer at a time.                          *)
LEMMA WholeBytesGrow ==
  ASSUME buffer_sequence \in Seq(Nat)
  PROVE  /\ WholeBytes(0) = << >>
         /\ WholeBytes(Len(buffer_sequence)) = AllBytes
         /\ \A k \in 1 .. Len(buffer_sequence) :
               /\ WholeBytes(k - 1) \in Seq(Byte)
               /\ WholeBytes(k) = WholeBytes(k - 1) \o BytesOf(Part(k, 0, buffer_sequence[k]))
         /\ AllBytes \in Seq(Byte)
<1> DEFINE n == Len(buffer_sequence)
<1>1. /\ n \in Nat /\ DOMAIN buffer_sequence = 1 .. n
      /\ \A i \in 1 .. n : i \in Nat /\ buffer_sequence[i] \in Nat
  OBVIOUS
<1> HIDE DEF n
<1>2. \A i \in 1 .. n : BytesOf(Part(i, 0, buffer_sequence[i])) \in Seq(Byte)
  BY <1>1, BytesOfParts
<1>3. /\ Buffers \in [1 .. n -> Seq(Byte)]
      /\ \A i \in 1 .. n : Buffers[i] = BytesOf(Part(i, 0, buffer_sequence[i]))
  BY <1>1, <1>2 DEF Buffers
<1>4. Buffers \in Seq(Seq(Byte)) /\ Len(Buffers) = n
  BY <1>1, <1>3, IsASequence
<1>5. /\ SubSeq(Buffers, 1, 0) = << >>
      /\ SubSeq(Buffers, 1, n) = Buffers
      /\ \A k \in 1 .. n : /\ SubSeq(Buffers, 1, k - 1) \in Seq(Seq(Byte))
                           /\ Buffers[k] \in Seq(Byte)
                           /\ SubSeq(Buffers, 1, k) = Append(SubSeq(Buffers, 1, k - 1), Buffers[k])
  <2>1. /\ SubSeq(Buffers, 1, 0) = << >>
        /\ SubSeq(Buffers, 1, Len(Buffers)) = Buffers
        /\ \A k \in 1 .. Len(Buffers) :
              /\ SubSeq(Buffers, 1, k - 1) \in Seq(Seq(Byte))
              /\ Buffers[k] \in Seq(Byte)
              /\ SubSeq(Buffers, 1, k) = Append(SubSeq(Buffers, 1, k - 1), Buffers[k])
    BY <1>4, FirstElements
  <2>2. QED BY <1>4, <2>1, Zenon
<1>6. WholeBytes(0) = << >>
  BY <1>5, FlatOfNothing, Zenon DEF WholeBytes
<1>7. WholeBytes(n) = AllBytes
  BY <1>5, Zenon DEF WholeBytes, AllBytes, Buffers
<1>8. AllBytes \in Seq(Byte)
  <2>1. << >> \in Seq(Byte)
    OBVIOUS
  <2>2. FlattenSeq(Buffers) \in Seq(Byte)
    BY <1>4, <2>1, FlatGrows
  <2>3. QED BY <2>2, Zenon DEF AllBytes, Buffers
<1>9. ASSUME NEW k \in 1 .. n
      PROVE  /\ WholeBytes(k - 1) \in Seq(Byte)
             /\ WholeBytes(k) = WholeBytes(k - 1) \o BytesOf(Part(k, 0, buffer_sequence[k]))
  <2> DEFINE first == SubSeq(Buffers, 1, k - 1)
             last == Buffers[k]
  <2>1. first \in Seq(Seq(Byte)) /\ last \in Seq(Byte) /\ SubSeq(Buffers, 1, k) = Append(first, last)
    BY <1>5, <1>9, Zenon
  <2> HIDE DEF first, last
  <2>2. /\ FlattenSeq(first) \in Seq(Byte)
        /\ FlattenSeq(Append(first, last)) = FlattenSeq(first) \o last
    BY <2>1, FlatGrows
  <2>3. last = BytesOf(Part(k, 0, buffer_sequence[k]))
    BY <1>3, <1>9, Zenon DEF last
  <2>4. QED BY <2>1, <2>2, <2>3, Zenon DEF WholeBytes, first
<1>10. QED BY <1>6, <1>7, <1>8, <1>9, Zenon DEF n

-----------------------------------------------------------------------------
(* The payload of the list.                                                *)

(* The bytes before the place where the loop is.                           *)
TakenBytes ==
  WholeBytes(buffer_index - 1) \o BytesOf(Part(buffer_index, 0, offset_in_current_buffer))

PayloadInv == LoopInv => PayloadOfList(datagram_list) = TakenBytes

(* A new datagram at the end of the list has no payload.                   *)
LEMMA RoomHasNoPayload ==
  ASSUME BuilderInv
  PROVE  PayloadOfList(WithRoom(datagram_list)) = PayloadOfList(datagram_list)
<1> DEFINE new == [ type  |-> datagram_type_fragment,
                    num   |-> AsUInt32(Len(datagram_list) - 1),
                    len   |-> 0,
                    parts |-> << >> ]
<1>1. datagram_list \in Seq(Datagram)
  BY DEF BuilderInv
<1>2. CASE Len(datagram_list) <= 1 \/ SizeOf(Last(datagram_list)) >= max_udp_datagram_size
  <2>1. WithRoom(datagram_list) = Append(datagram_list, new)
    BY <1>2 DEF WithRoom
  <2>2. new \in Datagram
    <3>1. AsUInt32(Len(datagram_list) - 1) \in Nat
      <4>1. Len(datagram_list) - 1 \in Int /\ UINT32_MAX + 1 \in Nat \ {0}
        BY <1>1, UInt32Assumption
      <4> HIDE DEF new
      <4> DEFINE a == Len(datagram_list) - 1
                 w == UINT32_MAX + 1
      <4>2. a \in Int /\ w \in Nat \ {0}
        BY <4>1
      <4> HIDE DEF a, w
      <4>3. a % w \in Nat
        BY <4>2
      <4>4. QED BY <4>3 DEF AsUInt32, a, w
    <3>2. << >> \in Seq(Parts)
      OBVIOUS
    <3>3. QED BY <3>1, <3>2 DEF Datagram, datagram_type_fragment
  <2>3. Payload(new) = << >>
    <3>1. new.parts = << >>
      OBVIOUS
    <3> HIDE DEF new
    <3>2. Payload(new) = PayloadOfParts(<< >>)
      BY <3>1, Zenon DEF Payload, PayloadOfParts
    <3>3. QED BY <3>2, NothingHasNoPayload
  <2> HIDE DEF new
  <2>4. /\ PayloadOfList(datagram_list) \in Seq(Byte)
        /\ PayloadOfList(Append(datagram_list, new)) = PayloadOfList(datagram_list) \o Payload(new)
    BY <1>1, <2>2, PayloadOfListGrows
  <2>5. PayloadOfList(datagram_list) \o << >> = PayloadOfList(datagram_list)
    BY <2>4
  <2>6. QED BY <2>1, <2>3, <2>4, <2>5, Zenon
<1>3. CASE ~ (Len(datagram_list) <= 1 \/ SizeOf(Last(datagram_list)) >= max_udp_datagram_size)
  BY <1>3, Zenon DEF WithRoom
<1>4. QED BY <1>2, <1>3

(* A round puts the bytes it takes behind those before.                    *)
LEMMA RoundAppendsBytes ==
  ASSUME BuilderInv, LoopInv, FillDatagram
  PROVE  LET bytes == BytesToFit(Last(WithRoom(datagram_list)))
         IN  /\ PayloadOfList(datagram_list) \in Seq(Byte)
             /\ PayloadOfList(datagram_list')
                  = PayloadOfList(datagram_list)
                      \o BytesOf(Part(buffer_index, offset_in_current_buffer, bytes))
<1> DEFINE list == WithRoom(datagram_list)
           last == Last(list)
           bytes == BytesToFit(last)
           new == WithPart(last, bytes)
           part == Part(buffer_index, offset_in_current_buffer, bytes)
<1>1. datagram_list' = Append(Front(list), new) /\ buffer_index <= Len(buffer_sequence)
  BY DEF FillDatagram
<1>2. list \in Seq(Datagram) /\ list # << >>
  <2>1. list \in Seq(Datagram) /\ Len(list) > 1
    BY RoundHasRoom
  <2>2. QED BY <2>1
<1>3. bytes \in Nat \ {0} /\ new \in Datagram
  BY <1>1, RoundAddsBytes
<1>4. buffer_index \in Nat /\ offset_in_current_buffer \in Nat
  BY DEF LoopInv, Position
<1> HIDE DEF list, bytes
<1>5. Front(list) \in Seq(Datagram) /\ last \in Datagram /\ list = Append(Front(list), last)
  BY <1>2, FrontAndLast
<1>6. part \in Parts
  BY <1>3, <1>4 DEF Part, Parts
<1>7. last.parts \in Seq(Parts) /\ new.parts = Append(last.parts, part)
  <2>1. last \in [type : Nat, num : Nat, len : Nat, parts : Seq(Parts)]
    BY <1>5 DEF Datagram
  <2>2. new = [last EXCEPT !.parts = Append(last.parts, part), !.len = AsUInt32(last.len + bytes)]
    BY DEF WithPart
  <2> DEFINE a == Append(last.parts, part)
             e == AsUInt32(last.len + bytes)
  <2>3. new = [last EXCEPT !.parts = a, !.len = e]
    BY <2>2
  <2> HIDE DEF a, e, part, last, new
  <2>4. new.parts = a
    BY <2>1, <2>3
  <2>5. QED BY <2>1, <2>4 DEF a
<1> HIDE DEF last, new, part
<1>8. /\ PayloadOfParts(last.parts) \in Seq(Byte) /\ BytesOf(part) \in Seq(Byte)
      /\ PayloadOfParts(Append(last.parts, part)) = PayloadOfParts(last.parts) \o BytesOf(part)
  BY <1>6, <1>7, PayloadGrows
<1>9. Payload(new) = Payload(last) \o BytesOf(part) /\ Payload(last) \in Seq(Byte)
  BY <1>7, <1>8, Zenon DEF Payload, PayloadOfParts
<1>10. /\ PayloadOfList(Front(list)) \in Seq(Byte)
       /\ PayloadOfList(Append(Front(list), new)) = PayloadOfList(Front(list)) \o Payload(new)
       /\ PayloadOfList(Append(Front(list), last)) = PayloadOfList(Front(list)) \o Payload(last)
  <2>1. new \in Datagram
    BY <1>3 DEF new, last, bytes
  <2>2. QED BY <1>5, <2>1, PayloadOfListGrows
<1>11. PayloadOfList(list) = PayloadOfList(Front(list)) \o Payload(last)
  BY <1>5, <1>10, Zenon
<1>12. PayloadOfList(list) = PayloadOfList(datagram_list)
  BY RoomHasNoPayload, Zenon DEF list
<1>13. (PayloadOfList(Front(list)) \o Payload(last)) \o BytesOf(part)
         = PayloadOfList(Front(list)) \o (Payload(last) \o BytesOf(part))
  BY <1>8, <1>9, <1>10, Concatenation
<1>14. PayloadOfList(datagram_list') = PayloadOfList(datagram_list) \o BytesOf(part)
  BY <1>1, <1>9, <1>10, <1>11, <1>12, <1>13, Zenon
<1>15. PayloadOfList(datagram_list) \in Seq(Byte)
  <2>1. PayloadOfList(Front(list)) \o Payload(last) \in Seq(Byte)
    BY <1>9, <1>10, Concatenation, <1>8
  <2>2. QED BY <1>11, <1>12, <2>1, Zenon
<1>16. QED BY <1>14, <1>15, Zenon DEF part, bytes, last, list

(* The bytes a round takes are the next ones.                              *)
LEMMA RoundTakesNextBytes ==
  ASSUME BuilderInv, LoopInv, buffer_index <= Len(buffer_sequence),
         NEW bytes \in Nat \ {0},
         offset_in_current_buffer + bytes <= buffer_sequence[buffer_index],
         UNCHANGED buffer_sequence,
         \/ /\ offset_in_current_buffer + bytes >= buffer_sequence[buffer_index]
            /\ buffer_index' = buffer_index + 1
            /\ offset_in_current_buffer' = 0
         \/ /\ offset_in_current_buffer + bytes < buffer_sequence[buffer_index]
            /\ offset_in_current_buffer' = offset_in_current_buffer + bytes
            /\ UNCHANGED buffer_index
  PROVE  TakenBytes' = TakenBytes \o BytesOf(Part(buffer_index, offset_in_current_buffer, bytes))
<1> DEFINE size == buffer_sequence[buffer_index]
           off == offset_in_current_buffer
           b == buffer_index
           first == WholeBytes(b - 1)
<1>1. /\ b \in 1 .. Len(buffer_sequence) /\ b \in Nat \ {0}
      /\ off \in Nat /\ size \in Nat /\ buffer_sequence \in Seq(Nat)
  BY DEF LoopInv, Position, BuilderInv
<1>2. first \in Seq(Byte) /\ WholeBytes(b) = first \o BytesOf(Part(b, 0, size))
  BY <1>1, WholeBytesGrow
<1>3. /\ BytesOf(Part(b, 0, off)) \in Seq(Byte) /\ BytesOf(Part(b, off, bytes)) \in Seq(Byte)
      /\ BytesOf(Part(b, 0, off)) \o BytesOf(Part(b, off, bytes)) = BytesOf(Part(b, 0, off + bytes))
  <2>1. BytesOf(Part(b, 0, off)) \in Seq(Byte) /\ BytesOf(Part(b, off, bytes)) \in Seq(Byte)
    BY <1>1, BytesOfParts
  <2>2. BytesOf(Part(b, 0, off)) \o BytesOf(Part(b, off, bytes)) = BytesOf(Part(b, 0, off + bytes))
    BY <1>1, FirstBytes
  <2>3. QED BY <2>1, <2>2, Zenon
<1>4. TakenBytes = first \o BytesOf(Part(b, 0, off))
  BY DEF TakenBytes
<1>5. TakenBytes \o BytesOf(Part(b, off, bytes)) = first \o BytesOf(Part(b, 0, off + bytes))
  <2>1. (first \o BytesOf(Part(b, 0, off))) \o BytesOf(Part(b, off, bytes))
          = first \o (BytesOf(Part(b, 0, off)) \o BytesOf(Part(b, off, bytes)))
    <3> DEFINE x == BytesOf(Part(b, 0, off))
               y == BytesOf(Part(b, off, bytes))
    <3>1. first \in Seq(Byte) /\ x \in Seq(Byte) /\ y \in Seq(Byte)
      BY <1>2, <1>3
    <3> HIDE DEF first, x, y
    <3>2. (first \o x) \o y = first \o (x \o y)
      BY <3>1, Concatenation
    <3>3. QED BY <3>2 DEF x, y
  <2>2. QED BY <1>3, <1>4, <2>1, Zenon
<1>6. Buffers' = Buffers
  BY DEF Buffers
<1>7. CASE /\ off + bytes >= size
           /\ buffer_index' = b + 1
           /\ offset_in_current_buffer' = 0
  <2>1. off + bytes = size
    <3>1. off + bytes <= size /\ off + bytes >= size
      BY <1>7
    <3> HIDE DEF size, off
    <3>2. QED BY <1>1, <3>1
  <2>2. (b + 1) - 1 = b /\ b + 1 \in Nat
    BY <1>1
  <2>3. TakenBytes' = FlattenSeq(SubSeq(Buffers, 1, b)) \o BytesOf(Part(b + 1, 0, 0))
    <3>1. TakenBytes' = FlattenSeq(SubSeq(Buffers', 1, buffer_index' - 1))
                          \o BytesOf(Part(buffer_index', 0, offset_in_current_buffer'))
      BY DEF TakenBytes, WholeBytes
    <3>2. QED BY <1>6, <1>7, <2>2, <3>1, Zenon
  <2>4. BytesOf(Part(b + 1, 0, 0)) = << >>
    BY <2>2, BytesOfParts
  <2>5. TakenBytes' = WholeBytes(b) \o << >>
    BY <2>3, <2>4, Zenon DEF WholeBytes
  <2>6. WholeBytes(b) \in Seq(Byte)
    <3>1. BytesOf(Part(b, 0, size)) \in Seq(Byte)
      BY <1>1, BytesOfParts
    <3>2. first \o BytesOf(Part(b, 0, size)) \in Seq(Byte)
      BY <1>2, <3>1, Concatenation
    <3>3. QED BY <1>2, <3>2, Zenon
  <2>7. WholeBytes(b) \o << >> = WholeBytes(b)
    <3> DEFINE w == WholeBytes(b)
    <3>1. w \in Seq(Byte)
      BY <2>6
    <3> HIDE DEF w
    <3>2. w \o << >> = w
      BY <3>1
    <3>3. QED BY <3>2 DEF w
  <2>8. QED BY <1>2, <1>5, <2>1, <2>5, <2>7, Zenon
<1>8. CASE /\ off + bytes < size
           /\ offset_in_current_buffer' = off + bytes
           /\ UNCHANGED buffer_index
  <2>1. TakenBytes' = FlattenSeq(SubSeq(Buffers', 1, buffer_index' - 1))
                        \o BytesOf(Part(buffer_index', 0, offset_in_current_buffer'))
    BY DEF TakenBytes, WholeBytes
  <2>2. buffer_index' = b
    BY <1>8
  <2>3. TakenBytes' = first \o BytesOf(Part(b, 0, off + bytes))
    BY <1>6, <1>8, <2>1, <2>2, Zenon DEF WholeBytes
  <2>4. QED BY <1>5, <2>3, Zenon
<1>9. QED BY <1>7, <1>8, Zenon

(* Every step keeps it: a round appends to both sides the bytes it takes.  *)
LEMMA PayloadInvNext == BuilderInv /\ BuilderInv' /\ PayloadInv /\ [Next]_vars => PayloadInv'
<1> SUFFICES ASSUME BuilderInv, BuilderInv', PayloadInv, [Next]_vars, LoopInv'
             PROVE  (PayloadOfList(datagram_list) = TakenBytes)'
  BY DEF PayloadInv
<1>1. CASE create_datagram_list
  <2>1. datagram_list' # << >>
    BY DEF LoopInv
  <2>2. /\ buffer_index = 1 /\ offset_in_current_buffer = 0 /\ datagram_list = << >>
        /\ UNCHANGED << buffer_index, offset_in_current_buffer, max_udp_datagram_size >>
    BY <1>1 DEF create_datagram_list, BuilderInv
  <2>3. ~ Refuse
    BY <2>1, <2>2 DEF Refuse
  <2>4. ~ (Sum(buffer_sequence') + HeaderSize <= max_udp_datagram_size)
    <3>1. Sum(buffer_sequence') > max_udp_datagram_size - HeaderSize
      BY <2>2 DEF LoopInv, PayloadBytesPerDatagram
    <3>2. max_udp_datagram_size \in Nat /\ HeaderSize \in Nat
      BY DEF BuilderInv, HeaderSize
    <3>3. Sum(buffer_sequence') \in Nat
      BY SumIsNat DEF BuilderInv
    <3>4. QED BY <3>1, <3>2, <3>3
  <2>5. create_fragmented_datagram_list(buffer_sequence')
    BY <1>1, <2>3, <2>4, Zenon DEF create_datagram_list
  <2>6. PICK info : datagram_list' = << info >> /\ info.parts = << >>
    BY <2>5 DEF create_fragmented_datagram_list
  <2>7. PayloadOfList(datagram_list') = << >>
    <3>1. info \in Datagram
      BY <2>6 DEF BuilderInv
    <3>2. << >> \in Seq(Datagram) /\ << info >> = Append(<< >>, info)
      OBVIOUS
    <3>3. PayloadOfList(<< info >>) = PayloadOfList(<< >>) \o Payload(info)
      BY <3>1, <3>2, PayloadOfListGrows
    <3>4. Payload(info) = << >>
      BY <2>6, NothingHasNoPayload, Zenon DEF Payload, PayloadOfParts
    <3>5. << >> \o << >> = << >>
      OBVIOUS
    <3>6. QED BY <2>6, <3>3, <3>4, <3>5, NothingHasNoPayload, Zenon
  <2>8. TakenBytes' = << >>
    <3>1. (buffer_sequence \in Seq(Nat))'
      BY DEF BuilderInv
    <3>2. TakenBytes' = FlattenSeq(SubSeq(Buffers', 1, 0)) \o BytesOf(Part(1, 0, 0))
      <4>1. 1 - 1 = 0
        OBVIOUS
      <4>2. buffer_index' = 1 /\ offset_in_current_buffer' = 0
        BY <2>2
      <4>3. TakenBytes' = FlattenSeq(SubSeq(Buffers', 1, buffer_index' - 1))
                            \o BytesOf(Part(buffer_index', 0, offset_in_current_buffer'))
        BY DEF TakenBytes, WholeBytes
      <4>4. QED BY <4>1, <4>2, <4>3, Zenon
    <3>3. SubSeq(Buffers', 1, 0) = << >>
      OBVIOUS
    <3>4. BytesOf(Part(1, 0, 0)) = << >> /\ << >> \o << >> = << >>
      BY BytesOfParts
    <3>5. QED BY <3>2, <3>3, <3>4, FlatOfNothing, Zenon
  <2>9. QED BY <2>7, <2>8
<1>2. CASE FillDatagram
  <2> DEFINE bytes == BytesToFit(Last(WithRoom(datagram_list)))
             part == Part(buffer_index, offset_in_current_buffer, bytes)
  <2>1. LoopInv
    BY <1>2 DEF BuilderInv, FillDatagram
  <2>2. PayloadOfList(datagram_list') = PayloadOfList(datagram_list) \o BytesOf(part)
    BY <1>2, <2>1, RoundAppendsBytes
  <2>3. TakenBytes' = TakenBytes \o BytesOf(part)
    <3>1. /\ buffer_index <= Len(buffer_sequence) /\ UNCHANGED buffer_sequence
          /\ \/ /\ offset_in_current_buffer + bytes >= buffer_sequence[buffer_index]
                /\ buffer_index' = buffer_index + 1
                /\ offset_in_current_buffer' = 0
             \/ /\ offset_in_current_buffer + bytes < buffer_sequence[buffer_index]
                /\ offset_in_current_buffer' = offset_in_current_buffer + bytes
                /\ UNCHANGED buffer_index
      BY <1>2 DEF FillDatagram
    <3>2. /\ bytes \in Nat \ {0}
          /\ offset_in_current_buffer + bytes <= buffer_sequence[buffer_index]
      BY <2>1, <3>1, RoundAddsBytes
    <3> HIDE DEF bytes
    <3>3. QED BY <2>1, <3>1, <3>2, RoundTakesNextBytes
  <2>4. PayloadOfList(datagram_list) = TakenBytes
    BY <2>1 DEF PayloadInv
  <2> HIDE DEF part
  <2>5. QED BY <2>2, <2>3, <2>4, Zenon
<1>3. CASE LeaveLoop \/ UNCHANGED vars
  <2>1. UNCHANGED << buffer_sequence, datagram_list, buffer_index, offset_in_current_buffer >>
    BY <1>3 DEF LeaveLoop, vars
  <2>2. LoopInv
    <3>1. UNCHANGED max_udp_datagram_size
      BY <1>3 DEF LeaveLoop, vars
    <3>2. QED BY <2>1, <3>1 DEF LoopInv, Position, InfoOK, FragmentsOK, HeaderOK, Taken,
                                NeededFragmentCount, PayloadBytesPerDatagram
  <2>3. Buffers' = Buffers
    BY <2>1 DEF Buffers
  <2>4. TakenBytes' = TakenBytes
    BY <2>1, <2>3 DEF TakenBytes, WholeBytes
  <2>5. QED BY <2>1, <2>2, <2>4 DEF PayloadInv
<1>4. QED BY <1>1, <1>2, <1>3 DEF Next

(* There is no list at the start.                                          *)
LEMMA PayloadInvInit == Init => PayloadInv
BY DEF Init, PayloadInv, LoopInv

(* So it always holds.                                                     *)
LEMMA PayloadInvariantHolds == Spec => []PayloadInv
BY PayloadInvInit, PayloadInvNext, BuilderInvariantHolds, PTL DEF Spec

(* What the loop has taken is the beginning of the user's bytes.           *)
LEMMA WholeBytesBeginAllBytes ==
  ASSUME buffer_sequence \in Seq(Nat), NEW k \in 0 .. Len(buffer_sequence)
  PROVE  \E r \in Seq(Byte) : AllBytes = WholeBytes(k) \o r
<1> DEFINE n == Len(buffer_sequence)
           N == {j \in Nat : j <= n => \E r \in Seq(Byte) : AllBytes = WholeBytes(n - j) \o r}
<1>1. n \in Nat /\ \A i \in 1 .. n : buffer_sequence[i] \in Nat
  OBVIOUS
<1> HIDE DEF n
<1>2. /\ WholeBytes(n) = AllBytes /\ AllBytes \in Seq(Byte)
      /\ \A i \in 1 .. n : /\ WholeBytes(i - 1) \in Seq(Byte)
                           /\ WholeBytes(i) = WholeBytes(i - 1) \o BytesOf(Part(i, 0, buffer_sequence[i]))
  BY WholeBytesGrow DEF n
<1>3. 0 \in N
  <2>1. AllBytes \o << >> = AllBytes /\ << >> \in Seq(Byte)
    BY <1>2
  <2>2. n - 0 = n
    BY <1>1
  <2>3. AllBytes = WholeBytes(n - 0) \o << >>
    BY <1>2, <2>1, <2>2, Zenon
  <2>4. QED BY <2>1, <2>3
<1>4. ASSUME NEW j \in Nat, j \in N
      PROVE  j + 1 \in N
  <2> SUFFICES ASSUME j + 1 <= n
               PROVE  \E r \in Seq(Byte) : AllBytes = WholeBytes(n - (j + 1)) \o r
    OBVIOUS
  <2>1. PICK r \in Seq(Byte) : AllBytes = WholeBytes(n - j) \o r
    <3>1. j <= n
      BY <1>1
    <3>2. QED BY <1>4, <3>1, Zenon
  <2> DEFINE i == n - j
             x == WholeBytes(i - 1)
             y == BytesOf(Part(i, 0, buffer_sequence[i]))
  <2>2. i \in 1 .. n /\ i \in Nat /\ i - 1 = n - (j + 1)
    BY <1>1
  <2>3. x \in Seq(Byte) /\ WholeBytes(i) = x \o y
    BY <1>2, <2>2, Zenon
  <2>4. y \in Seq(Byte)
    <3>1. buffer_sequence[i] \in Nat /\ 0 \in Nat
      BY <1>1, <2>2
    <3> HIDE DEF i
    <3>2. QED BY <2>2, <3>1, BytesOfParts
  <2>5. (x \o y) \o r = x \o (y \o r) /\ y \o r \in Seq(Byte)
    <3> HIDE DEF x, y
    <3>1. QED BY <2>1, <2>3, <2>4, Concatenation
  <2>6. AllBytes = WholeBytes(n - (j + 1)) \o (y \o r)
    <3>1. AllBytes = x \o (y \o r)
      BY <2>1, <2>3, <2>5, Zenon
    <3>2. x = WholeBytes(n - (j + 1))
      BY <2>2
    <3> HIDE DEF x, y
    <3>3. QED BY <3>1, <3>2, Zenon
  <2> HIDE DEF y
  <2>7. QED BY <2>5, <2>6
<1> HIDE DEF N
<1>5. Nat \subseteq N
  BY <1>3, <1>4, SetInduction
<1>6. n - k \in N /\ n - k <= n /\ n - (n - k) = k
  BY <1>1, <1>5 DEF n
<1>7. QED BY <1>6, Zenon DEF N

(* The same for the place where the loop is, within a buffer or behind the *)
(* last.                                                                   *)
LEMMA TakenBytesBeginAllBytes ==
  ASSUME BuilderInv, LoopInv
  PROVE  /\ TakenBytes \in Seq(Byte)
         /\ \E r \in Seq(Byte) : AllBytes = TakenBytes \o r
         /\ buffer_index = Len(buffer_sequence) + 1 => TakenBytes = AllBytes
<1> DEFINE n == Len(buffer_sequence)
           b == buffer_index
           off == offset_in_current_buffer
<1>1. /\ buffer_sequence \in Seq(Nat) /\ n \in Nat /\ b \in 1 .. n + 1 /\ b \in Nat /\ off \in Nat
  BY DEF BuilderInv, LoopInv, Position
<1>2. /\ WholeBytes(n) = AllBytes /\ AllBytes \in Seq(Byte)
      /\ \A i \in 1 .. n : /\ WholeBytes(i - 1) \in Seq(Byte)
                           /\ WholeBytes(i) = WholeBytes(i - 1) \o BytesOf(Part(i, 0, buffer_sequence[i]))
  BY <1>1, WholeBytesGrow
<1>3. CASE b = n + 1
  <2>1. off = 0 /\ b - 1 = n
    BY <1>1, <1>3 DEF LoopInv, Position
  <2>2. BytesOf(Part(b, 0, 0)) = << >>
    BY <1>1, BytesOfParts
  <2>3. TakenBytes = AllBytes \o << >>
    BY <1>2, <2>1, <2>2, Zenon DEF TakenBytes
  <2>4. AllBytes \o << >> = AllBytes /\ << >> \in Seq(Byte)
    BY <1>2
  <2>5. TakenBytes = AllBytes
    BY <2>3, <2>4, Zenon
  <2>6. QED BY <1>2, <2>4, <2>5
<1>4. CASE b # n + 1
  <2>1. b \in 1 .. n /\ b \in 0 .. n
    BY <1>1, <1>4
  <2> DEFINE size == buffer_sequence[b]
             x == WholeBytes(b - 1)
             y == BytesOf(Part(b, 0, off))
             z == BytesOf(Part(b, off, size - off))
  <2>2. size \in Nat /\ size - off \in Nat /\ off + (size - off) = size
    <3>1. size \in Nat /\ off < size
      BY <1>1, <2>1 DEF LoopInv, Position
    <3> HIDE DEF size, off
    <3>2. QED BY <1>1, <3>1
  <2>3. x \in Seq(Byte) /\ WholeBytes(b) = x \o BytesOf(Part(b, 0, size))
    BY <1>2, <2>1, Zenon
  <2>4. y \in Seq(Byte) /\ z \in Seq(Byte)
    BY <1>1, <2>2, BytesOfParts
  <2>5. y \o z = BytesOf(Part(b, 0, size))
    <3>1. y \o z = BytesOf(Part(b, 0, off + (size - off)))
      BY <1>1, <2>2, FirstBytes
    <3>2. QED BY <2>2, <3>1, Zenon
  <2>6. PICK r \in Seq(Byte) : AllBytes = WholeBytes(b) \o r
    BY <1>1, <2>1, WholeBytesBeginAllBytes
  <2>7. TakenBytes = x \o y
    BY DEF TakenBytes
  <2> HIDE DEF x, y, z
  <2>8. /\ x \o y \in Seq(Byte) /\ z \o r \in Seq(Byte)
        /\ x \o (y \o z) = (x \o y) \o z
    <3>1. x \o y \in Seq(Byte)
      BY <2>3, <2>4, Concatenation
    <3>2. z \o r \in Seq(Byte)
      BY <2>4, Concatenation
    <3>3. (x \o y) \o z = x \o (y \o z)
      BY <2>3, <2>4, Concatenation
    <3>4. QED BY <3>1, <3>2, <3>3
  <2>9. ((x \o y) \o z) \o r = (x \o y) \o (z \o r)
    BY <2>4, <2>6, <2>8, Concatenation
  <2>10. AllBytes = TakenBytes \o (z \o r)
    BY <2>3, <2>5, <2>6, <2>7, <2>8, <2>9, Zenon
  <2>11. QED BY <1>4, <2>7, <2>8, <2>10, Zenon
<1>5. QED BY <1>3, <1>4

(* What IsPrefix is true of.                                               *)
LEMMA PrefixOfConcatenation ==
  ASSUME NEW S, NEW s \in Seq(S), NEW r \in Seq(S)
  PROVE  IsPrefix(s, s \o r) /\ IsPrefix(s, s) /\ IsPrefix(<< >>, s)
<1>1. ASSUME NEW t \in Seq(S)
      PROVE  IsPrefix(s, s \o t)
  <2> DEFINE l == s \o t
             n == Len(s)
  <2>1. l \in Seq(S) /\ Len(l) = n + Len(t) /\ n \in Nat /\ Len(t) \in Nat
    OBVIOUS
  <2>2. \A i \in 1 .. n : l[i] = s[i] /\ s[i] \in S
    OBVIOUS
  <2> HIDE DEF l
  <2>3. SubSeq(s, 1, n) = [i \in 1 .. n |-> s[i]]
    BY <2>1, <2>2
  <2>4. SubSeq(l, 1, n) = [i \in 1 .. n |-> l[i]]
    <3>1. n <= Len(l)
      BY <2>1
    <3>2. QED BY <2>1, <2>2, <3>1
  <2>5. SubSeq(s, 1, n) = SubSeq(l, 1, n)
    BY <2>2, <2>3, <2>4
  <2>6. n <= Len(l)
    BY <2>1
  <2>7. QED BY <2>5, <2>6 DEF IsPrefix, l, n
<1>2. s \o << >> = s /\ << >> \in Seq(S)
  OBVIOUS
<1>3. IsPrefix(s, s)
  BY <1>1, <1>2, Zenon
<1>4. IsPrefix(<< >>, s)
  <2>1. Len(<< >>) = 0 /\ 0 <= Len(s) /\ SubSeq(s, 1, 0) = << >> /\ SubSeq(<< >>, 1, 0) = << >>
    OBVIOUS
  <2>2. QED BY <2>1, Zenon DEF IsPrefix
<1>5. QED BY <1>1, <1>3, <1>4

(* A message that fits in one datagram.                                    *)
LEMMA SingleHasAllBytes ==
  ASSUME BuilderInv, Single
  PROVE  PayloadOfList(datagram_list) = AllBytes
<1>1. PICK d : datagram_list = << d >> /\ d.parts = Whole(buffer_sequence)
  BY DEF Single
<1>2. d \in Datagram /\ << >> \in Seq(Datagram) /\ << d >> = Append(<< >>, d)
  BY <1>1 DEF BuilderInv
<1>3. /\ PayloadOfList(<< d >>) = PayloadOfList(<< >>) \o Payload(d)
      /\ Payload(d) \in Seq(Byte)
  BY <1>2, PayloadOfListGrows
<1>4. << >> \o Payload(d) = Payload(d)
  <2> DEFINE p == Payload(d)
  <2>1. p \in Seq(Byte)
    BY <1>3
  <2> HIDE DEF p
  <2>2. << >> \o p = p
    BY <2>1
  <2>3. QED BY <2>2 DEF p
<1>5. Payload(d) = PayloadOfParts(Whole(buffer_sequence))
  BY <1>1, Zenon DEF Payload, PayloadOfParts
<1>6. [i \in DOMAIN Whole(buffer_sequence) |-> BytesOf(Whole(buffer_sequence)[i])]
        = [i \in DOMAIN buffer_sequence |-> BytesOf(Part(i, 0, buffer_sequence[i]))]
  BY Zenon DEF Whole
<1>7. PayloadOfParts(Whole(buffer_sequence)) = AllBytes
  BY <1>6, Zenon DEF PayloadOfParts, AllBytes
<1>8. QED BY <1>1, <1>3, <1>4, <1>5, <1>7, NothingHasNoPayload, Zenon

(* Put together in their order, the payloads of the finished list are the  *)
(* bytes of the user's buffers, however the buffers and the datagrams      *)
(* overlap, and the list is a beginning of them all the time.              *)
THEOREM NoByteIsLostOrMoved == Spec => []PayloadIsTheUsersBytes
<1>1. BuilderInv /\ PayloadInv => PayloadIsTheUsersBytes
  <2> SUFFICES ASSUME BuilderInv, PayloadInv
               PROVE  PayloadIsTheUsersBytes
    OBVIOUS
  <2>1. AllBytes \in Seq(Byte) /\ << >> \in Seq(Byte)
    BY WholeBytesGrow DEF BuilderInv
  <2>2. CASE pc \in {"start", "invalid_argument"} /\ datagram_list = << >>
    <3>1. IsPrefix(<< >>, AllBytes)
      BY <2>1, PrefixOfConcatenation
    <3>2. PayloadOfList(datagram_list) = << >>
      BY <2>2, NothingHasNoPayload, Zenon
    <3>3. pc # "done"
      BY <2>2
    <3>4. QED BY <3>1, <3>2, <3>3, Zenon DEF PayloadIsTheUsersBytes
  <2>3. CASE Single
    <3>1. PayloadOfList(datagram_list) = AllBytes
      BY <2>3, SingleHasAllBytes
    <3>2. IsPrefix(AllBytes, AllBytes)
      BY <2>1, PrefixOfConcatenation
    <3>3. QED BY <3>1, <3>2, Zenon DEF PayloadIsTheUsersBytes
  <2>4. CASE LoopInv /\ (pc = "done" => buffer_index = Len(buffer_sequence) + 1)
    <3>1. PayloadOfList(datagram_list) = TakenBytes
      BY <2>4 DEF PayloadInv
    <3>2. PICK r \in Seq(Byte) : AllBytes = TakenBytes \o r
      BY <2>4, TakenBytesBeginAllBytes
    <3>3. TakenBytes \in Seq(Byte) /\ (pc = "done" => TakenBytes = AllBytes)
      BY <2>4, TakenBytesBeginAllBytes
    <3>4. IsPrefix(TakenBytes, TakenBytes \o r)
      BY <3>2, <3>3, PrefixOfConcatenation
    <3>5. QED BY <3>1, <3>2, <3>3, <3>4, Zenon DEF PayloadIsTheUsersBytes
  <2>5. \/ pc \in {"start", "invalid_argument"} /\ datagram_list = << >>
        \/ Single
        \/ LoopInv /\ (pc = "done" => buffer_index = Len(buffer_sequence) + 1)
    BY DEF BuilderInv
  <2>6. QED BY <2>2, <2>3, <2>4, <2>5
<1>2. QED BY <1>1, BuilderInvariantHolds, PayloadInvariantHolds, PTL


=============================================================================
