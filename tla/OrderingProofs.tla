--------------------------- MODULE OrderingProofs ----------------------------
(***************************************************************************)
(* Proofs about Ordering: for any records, candidates and policy, the      *)
(* comparison that order_admissible hands to the sort is a strict total    *)
(* order of the candidates, which the sort needs and no ranking of a few   *)
(* candidates shows.                                                       *)
(***************************************************************************)
EXTENDS Ordering, SequenceTheorems, WellFoundedInduction, FunctionTheorems, FiniteSetTheorems, TLAPS

Sign == {-1, 0, 1}

\* The comparisons of a with b, of b with c and of a with c that one order of
\* three things, some of them perhaps tied, can give.
Triple(x, y, z) ==
    /\ x \in Sign /\ y \in Sign /\ z \in Sign
    /\ x <= 0 /\ y <= 0 => z <= 0 /\ (z = 0 => x = 0 /\ y = 0)
    /\ x >= 0 /\ y >= 0 => z >= 0 /\ (z = 0 => x = 0 /\ y = 0)

\* The comparisons of a with b and of b with a.
Turned(x, y) == x \in Sign /\ y \in Sign /\ x + y = 0

\* Comparing by one order and then, where it ties, by another.
LEMMA OrElseKeeps ==
    ASSUME NEW x, NEW y, NEW z, Triple(x, y, z), NEW u, NEW v, NEW w, Triple(u, v, w)
    PROVE  Triple(OrElse(x, u), OrElse(y, v), OrElse(z, w))
  BY DEF Triple, OrElse, Sign

LEMMA OrElseTurns ==
    ASSUME NEW x, NEW y, Turned(x, y), NEW u, NEW v, Turned(u, v)
    PROVE  Turned(OrElse(x, u), OrElse(y, v))
  BY DEF Turned, OrElse, Sign

LEMMA TiedTriple == Triple(0, 0, 0)
  BY DEF Triple, Sign

LEMMA CmpOrders ==
    ASSUME NEW a \in Int, NEW b \in Int, NEW c \in Int
    PROVE  /\ Triple(Cmp(a, b), Cmp(b, c), Cmp(a, c))
           /\ Turned(Cmp(a, b), Cmp(b, a))
           /\ Cmp(a, b) = 0 => a = b
  BY DEF Triple, Turned, Cmp, Sign

LEMMA Signs == Turned(0, 0) /\ Turned(-1, 1) /\ Turned(1, -1) /\ -1 # 0 /\ 1 # 0
  BY DEF Turned, Sign

LEMMA CmpFlagOrders ==
    ASSUME NEW a \in BOOLEAN, NEW b \in BOOLEAN, NEW c \in BOOLEAN
    PROVE  /\ Triple(CmpFlag(a, b), CmpFlag(b, c), CmpFlag(a, c))
           /\ Turned(CmpFlag(a, b), CmpFlag(b, a))
           /\ CmpFlag(a, b) = 0 => a = b
  <1>1. CmpFlag(TRUE, TRUE) = 0 /\ CmpFlag(FALSE, FALSE) = 0
    BY DEF CmpFlag
  <1>2. CmpFlag(TRUE, FALSE) = -1 /\ CmpFlag(FALSE, TRUE) = 1
    BY DEF CmpFlag
  <1>3. /\ Triple(0, 0, 0) /\ Triple(0, -1, -1) /\ Triple(-1, 1, 0) /\ Triple(-1, 0, -1)
        /\ Triple(1, -1, 0) /\ Triple(1, 0, 1) /\ Triple(0, 1, 1)
    BY DEF Triple, Sign
  <1>4. Turned(CmpFlag(a, b), CmpFlag(b, a)) /\ (CmpFlag(a, b) = 0 => a = b)
    <2>1. Turned(0, 0) /\ Turned(-1, 1) /\ Turned(1, -1) /\ -1 # 0 /\ 1 # 0
      BY Signs
    <2>2. CASE a = TRUE /\ b = TRUE
      BY <1>1, <2>1, <2>2
    <2>3. CASE a = TRUE /\ b = FALSE
      BY <1>2, <2>1, <2>3
    <2>4. CASE a = FALSE /\ b = TRUE
      BY <1>2, <2>1, <2>4
    <2>5. CASE a = FALSE /\ b = FALSE
      BY <1>1, <2>1, <2>5
    <2> QED
      BY <2>2, <2>3, <2>4, <2>5
  <1>5. Triple(CmpFlag(a, b), CmpFlag(b, c), CmpFlag(a, c))
    <2>1. CASE a = TRUE /\ b = TRUE
      BY <1>1, <1>2, <1>3, <2>1
    <2>2. CASE a = TRUE /\ b = FALSE
      BY <1>1, <1>2, <1>3, <2>2
    <2>3. CASE a = FALSE /\ b = TRUE
      BY <1>1, <1>2, <1>3, <2>3
    <2>4. CASE a = FALSE /\ b = FALSE
      BY <1>1, <1>2, <1>3, <2>4
    <2> QED
      BY <2>1, <2>2, <2>3, <2>4
  <1> QED
    BY <1>4, <1>5

-----------------------------------------------------------------------------
(* Lexicographic comparison *)

Below == {pair \in Nat \X Nat : pair[1] < pair[2]}

\* A set of natural numbers has a least element.
LEMMA Least ==
    ASSUME NEW S \in SUBSET Nat, S # {}
    PROVE  \E n \in S : \A m \in S : n <= m
  <1>1. IsWellFoundedOn(Below, Nat)
    BY NatLessThanWellFounded DEF OpToRel, Below
  <1>2. PICK n \in S : \A m \in S : ~(<<m, n>> \in Below)
    BY <1>1, WFMin
  <1>3. ASSUME NEW m \in S PROVE n <= m
    <2>1. m \in Nat /\ n \in Nat
      OBVIOUS
    <2>2. <<m, n>> \in Nat \X Nat /\ <<m, n>>[1] = m /\ <<m, n>>[2] = n
      BY <2>1
    <2>3. ~(m < n)
      BY <1>2, <2>2 DEF Below
    <2> QED
      BY <2>1, <2>3
  <1> QED
    BY <1>3

Shorter(m, n) == IF m < n THEN m ELSE n

\* The comparison f of the elements at each place, turned into one of sequences
\* of lengths m and n.
Lexical(f, m, n) ==
    LET differ == {i \in 1..Shorter(m, n) : f[i] # 0}
    IN IF differ = {} THEN Cmp(m, n)
       ELSE f[CHOOSE i \in differ : \A j \in differ : i <= j]

\* The first place that differs decides.
LEMMA FirstDecides ==
    ASSUME NEW m \in Nat, NEW n \in Nat, NEW f,
           NEW k \in 1..Shorter(m, n), f[k] # 0, \A i \in 1..(k - 1) : f[i] = 0
    PROVE  Lexical(f, m, n) = f[k]
  <1> DEFINE differ == {i \in 1..Shorter(m, n) : f[i] # 0}
  <1>1. k \in differ /\ k \in Nat
    OBVIOUS
  <1>2. \A j \in differ : k <= j
    <2> TAKE j \in differ
    <2>1. j \in Nat /\ j >= 1 /\ f[j] # 0
      OBVIOUS
    <2>2. ~(j <= k - 1)
      BY <1>1, <2>1
    <2> QED
      BY <1>1, <2>1, <2>2
  <1>3. \A i \in differ : (\A j \in differ : i <= j) => i = k
    BY <1>1, <1>2
  <1>4. (CHOOSE i \in differ : \A j \in differ : i <= j) = k
    BY <1>1, <1>2, <1>3
  <1>5. differ # {}
    BY <1>1
  <1> QED
    BY <1>4, <1>5 DEF Lexical

\* Where no place differs, the lengths do.
LEMMA LengthsDecide ==
    ASSUME NEW m \in Nat, NEW n \in Nat, NEW f, \A i \in 1..Shorter(m, n) : f[i] = 0
    PROVE  Lexical(f, m, n) = Cmp(m, n)
  BY DEF Lexical

LEMMA LexicalSign ==
    ASSUME NEW m \in Nat, NEW n \in Nat, NEW f, \A i \in 1..Shorter(m, n) : f[i] \in Sign
    PROVE  Lexical(f, m, n) \in Sign
  <1>1. CASE \A i \in 1..Shorter(m, n) : f[i] = 0
    BY <1>1, LengthsDecide DEF Cmp, Sign
  <1>2. CASE \E i \in 1..Shorter(m, n) : f[i] # 0
    <2> DEFINE differ == {i \in 1..Shorter(m, n) : f[i] # 0}
    <2>1. differ \in SUBSET Nat /\ differ # {}
      BY <1>2
    <2>2. PICK k \in differ : \A j \in differ : k <= j
      BY <2>1, Least
    <2>3. \A i \in 1..(k - 1) : f[i] = 0
      BY <2>2 DEF Shorter
    <2>4. Lexical(f, m, n) = f[k]
      BY <2>2, <2>3, FirstDecides
    <2> QED
      BY <2>4
  <1> QED
    BY <1>1, <1>2

\* Three sequences compared by an order of their elements are ordered.
LEMMA LexicalOrders ==
    ASSUME NEW m \in Nat, NEW n \in Nat, NEW p \in Nat, NEW f, NEW g, NEW h,
           \A i \in 1..Shorter(m, n) : f[i] \in Sign,
           \A i \in 1..Shorter(n, p) : g[i] \in Sign,
           \A i \in 1..Shorter(m, p) : h[i] \in Sign,
           \A i \in 1..Shorter(Shorter(m, n), p) : Triple(f[i], g[i], h[i])
    PROVE  Triple(Lexical(f, m, n), Lexical(g, n, p), Lexical(h, m, p))
  <1> DEFINE all == 1..Shorter(Shorter(m, n), p)
             X == Lexical(f, m, n)
             Y == Lexical(g, n, p)
             Z == Lexical(h, m, p)
  <1> SUFFICES Triple(X, Y, Z)
    OBVIOUS
  <1>1. X \in Sign /\ Y \in Sign /\ Z \in Sign
    BY LexicalSign
  <1>2. CASE \A i \in all : f[i] = 0 /\ g[i] = 0 /\ h[i] = 0
    <2>1. m <= n /\ m <= p => X = Cmp(m, n) /\ Z = Cmp(m, p)
      BY <1>2, LengthsDecide DEF Shorter
    <2>2. n <= m /\ n <= p => X = Cmp(m, n) /\ Y = Cmp(n, p)
      BY <1>2, LengthsDecide DEF Shorter
    <2>3. p <= m /\ p <= n => Y = Cmp(n, p) /\ Z = Cmp(m, p)
      BY <1>2, LengthsDecide DEF Shorter
    <2> HIDE DEF X, Y, Z
    <2> QED
      BY <1>1, <2>1, <2>2, <2>3 DEF Triple, Sign, Cmp
  <1>3. CASE \E i \in all : f[i] # 0 \/ g[i] # 0 \/ h[i] # 0
    <2> DEFINE differ == {i \in all : f[i] # 0 \/ g[i] # 0 \/ h[i] # 0}
    <2>1. differ \in SUBSET Nat /\ differ # {}
      BY <1>3
    <2>2. PICK k \in differ : \A j \in differ : k <= j
      BY <2>1, Least
    <2>3. /\ k \in 1..Shorter(m, n) /\ k \in 1..Shorter(n, p) /\ k \in 1..Shorter(m, p)
          /\ k \in all
      BY <2>2 DEF Shorter
    <2>4. \A i \in 1..(k - 1) : f[i] = 0 /\ g[i] = 0 /\ h[i] = 0
      <3> TAKE i \in 1..(k - 1)
      <3>1. i \in Int /\ k \in Int /\ 1 <= i /\ i <= k - 1 /\ k <= Shorter(Shorter(m, n), p)
        BY <2>3
      <3>2. Shorter(Shorter(m, n), p) \in Int
        BY DEF Shorter
      <3>3. i \in all /\ ~(k <= i)
        BY <3>1, <3>2
      <3> QED
        BY <2>2, <3>3
    <2>5. f[k] # 0 => X = f[k]
      BY <2>3, <2>4, FirstDecides
    <2>6. g[k] # 0 => Y = g[k]
      BY <2>3, <2>4, FirstDecides
    <2>7. h[k] # 0 => Z = h[k]
      BY <2>3, <2>4, FirstDecides
    <2>8. Triple(f[k], g[k], h[k]) /\ (f[k] # 0 \/ g[k] # 0 \/ h[k] # 0)
      BY <2>2, <2>3
    <2> HIDE DEF X, Y, Z
    <2> QED
      BY <1>1, <2>5, <2>6, <2>7, <2>8 DEF Triple, Sign
  <1> QED
    BY <1>2, <1>3

\* Two sequences compared the other way round.
LEMMA LexicalTurns ==
    ASSUME NEW m \in Nat, NEW n \in Nat, NEW f, NEW g,
           \A i \in 1..Shorter(m, n) : Turned(f[i], g[i])
    PROVE  Turned(Lexical(f, m, n), Lexical(g, n, m))
  <1>1. Shorter(n, m) = Shorter(m, n) /\ Shorter(m, n) \in Nat
    BY DEF Shorter
  <1>2. \A i \in 1..Shorter(m, n) : f[i] = 0 <=> g[i] = 0
    BY DEF Turned, Sign
  <1>3. CASE \A i \in 1..Shorter(m, n) : f[i] = 0
    <2>1. Lexical(f, m, n) = Cmp(m, n)
      BY <1>3, LengthsDecide
    <2>2. Lexical(g, n, m) = Cmp(n, m)
      BY <1>1, <1>2, <1>3, LengthsDecide
    <2> QED
      BY <2>1, <2>2, CmpOrders
  <1>4. CASE \E i \in 1..Shorter(m, n) : f[i] # 0
    <2> DEFINE differ == {i \in 1..Shorter(m, n) : f[i] # 0}
    <2>1. differ \in SUBSET Nat /\ differ # {}
      BY <1>4
    <2>2. PICK k \in differ : \A j \in differ : k <= j
      BY <2>1, Least
    <2>3. \A i \in 1..(k - 1) : f[i] = 0 /\ g[i] = 0
      <3> TAKE i \in 1..(k - 1)
      <3>1. i \in Int /\ k \in Int /\ 1 <= i /\ i <= k - 1 /\ k <= Shorter(m, n)
        BY <2>2
      <3>2. i \in 1..Shorter(m, n) /\ ~(k <= i)
        BY <1>1, <3>1
      <3> QED
        BY <1>2, <2>2, <3>2
    <2>4. Lexical(f, m, n) = f[k]
      BY <2>2, <2>3, FirstDecides
    <2>5. Lexical(g, n, m) = g[k]
      BY <1>1, <1>2, <2>2, <2>3, FirstDecides
    <2> QED
      BY <2>4, <2>5
  <1> QED
    BY <1>3, <1>4

\* The comparisons of the model, place by place.
Places(C(_, _), a, b) == [i \in 1..Shorter(Len(a), Len(b)) |-> C(a[i], b[i])]

\* compare_lists and compare_preferences are comparisons place by place.
LEMMA ListsAreLexical ==
    ASSUME NEW a \in Seq(Int), NEW b \in Seq(Int)
    PROVE  compare_lists(a, b) = Lexical(Places(Cmp, a, b), Len(a), Len(b))
  <1> DEFINE shared == Shorter(Len(a), Len(b))
             f == Places(Cmp, a, b)
             differ == {i \in 1..shared : f[i] # 0}
             first == CHOOSE i \in differ : \A j \in differ : i <= j
  <1>1. \A i \in 1..shared : f[i] = Cmp(a[i], b[i])
    BY DEF Places
  <1>2. differ = {i \in 1..shared : Cmp(a[i], b[i]) # 0}
    BY <1>1
  <1>3. Lexical(f, Len(a), Len(b)) = IF differ = {} THEN Cmp(Len(a), Len(b)) ELSE f[first]
    BY DEF Lexical
  <1>4. compare_lists(a, b) = IF differ = {} THEN Cmp(Len(a), Len(b))
                                ELSE Cmp(a[first], b[first])
    <2> DEFINE differ0 == {i \in 1..shared : Cmp(a[i], b[i]) # 0}
               first0 == CHOOSE i \in differ0 : \A j \in differ0 : i <= j
    <2>1. compare_lists(a, b) = IF differ0 = {} THEN Cmp(Len(a), Len(b))
                                 ELSE Cmp(a[first0], b[first0])
      BY DEF compare_lists, Lexicographic, Shorter
    <2>2. differ = differ0
      BY <1>2
    <2> HIDE DEF differ, differ0
    <2>3. first = first0
      BY <2>2
    <2> HIDE DEF first, first0
    <2> QED
      BY <2>1, <2>2, <2>3
  <1>5. differ # {} => first \in 1..shared
    <2> SUFFICES ASSUME differ # {} PROVE first \in differ
      OBVIOUS
    <2>1. differ \in SUBSET Nat
      OBVIOUS
    <2>2. \E i \in differ : \A j \in differ : i <= j
      BY <2>1, Least
    <2> HIDE DEF differ
    <2> QED
      BY <2>2
  <1> HIDE DEF differ, first, f
  <1>6. differ # {} => f[first] = Cmp(a[first], b[first])
    BY <1>1, <1>5
  <1>7. Lexical(f, Len(a), Len(b)) = compare_lists(a, b)
    BY <1>3, <1>4, <1>6
  <1> QED
    BY <1>7 DEF f

\* PreferenceSlot.
Slot ==
    [constraint : Nat, ordinal : Nat, rank : Nat, weight : Nat, satisfied : BOOLEAN, margin : Int]

LEMMA PreferencesAreLexical ==
    ASSUME NEW a \in Seq(Slot), NEW b \in Seq(Slot)
    PROVE  compare_preferences(a, b) = Lexical(Places(compare_slot, a, b), Len(a), Len(b))
  <1> DEFINE shared == Shorter(Len(a), Len(b))
             f == Places(compare_slot, a, b)
             differ == {i \in 1..shared : f[i] # 0}
             first == CHOOSE i \in differ : \A j \in differ : i <= j
  <1>1. \A i \in 1..shared : f[i] = compare_slot(a[i], b[i])
    BY DEF Places
  <1>2. differ = {i \in 1..shared : compare_slot(a[i], b[i]) # 0}
    BY <1>1
  <1>3. Lexical(f, Len(a), Len(b)) = IF differ = {} THEN Cmp(Len(a), Len(b)) ELSE f[first]
    BY DEF Lexical
  <1>4. compare_preferences(a, b) = IF differ = {} THEN Cmp(Len(a), Len(b))
                                ELSE compare_slot(a[first], b[first])
    <2> DEFINE differ0 == {i \in 1..shared : compare_slot(a[i], b[i]) # 0}
               first0 == CHOOSE i \in differ0 : \A j \in differ0 : i <= j
    <2>1. compare_preferences(a, b) = IF differ0 = {} THEN Cmp(Len(a), Len(b))
                                 ELSE compare_slot(a[first0], b[first0])
      BY DEF compare_preferences, Lexicographic, Shorter
    <2>2. differ = differ0
      BY <1>2
    <2> HIDE DEF differ, differ0
    <2>3. first = first0
      BY <2>2
    <2> HIDE DEF first, first0
    <2> QED
      BY <2>1, <2>2, <2>3
  <1>5. differ # {} => first \in 1..shared
    <2> SUFFICES ASSUME differ # {} PROVE first \in differ
      OBVIOUS
    <2>1. differ \in SUBSET Nat
      OBVIOUS
    <2>2. \E i \in differ : \A j \in differ : i <= j
      BY <2>1, Least
    <2> HIDE DEF differ
    <2> QED
      BY <2>2
  <1> HIDE DEF differ, first, f
  <1>6. differ # {} => f[first] = compare_slot(a[first], b[first])
    BY <1>1, <1>5
  <1>7. Lexical(f, Len(a), Len(b)) = compare_preferences(a, b)
    BY <1>3, <1>4, <1>6
  <1> QED
    BY <1>7 DEF f

-----------------------------------------------------------------------------
(* The ranking *)

\* compare_lists orders lists of numbers.
LEMMA ListsOrder ==
    ASSUME NEW a \in Seq(Int), NEW b \in Seq(Int), NEW c \in Seq(Int)
    PROVE  /\ Triple(compare_lists(a, b), compare_lists(b, c), compare_lists(a, c))
           /\ Turned(compare_lists(a, b), compare_lists(b, a))
  <1>1. /\ Len(a) \in Nat /\ Len(b) \in Nat /\ Len(c) \in Nat
        /\ \A i \in 1..Len(a) : a[i] \in Int
        /\ \A i \in 1..Len(b) : b[i] \in Int
        /\ \A i \in 1..Len(c) : c[i] \in Int
    BY LenProperties, ElementOfSeq
  <1> DEFINE f == Places(Cmp, a, b)
             g == Places(Cmp, b, c)
             h == Places(Cmp, a, c)
             r == Places(Cmp, b, a)
  <1>2. /\ \A i \in 1..Shorter(Len(a), Len(b)) :
             i \in 1..Len(a) /\ i \in 1..Len(b) /\ f[i] = Cmp(a[i], b[i])
        /\ \A i \in 1..Shorter(Len(b), Len(c)) :
             i \in 1..Len(b) /\ i \in 1..Len(c) /\ g[i] = Cmp(b[i], c[i])
        /\ \A i \in 1..Shorter(Len(a), Len(c)) :
             i \in 1..Len(a) /\ i \in 1..Len(c) /\ h[i] = Cmp(a[i], c[i])
        /\ \A i \in 1..Shorter(Len(a), Len(b)) : r[i] = Cmp(b[i], a[i])
    <2>1. \A m \in Nat, n \in Nat : \A i \in 1..Shorter(m, n) : i \in 1..m /\ i \in 1..n
      BY DEF Shorter
    <2>2. Shorter(Len(b), Len(a)) = Shorter(Len(a), Len(b))
      BY <1>1 DEF Shorter
    <2>3. /\ \A i \in 1..Shorter(Len(a), Len(b)) : f[i] = Cmp(a[i], b[i])
          /\ \A i \in 1..Shorter(Len(b), Len(c)) : g[i] = Cmp(b[i], c[i])
          /\ \A i \in 1..Shorter(Len(a), Len(c)) : h[i] = Cmp(a[i], c[i])
          /\ \A i \in 1..Shorter(Len(b), Len(a)) : r[i] = Cmp(b[i], a[i])
      BY DEF Places
    <2> HIDE DEF f, g, h, r
    <2> QED
      BY <1>1, <2>1, <2>2, <2>3
  <1>3. \A i \in 1..Shorter(Shorter(Len(a), Len(b)), Len(c)) :
          /\ i \in 1..Shorter(Len(a), Len(b)) /\ i \in 1..Shorter(Len(b), Len(c))
          /\ i \in 1..Shorter(Len(a), Len(c))
    BY <1>1 DEF Shorter
  <1> HIDE DEF f, g, h, r
  <1>4. /\ \A i \in 1..Shorter(Len(a), Len(b)) : f[i] \in Sign /\ Turned(f[i], r[i])
        /\ \A i \in 1..Shorter(Len(b), Len(c)) : g[i] \in Sign
        /\ \A i \in 1..Shorter(Len(a), Len(c)) : h[i] \in Sign
    <2>1. ASSUME NEW i \in 1..Shorter(Len(a), Len(b)) PROVE f[i] \in Sign /\ Turned(f[i], r[i])
      <3>1. Turned(Cmp(a[i], b[i]), Cmp(b[i], a[i]))
        BY <1>1, <1>2, CmpOrders
      <3> QED
        BY <1>2, <3>1 DEF Turned
    <2>2. ASSUME NEW i \in 1..Shorter(Len(b), Len(c)) PROVE g[i] \in Sign
      <3>1. Turned(Cmp(b[i], c[i]), Cmp(c[i], b[i]))
        BY <1>1, <1>2, CmpOrders
      <3> QED
        BY <1>2, <3>1 DEF Turned
    <2>3. ASSUME NEW i \in 1..Shorter(Len(a), Len(c)) PROVE h[i] \in Sign
      <3>1. Turned(Cmp(a[i], c[i]), Cmp(c[i], a[i]))
        BY <1>1, <1>2, CmpOrders
      <3> QED
        BY <1>2, <3>1 DEF Turned
    <2> QED
      BY <2>1, <2>2, <2>3
  <1>5. \A i \in 1..Shorter(Shorter(Len(a), Len(b)), Len(c)) : Triple(f[i], g[i], h[i])
    BY <1>1, <1>2, <1>3, CmpOrders
  <1>6. Triple(Lexical(f, Len(a), Len(b)), Lexical(g, Len(b), Len(c)), Lexical(h, Len(a), Len(c)))
    BY <1>1, <1>4, <1>5, LexicalOrders
  <1>7. Turned(Lexical(f, Len(a), Len(b)), Lexical(r, Len(b), Len(a)))
    BY <1>1, <1>4, LexicalTurns
  <1> QED
    BY <1>6, <1>7, ListsAreLexical DEF f, g, h, r

LEMMA SlotsOrder ==
    ASSUME NEW a \in Slot, NEW b \in Slot, NEW c \in Slot
    PROVE  /\ Triple(compare_slot(a, b), compare_slot(b, c), compare_slot(a, c))
           /\ Turned(compare_slot(a, b), compare_slot(b, a))
  <1>1. /\ a.satisfied \in BOOLEAN /\ b.satisfied \in BOOLEAN /\ c.satisfied \in BOOLEAN
        /\ a.margin \in Int /\ b.margin \in Int /\ c.margin \in Int
        /\ a.weight \in Int /\ b.weight \in Int /\ c.weight \in Int
    BY DEF Slot
  <1>2. /\ Triple(CmpFlag(a.satisfied, b.satisfied), CmpFlag(b.satisfied, c.satisfied),
                  CmpFlag(a.satisfied, c.satisfied))
        /\ Turned(CmpFlag(a.satisfied, b.satisfied), CmpFlag(b.satisfied, a.satisfied))
    BY <1>1, CmpFlagOrders
  <1>3. /\ Triple(Cmp(b.margin, a.margin), Cmp(c.margin, b.margin), Cmp(c.margin, a.margin))
        /\ Turned(Cmp(b.margin, a.margin), Cmp(a.margin, b.margin))
    BY <1>1 DEF Cmp, Triple, Turned, Sign
  <1>4. /\ Triple(Cmp(b.weight, a.weight), Cmp(c.weight, b.weight), Cmp(c.weight, a.weight))
        /\ Turned(Cmp(b.weight, a.weight), Cmp(a.weight, b.weight))
    BY <1>1 DEF Cmp, Triple, Turned, Sign
  <1>5. /\ Triple(OrElse(Cmp(b.margin, a.margin), Cmp(b.weight, a.weight)),
                  OrElse(Cmp(c.margin, b.margin), Cmp(c.weight, b.weight)),
                  OrElse(Cmp(c.margin, a.margin), Cmp(c.weight, a.weight)))
        /\ Turned(OrElse(Cmp(b.margin, a.margin), Cmp(b.weight, a.weight)),
                  OrElse(Cmp(a.margin, b.margin), Cmp(a.weight, b.weight)))
    BY <1>3, <1>4, OrElseKeeps, OrElseTurns
  <1>6. Triple(compare_slot(a, b), compare_slot(b, c), compare_slot(a, c))
    BY <1>2, <1>5, OrElseKeeps DEF compare_slot
  <1>7. Turned(compare_slot(a, b), compare_slot(b, a))
    BY <1>2, <1>5, OrElseTurns DEF compare_slot
  <1> QED
    BY <1>6, <1>7

\* compare_preferences orders lists of preference slots.
LEMMA PreferencesOrder ==
    ASSUME NEW a \in Seq(Slot), NEW b \in Seq(Slot), NEW c \in Seq(Slot)
    PROVE  /\ Triple(compare_preferences(a, b), compare_preferences(b, c), compare_preferences(a, c))
           /\ Turned(compare_preferences(a, b), compare_preferences(b, a))
  <1>1. /\ Len(a) \in Nat /\ Len(b) \in Nat /\ Len(c) \in Nat
        /\ \A i \in 1..Len(a) : a[i] \in Slot
        /\ \A i \in 1..Len(b) : b[i] \in Slot
        /\ \A i \in 1..Len(c) : c[i] \in Slot
    BY LenProperties, ElementOfSeq
  <1> DEFINE f == Places(compare_slot, a, b)
             g == Places(compare_slot, b, c)
             h == Places(compare_slot, a, c)
             r == Places(compare_slot, b, a)
  <1>2. /\ \A i \in 1..Shorter(Len(a), Len(b)) :
             i \in 1..Len(a) /\ i \in 1..Len(b) /\ f[i] = compare_slot(a[i], b[i])
        /\ \A i \in 1..Shorter(Len(b), Len(c)) :
             i \in 1..Len(b) /\ i \in 1..Len(c) /\ g[i] = compare_slot(b[i], c[i])
        /\ \A i \in 1..Shorter(Len(a), Len(c)) :
             i \in 1..Len(a) /\ i \in 1..Len(c) /\ h[i] = compare_slot(a[i], c[i])
        /\ \A i \in 1..Shorter(Len(a), Len(b)) : r[i] = compare_slot(b[i], a[i])
    <2>1. \A m \in Nat, n \in Nat : \A i \in 1..Shorter(m, n) : i \in 1..m /\ i \in 1..n
      BY DEF Shorter
    <2>2. Shorter(Len(b), Len(a)) = Shorter(Len(a), Len(b))
      BY <1>1 DEF Shorter
    <2>3. /\ \A i \in 1..Shorter(Len(a), Len(b)) : f[i] = compare_slot(a[i], b[i])
          /\ \A i \in 1..Shorter(Len(b), Len(c)) : g[i] = compare_slot(b[i], c[i])
          /\ \A i \in 1..Shorter(Len(a), Len(c)) : h[i] = compare_slot(a[i], c[i])
          /\ \A i \in 1..Shorter(Len(b), Len(a)) : r[i] = compare_slot(b[i], a[i])
      BY DEF Places
    <2> HIDE DEF f, g, h, r
    <2> QED
      BY <1>1, <2>1, <2>2, <2>3
  <1>3. \A i \in 1..Shorter(Shorter(Len(a), Len(b)), Len(c)) :
          /\ i \in 1..Shorter(Len(a), Len(b)) /\ i \in 1..Shorter(Len(b), Len(c))
          /\ i \in 1..Shorter(Len(a), Len(c))
    BY <1>1 DEF Shorter
  <1> HIDE DEF f, g, h, r
  <1>4. /\ \A i \in 1..Shorter(Len(a), Len(b)) : f[i] \in Sign /\ Turned(f[i], r[i])
        /\ \A i \in 1..Shorter(Len(b), Len(c)) : g[i] \in Sign
        /\ \A i \in 1..Shorter(Len(a), Len(c)) : h[i] \in Sign
    <2>1. ASSUME NEW i \in 1..Shorter(Len(a), Len(b)) PROVE f[i] \in Sign /\ Turned(f[i], r[i])
      <3>1. Turned(compare_slot(a[i], b[i]), compare_slot(b[i], a[i]))
        BY <1>1, <1>2, SlotsOrder
      <3> QED
        BY <1>2, <3>1 DEF Turned
    <2>2. ASSUME NEW i \in 1..Shorter(Len(b), Len(c)) PROVE g[i] \in Sign
      <3>1. Turned(compare_slot(b[i], c[i]), compare_slot(c[i], b[i]))
        BY <1>1, <1>2, SlotsOrder
      <3> QED
        BY <1>2, <3>1 DEF Turned
    <2>3. ASSUME NEW i \in 1..Shorter(Len(a), Len(c)) PROVE h[i] \in Sign
      <3>1. Turned(compare_slot(a[i], c[i]), compare_slot(c[i], a[i]))
        BY <1>1, <1>2, SlotsOrder
      <3> QED
        BY <1>2, <3>1 DEF Turned
    <2> QED
      BY <2>1, <2>2, <2>3
  <1>5. \A i \in 1..Shorter(Shorter(Len(a), Len(b)), Len(c)) : Triple(f[i], g[i], h[i])
    BY <1>1, <1>2, <1>3, SlotsOrder
  <1>6. Triple(Lexical(f, Len(a), Len(b)), Lexical(g, Len(b), Len(c)), Lexical(h, Len(a), Len(c)))
    BY <1>1, <1>4, <1>5, LexicalOrders
  <1>7. Turned(Lexical(f, Len(a), Len(b)), Lexical(r, Len(b), Len(a)))
    BY <1>1, <1>4, LexicalTurns
  <1> QED
    BY <1>6, <1>7, PreferencesAreLexical DEF f, g, h, r

\* A figure that may be missing: the flag first, then the figure where both
\* have one.
Optional(p, q, x) == OrElse(CmpFlag(p, q), IF p THEN x ELSE 0)

LEMMA OptionalOrders ==
    ASSUME NEW p \in BOOLEAN, NEW q \in BOOLEAN, NEW r \in BOOLEAN,
           NEW x, NEW y, NEW z, Triple(x, y, z), NEW t, Turned(x, t)
    PROVE  /\ Triple(Optional(p, q, x), Optional(q, r, y), Optional(p, r, z))
           /\ Turned(Optional(p, q, x), Optional(q, p, t))
  <1>1. /\ CmpFlag(TRUE, TRUE) = 0 /\ CmpFlag(FALSE, FALSE) = 0
        /\ CmpFlag(TRUE, FALSE) = -1 /\ CmpFlag(FALSE, TRUE) = 1
    BY DEF CmpFlag
  <1>2. \A u : OrElse(0, u) = u /\ OrElse(-1, u) = -1 /\ OrElse(1, u) = 1
    BY DEF OrElse
  <1>3. \A u : /\ Optional(TRUE, TRUE, u) = u /\ Optional(FALSE, FALSE, u) = 0
               /\ Optional(TRUE, FALSE, u) = -1 /\ Optional(FALSE, TRUE, u) = 1
    BY <1>1, <1>2 DEF Optional
  <1>4. /\ Triple(0, 0, 0) /\ Triple(x, -1, -1) /\ Triple(-1, 1, z) /\ Triple(-1, 0, -1)
        /\ Triple(1, y, 1) /\ Triple(1, -1, 0) /\ Triple(0, 1, 1)
    BY DEF Triple, Sign
  <1>5. Turned(0, 0) /\ Turned(-1, 1) /\ Turned(1, -1)
    BY Signs
  <1>6. CASE p = TRUE /\ q = TRUE
    BY <1>3, <1>4, <1>6
  <1>7. CASE p = TRUE /\ q = FALSE
    BY <1>3, <1>4, <1>5, <1>7, ZenonT(60)
  <1>8. CASE p = FALSE /\ q = TRUE
    BY <1>3, <1>4, <1>5, <1>8
  <1>9. CASE p = FALSE /\ q = FALSE
    BY <1>3, <1>4, <1>5, <1>9
  <1> QED
    BY <1>6, <1>7, <1>8, <1>9

\* What compare_ranked reads of a candidate has its type.
Rankable(a) ==
    /\ a.path \in Nat
    /\ \E n \in Nat : DOMAIN a.nodes = 1..n
    /\ \A i \in DOMAIN a.nodes : a.nodes[i].node \in Nat
    /\ a.has_planner_rank \in BOOLEAN /\ a.planner_rank \in Nat
    /\ a.has_planner_cost \in BOOLEAN /\ a.planner_cost \in Int

LEMMA NodeSequencesOrder ==
    ASSUME NEW a, NEW b, NEW c, Rankable(a), Rankable(b), Rankable(c)
    PROVE  /\ Triple(compare_node_sequences(a, b), compare_node_sequences(b, c),
                     compare_node_sequences(a, c))
           /\ Turned(compare_node_sequences(a, b), compare_node_sequences(b, a))
  <1>1. ASSUME NEW x, Rankable(x) PROVE [i \in DOMAIN x.nodes |-> x.nodes[i].node] \in Seq(Int)
    <2>1. PICK n \in Nat : DOMAIN x.nodes = 1..n
      BY <1>1 DEF Rankable
    <2>2. \A i \in 1..n : x.nodes[i].node \in Nat
      BY <1>1, <2>1 DEF Rankable
    <2>3. \A i \in 1..n : x.nodes[i].node \in Int
      BY <2>2
    <2>4. [i \in 1..n |-> x.nodes[i].node] \in Seq(Int)
      BY <2>3
    <2> QED
      BY <2>1, <2>4
  <1> QED
    BY <1>1, ListsOrder DEF compare_node_sequences

LEMMA PlannerRankOrders ==
    ASSUME NEW a, NEW b, NEW c, Rankable(a), Rankable(b), Rankable(c)
    PROVE  /\ Triple(compare_planner_rank(a, b), compare_planner_rank(b, c),
                     compare_planner_rank(a, c))
           /\ Turned(compare_planner_rank(a, b), compare_planner_rank(b, a))
  <1>1. /\ a.has_planner_rank \in BOOLEAN /\ b.has_planner_rank \in BOOLEAN
        /\ c.has_planner_rank \in BOOLEAN
        /\ a.planner_rank \in Int /\ b.planner_rank \in Int /\ c.planner_rank \in Int
    BY DEF Rankable
  <1>2. \A x, y : compare_planner_rank(x, y)
                    = Optional(x.has_planner_rank, y.has_planner_rank,
                               Cmp(x.planner_rank, y.planner_rank))
    BY DEF compare_planner_rank, Optional
  <1>3. /\ Triple(Cmp(a.planner_rank, b.planner_rank), Cmp(b.planner_rank, c.planner_rank),
                  Cmp(a.planner_rank, c.planner_rank))
        /\ Turned(Cmp(a.planner_rank, b.planner_rank), Cmp(b.planner_rank, a.planner_rank))
    BY <1>1, CmpOrders
  <1> QED
    BY <1>1, <1>2, <1>3, OptionalOrders

LEMMA PlannerCostOrders ==
    ASSUME NEW a, NEW b, NEW c, Rankable(a), Rankable(b), Rankable(c), NEW policy
    PROVE  /\ Triple(compare_planner_cost(a, b, policy), compare_planner_cost(b, c, policy),
                     compare_planner_cost(a, c, policy))
           /\ Turned(compare_planner_cost(a, b, policy), compare_planner_cost(b, a, policy))
  <1>1. /\ a.has_planner_cost \in BOOLEAN /\ b.has_planner_cost \in BOOLEAN
        /\ c.has_planner_cost \in BOOLEAN
        /\ a.planner_cost \in Int /\ b.planner_cost \in Int /\ c.planner_cost \in Int
    BY DEF Rankable
  <1>2. CASE policy.prefer_lower_cost
    <2>1. \A x, y : compare_planner_cost(x, y, policy)
                      = Optional(x.has_planner_cost, y.has_planner_cost,
                                 Cmp(x.planner_cost, y.planner_cost))
      BY <1>2 DEF compare_planner_cost, Optional
    <2>2. /\ Triple(Cmp(a.planner_cost, b.planner_cost), Cmp(b.planner_cost, c.planner_cost),
                    Cmp(a.planner_cost, c.planner_cost))
          /\ Turned(Cmp(a.planner_cost, b.planner_cost), Cmp(b.planner_cost, a.planner_cost))
      BY <1>1, CmpOrders
    <2> QED
      BY <1>1, <2>1, <2>2, OptionalOrders
  <1>3. CASE ~policy.prefer_lower_cost
    <2>1. \A x, y : compare_planner_cost(x, y, policy)
                      = Optional(x.has_planner_cost, y.has_planner_cost,
                                 Cmp(y.planner_cost, x.planner_cost))
      BY <1>3 DEF compare_planner_cost, Optional
    <2>2. /\ Triple(Cmp(b.planner_cost, a.planner_cost), Cmp(c.planner_cost, b.planner_cost),
                    Cmp(c.planner_cost, a.planner_cost))
          /\ Turned(Cmp(b.planner_cost, a.planner_cost), Cmp(a.planner_cost, b.planner_cost))
      BY <1>1 DEF Cmp, Triple, Turned, Sign
    <2> QED
      BY <1>1, <2>1, <2>2, OptionalOrders
  <1> QED
    BY <1>2, <1>3

\* A record and a candidate as order_admissible pairs them.
RankedPair(r, a) == r.preferences \in Seq(Slot) /\ Rankable(a)

\* A comparison the policy leaves out ties everything.
LEMMA SwitchedOrders ==
    ASSUME NEW on, NEW x, NEW y, NEW z, Triple(x, y, z), NEW t, Turned(x, t)
    PROVE  /\ Triple(IF on THEN x ELSE 0, IF on THEN y ELSE 0, IF on THEN z ELSE 0)
           /\ Turned(IF on THEN x ELSE 0, IF on THEN t ELSE 0)
  <1>1. CASE on
    BY <1>1
  <1>2. CASE ~on
    BY <1>2, TiedTriple, Signs
  <1> QED
    BY <1>1, <1>2

\* Whatever the policy, compare_ranked answers for b and a the opposite of what
\* it answers for a and b, is transitive also where it ties, and ties no two
\* candidates of different paths.
LEMMA ComparisonsOrder ==
    ASSUME NEW policy, NEW ra, NEW a, NEW rb, NEW b, NEW rc, NEW c,
           RankedPair(ra, a), RankedPair(rb, b), RankedPair(rc, c)
    PROVE  /\ Triple(compare_ranked(ra, a, rb, b, policy), compare_ranked(rb, b, rc, c, policy),
                     compare_ranked(ra, a, rc, c, policy))
           /\ Turned(compare_ranked(ra, a, rb, b, policy), compare_ranked(rb, b, ra, a, policy))
           /\ compare_ranked(ra, a, rb, b, policy) = 0 => a.path = b.path
  <1> DEFINE preferences(p, q) == compare_preferences(p.preferences, q.preferences)
             rank(p, q) == IF policy.consume_planner_rank THEN compare_planner_rank(p, q) ELSE 0
             cost(p, q) == IF policy.consume_planner_cost
                           THEN compare_planner_cost(p, q, policy) ELSE 0
             names(p, q) == IF policy.tiebreak = "NodeSequenceLexicographic"
                            THEN compare_node_sequences(p, q) ELSE 0
             path(p, q) == Cmp(p.path, q.path)
             last(p, q) == OrElse(names(p, q), path(p, q))
             late(p, q) == OrElse(cost(p, q), last(p, q))
             mid(p, q) == OrElse(rank(p, q), late(p, q))
  <1>1. /\ Rankable(a) /\ Rankable(b) /\ Rankable(c)
        /\ a.path \in Int /\ b.path \in Int /\ c.path \in Int
        /\ ra.preferences \in Seq(Slot) /\ rb.preferences \in Seq(Slot)
        /\ rc.preferences \in Seq(Slot)
    <2>1. Rankable(a) /\ Rankable(b) /\ Rankable(c)
      BY DEF RankedPair
    <2>2. a.path \in Nat /\ b.path \in Nat /\ c.path \in Nat
      BY <2>1 DEF Rankable
    <2>3. a.path \in Int /\ b.path \in Int /\ c.path \in Int
      BY <2>2
    <2> QED
      BY <2>1, <2>3 DEF RankedPair
  <1>2. /\ Triple(preferences(ra, rb), preferences(rb, rc), preferences(ra, rc))
        /\ Turned(preferences(ra, rb), preferences(rb, ra))
    BY <1>1, PreferencesOrder
  <1>3. Triple(rank(a, b), rank(b, c), rank(a, c)) /\ Turned(rank(a, b), rank(b, a))
    BY <1>1, PlannerRankOrders, SwitchedOrders, SMTT(60), ZenonT(60)
  <1>4. Triple(cost(a, b), cost(b, c), cost(a, c)) /\ Turned(cost(a, b), cost(b, a))
    BY <1>1, PlannerCostOrders, SwitchedOrders, SMTT(60)
  <1>5. Triple(names(a, b), names(b, c), names(a, c)) /\ Turned(names(a, b), names(b, a))
    BY <1>1, NodeSequencesOrder, SwitchedOrders, ZenonT(60)
  <1>6. /\ Triple(path(a, b), path(b, c), path(a, c)) /\ Turned(path(a, b), path(b, a))
        /\ path(a, b) = 0 => a.path = b.path
    BY <1>1, CmpOrders
  <1>7. \A rp, p, rq, q :
          compare_ranked(rp, p, rq, q, policy) = OrElse(preferences(rp, rq), mid(p, q))
    BY DEF compare_ranked
  <1> HIDE DEF preferences, rank, cost, names, path
  <1>8. Triple(last(a, b), last(b, c), last(a, c)) /\ Turned(last(a, b), last(b, a))
    BY <1>5, <1>6, OrElseKeeps, OrElseTurns
  <1>9. last(a, b) = 0 => a.path = b.path
    BY <1>6 DEF OrElse
  <1> HIDE DEF last
  <1>10. Triple(late(a, b), late(b, c), late(a, c)) /\ Turned(late(a, b), late(b, a))
    BY <1>4, <1>8, OrElseKeeps, OrElseTurns
  <1>11. late(a, b) = 0 => a.path = b.path
    BY <1>9 DEF OrElse
  <1> HIDE DEF late
  <1>12. Triple(mid(a, b), mid(b, c), mid(a, c)) /\ Turned(mid(a, b), mid(b, a))
    BY <1>3, <1>10, OrElseKeeps, OrElseTurns
  <1>13. mid(a, b) = 0 => a.path = b.path
    BY <1>11 DEF OrElse
  <1> HIDE DEF mid
  <1>14. /\ Triple(OrElse(preferences(ra, rb), mid(a, b)), OrElse(preferences(rb, rc), mid(b, c)),
                   OrElse(preferences(ra, rc), mid(a, c)))
         /\ Turned(OrElse(preferences(ra, rb), mid(a, b)), OrElse(preferences(rb, ra), mid(b, a)))
    BY <1>2, <1>12, OrElseKeeps, OrElseTurns
  <1>15. OrElse(preferences(ra, rb), mid(a, b)) = 0 => a.path = b.path
    BY <1>13 DEF OrElse
  <1> QED
    BY <1>7, <1>14, <1>15

RanksBefore(ra, a, rb, b, policy) == compare_ranked(ra, a, rb, b, policy) < 0

\* The predicate order_admissible hands to std::stable_sort is a strict total
\* order of the candidates of different paths, under every policy: irreflexive,
\* transitive, and of two candidates of different paths exactly one ranks before
\* the other.  The sort's behaviour is undefined without it, and the ranking
\* would depend on the order the candidates arrived in.
THEOREM RankingIsTotalOrder ==
    ASSUME NEW policy, NEW ra, NEW a, NEW rb, NEW b, NEW rc, NEW c,
           RankedPair(ra, a), RankedPair(rb, b), RankedPair(rc, c)
    PROVE  /\ ~RanksBefore(ra, a, ra, a, policy)
           /\ RanksBefore(ra, a, rb, b, policy) /\ RanksBefore(rb, b, rc, c, policy) =>
                 RanksBefore(ra, a, rc, c, policy)
           /\ ~(RanksBefore(ra, a, rb, b, policy) /\ RanksBefore(rb, b, ra, a, policy))
           /\ a.path # b.path =>
                 RanksBefore(ra, a, rb, b, policy) \/ RanksBefore(rb, b, ra, a, policy)
  <1>1. /\ Triple(compare_ranked(ra, a, rb, b, policy), compare_ranked(rb, b, rc, c, policy),
                  compare_ranked(ra, a, rc, c, policy))
        /\ Turned(compare_ranked(ra, a, rb, b, policy), compare_ranked(rb, b, ra, a, policy))
        /\ compare_ranked(ra, a, rb, b, policy) = 0 => a.path = b.path
    BY ComparisonsOrder
  <1>2. Turned(compare_ranked(ra, a, ra, a, policy), compare_ranked(ra, a, ra, a, policy))
    BY ComparisonsOrder
  <1> QED
    BY <1>1, <1>2 DEF RanksBefore, Triple, Turned, Sign

\* A strict total order of a set, as a set of pairs.
StrictOrder(S, less) ==
    /\ \A x \in S : <<x, x>> \notin less
    /\ \A x, y, z \in S : <<x, y>> \in less /\ <<y, z>> \in less => <<x, z>> \in less
    /\ \A x, y \in S : x # y => <<x, y>> \in less \/ <<y, x>> \in less

\* The elements below x.
Lower(S, less, x) == {y \in S : <<y, x>> \in less}

\* In a strict total order different elements have different numbers of elements
\* below them, and every number below the size of the set occurs.
LEMMA PlacesAreBijective ==
    ASSUME NEW S, IsFiniteSet(S), NEW less, StrictOrder(S, less)
    PROVE  /\ \A x \in S : Cardinality(Lower(S, less, x)) + 1 \in 1..Cardinality(S)
           /\ \A x, y \in S : <<x, y>> \in less =>
                 Cardinality(Lower(S, less, x)) < Cardinality(Lower(S, less, y))
           /\ \A k \in 1..Cardinality(S) : \E x \in S : Cardinality(Lower(S, less, x)) + 1 = k
  <1> DEFINE n == Cardinality(S)
             place == [x \in S |-> Cardinality(Lower(S, less, x)) + 1]
  <1>0. n \in Nat
    BY FS_CardinalityType
  <1>1. \A x \in S : /\ IsFiniteSet(Lower(S, less, x))
                     /\ Cardinality(Lower(S, less, x)) \in Nat
                     /\ Cardinality(Lower(S, less, x)) < n
    <2> SUFFICES ASSUME NEW x \in S
                 PROVE  /\ IsFiniteSet(Lower(S, less, x))
                        /\ Cardinality(Lower(S, less, x)) \in Nat
                        /\ Cardinality(Lower(S, less, x)) < n
      OBVIOUS
    <2>1. Lower(S, less, x) \in SUBSET S /\ x \notin Lower(S, less, x)
      BY DEF Lower, StrictOrder
    <2> HIDE DEF n
    <2>2. IsFiniteSet(Lower(S, less, x)) /\ Cardinality(Lower(S, less, x)) <= Cardinality(S)
          /\ (Cardinality(S) = Cardinality(Lower(S, less, x)) => S = Lower(S, less, x))
      BY <2>1, FS_Subset
    <2>3. Cardinality(Lower(S, less, x)) # Cardinality(S)
      BY <2>1, <2>2
    <2>4. Cardinality(Lower(S, less, x)) \in Nat
      BY <2>2, FS_CardinalityType
    <2> QED
      BY <1>0, <2>2, <2>3, <2>4 DEF n
  <1>2. \A x, y \in S : <<x, y>> \in less =>
           Cardinality(Lower(S, less, x)) < Cardinality(Lower(S, less, y))
    <2> SUFFICES ASSUME NEW x \in S, NEW y \in S, <<x, y>> \in less
                 PROVE  Cardinality(Lower(S, less, x)) < Cardinality(Lower(S, less, y))
      OBVIOUS
    <2>1. x \in Lower(S, less, y) /\ x \notin Lower(S, less, x)
      BY DEF Lower, StrictOrder
    <2>2. Lower(S, less, x) \in SUBSET Lower(S, less, y)
      BY DEF Lower, StrictOrder
    <2> DEFINE a == Lower(S, less, x)  b == Lower(S, less, y)
    <2> HIDE DEF a, b, n
    <2>3. Cardinality(a) \in Nat /\ Cardinality(b) \in Nat /\ IsFiniteSet(b)
      BY <1>1 DEF a, b
    <2>4. Cardinality(a) <= Cardinality(b) /\ (Cardinality(b) = Cardinality(a) => b = a)
      BY <2>2, <2>3, FS_Subset DEF a, b
    <2>5. Cardinality(a) # Cardinality(b)
      BY <2>1, <2>4 DEF a, b
    <2>6. Cardinality(a) < Cardinality(b)
      BY <2>3, <2>4, <2>5
    <2> QED
      BY <2>6 DEF a, b
  <1>3. \A x \in S : Cardinality(Lower(S, less, x)) + 1 \in 1..n
    <2> HIDE DEF n
    <2> QED BY <1>0, <1>1
  <1>4. place \in [S -> 1..n]
    BY <1>3
  <1>5. \A x, y \in S : place[x] = place[y] => x = y
    <2> SUFFICES ASSUME NEW x \in S, NEW y \in S, x # y
                 PROVE  place[x] # place[y]
      OBVIOUS
    <2>1. Cardinality(Lower(S, less, x)) \in Nat /\ Cardinality(Lower(S, less, y)) \in Nat
      BY <1>1
    <2>2. \/ Cardinality(Lower(S, less, x)) < Cardinality(Lower(S, less, y))
          \/ Cardinality(Lower(S, less, y)) < Cardinality(Lower(S, less, x))
      BY <1>2 DEF StrictOrder
    <2> QED
      BY <2>1, <2>2
  <1>6. place \in Injection(S, 1..n)
    BY <1>4, <1>5, Fun_IsInj
  <1>7. IsFiniteSet(1..n) /\ Cardinality(1..n) = n
    <2> HIDE DEF n
    <2>1. 1 \in Int /\ n \in Int
      BY <1>0
    <2>2. IsFiniteSet(1..n) /\ Cardinality(1..n) = IF 1 > n THEN 0 ELSE n - 1 + 1
      BY <2>1, FS_Interval
    <2> QED
      BY <1>0, <2>2
  <1>8. place \in Surjection(S, 1..n)
    BY <1>6, <1>7, FS_Injection
  <1>9. \A k \in 1..n : \E x \in S : place[x] = k
    <2> HIDE DEF place
    <2> QED
      BY <1>8, Fun_SurjectionProperties
  <1> QED
    BY <1>2, <1>3, <1>9

\* Ascending enumerates the set, each element once and after those below it.
LEMMA AscendingSorts ==
    ASSUME NEW S, IsFiniteSet(S), NEW less, StrictOrder(S, less)
    PROVE  /\ Cardinality(S) \in Nat
           /\ Ascending(S, less) \in [1..Cardinality(S) -> S]
           /\ \A x \in S : \E k \in 1..Cardinality(S) : Ascending(S, less)[k] = x
           /\ \A j, k \in 1..Cardinality(S) :
                 j < k <=> <<Ascending(S, less)[j], Ascending(S, less)[k]>> \in less
  <1> DEFINE n == Cardinality(S)
             at == Ascending(S, less)
             count(x) == Cardinality(Lower(S, less, x)) + 1
  <1>0. n \in Nat
    BY FS_CardinalityType
  <1>1. at = [k \in 1..n |-> CHOOSE x \in S : count(x) = k]
    BY DEF Ascending, Lower
  <1>2. /\ \A x \in S : count(x) \in 1..n
        /\ \A x, y \in S : <<x, y>> \in less => count(x) < count(y)
        /\ \A k \in 1..n : \E x \in S : count(x) = k
    <2>1. /\ \A x \in S : Cardinality(Lower(S, less, x)) + 1 \in 1..Cardinality(S)
          /\ \A x, y \in S : <<x, y>> \in less =>
                 Cardinality(Lower(S, less, x)) < Cardinality(Lower(S, less, y))
          /\ \A k \in 1..Cardinality(S) : \E x \in S : Cardinality(Lower(S, less, x)) + 1 = k
      BY PlacesAreBijective
    <2>2. \A x \in S : Cardinality(Lower(S, less, x)) \in Nat
      <3> SUFFICES ASSUME NEW x \in S PROVE Cardinality(Lower(S, less, x)) \in Nat
        OBVIOUS
      <3>1. Lower(S, less, x) \in SUBSET S
        BY DEF Lower
      <3> QED
        BY <3>1, FS_Subset, FS_CardinalityType
    <2>3. \A x, y \in S : <<x, y>> \in less => count(x) < count(y)
      BY <2>1, <2>2
    <2> QED
      BY <2>1, <2>3
  <1> HIDE DEF n, at, count
  <1>3. \A k \in 1..n : at[k] \in S /\ count(at[k]) = k
    BY <1>1, <1>2
  <1>4. at \in [1..n -> S]
    BY <1>1, <1>3
  <1>5. \A x, y \in S : count(x) = count(y) => x = y
    <2> SUFFICES ASSUME NEW x \in S, NEW y \in S, x # y
                 PROVE  count(x) # count(y)
      OBVIOUS
    <2>1. count(x) \in Int /\ count(y) \in Int
      BY <1>0, <1>2
    <2>2. count(x) < count(y) \/ count(y) < count(x)
      BY <1>2 DEF StrictOrder
    <2> QED
      BY <2>1, <2>2
  <1>6. \A x \in S : \E k \in 1..n : at[k] = x
    BY <1>2, <1>3, <1>5
  <1>7. \A j, k \in 1..n : j < k <=> <<at[j], at[k]>> \in less
    <2> SUFFICES ASSUME NEW j \in 1..n, NEW k \in 1..n
                 PROVE  j < k <=> <<at[j], at[k]>> \in less
      OBVIOUS
    <2>1. at[j] \in S /\ at[k] \in S /\ count(at[j]) = j /\ count(at[k]) = k
      BY <1>3
    <2>2. <<at[j], at[k]>> \in less => j < k
      BY <1>2, <2>1
    <2>3. <<at[k], at[j]>> \in less => k < j
      BY <1>2, <2>1
    <2>4. ~(j < k /\ k < j) /\ (j < k => j # k)
      BY <1>0
    <2>5. j < k => at[j] # at[k]
      BY <2>1, <2>4
    <2> QED
      BY <2>1, <2>2, <2>3, <2>4, <2>5 DEF StrictOrder
  <1> QED
    BY <1>0, <1>4, <1>6, <1>7 DEF n, at

\* An enumeration that is in order is the one Ascending gives.
LEMMA AscendingIsUnique ==
    ASSUME NEW S, IsFiniteSet(S), NEW less, StrictOrder(S, less),
           NEW n \in Nat, NEW f \in [1..n -> S],
           \A x \in S : \E k \in 1..n : f[k] = x,
           \A j, k \in 1..n : j < k => <<f[j], f[k]>> \in less
    PROVE  n = Cardinality(S) /\ f = Ascending(S, less)
  <1>1. \A j, k \in 1..n : f[j] = f[k] => j = k
    <2> SUFFICES ASSUME NEW j \in 1..n, NEW k \in 1..n, j # k
                 PROVE  f[j] # f[k]
      OBVIOUS
    <2>1. j < k \/ k < j
      OBVIOUS
    <2>2. <<f[j], f[k]>> \in less \/ <<f[k], f[j]>> \in less
      BY <2>1
    <2> QED
      BY <2>2 DEF StrictOrder
  <1>2. \A j, k \in 1..n : <<f[j], f[k]>> \in less => j < k
    <2> SUFFICES ASSUME NEW j \in 1..n, NEW k \in 1..n, <<f[j], f[k]>> \in less, ~(j < k)
                 PROVE  FALSE
      OBVIOUS
    <2>1. j = k \/ k < j
      OBVIOUS
    <2>2. f[j] \in S /\ f[k] \in S
      OBVIOUS
    <2>3. CASE j = k
      BY <2>2, <2>3 DEF StrictOrder
    <2>4. CASE k < j
      BY <2>2, <2>4 DEF StrictOrder
    <2> QED
      BY <2>1, <2>3, <2>4
  <1>3. \A m \in Nat : IsFiniteSet(1..m) /\ Cardinality(1..m) = m
    <2> SUFFICES ASSUME NEW m \in Nat PROVE IsFiniteSet(1..m) /\ Cardinality(1..m) = m
      OBVIOUS
    <2>1. IsFiniteSet(1..m) /\ Cardinality(1..m) = IF 1 > m THEN 0 ELSE m - 1 + 1
      BY FS_Interval
    <2> QED
      BY <2>1
  <1>4. \A k \in 1..n : Cardinality(Lower(S, less, f[k])) + 1 = k
    <2> SUFFICES ASSUME NEW k \in 1..n PROVE Cardinality(Lower(S, less, f[k])) + 1 = k
      OBVIOUS
    <2> DEFINE m == k - 1
               B == Lower(S, less, f[k])
               g == [j \in 1..m |-> f[j]]
    <2>0. m \in Nat /\ (\A j \in 1..m : j \in 1..n /\ j < k) /\ (\A j \in 1..n : j < k => j \in 1..m)
      OBVIOUS
    <2> HIDE DEF m
    <2>1. \A j \in 1..m : f[j] \in B
      BY <2>0 DEF Lower
    <2>2. \A x \in B : \E j \in 1..m : f[j] = x
      <3> SUFFICES ASSUME NEW x \in B PROVE \E j \in 1..m : f[j] = x
        OBVIOUS
      <3>1. x \in S /\ <<x, f[k]>> \in less
        BY DEF Lower
      <3>2. PICK j \in 1..n : f[j] = x
        BY <3>1
      <3>3. j < k
        BY <1>2, <3>1, <3>2
      <3> QED
        BY <2>0, <3>2, <3>3
    <2> HIDE DEF B
    <2>3. g \in [1..m -> B] /\ (\A i, j \in 1..m : g[i] = g[j] => i = j)
          /\ (\A x \in B : \E j \in 1..m : g[j] = x)
      BY <1>1, <2>0, <2>1, <2>2
    <2> HIDE DEF g
    <2>4. g \in Bijection(1..m, B)
      BY <2>3, Fun_IsBij
    <2>5. Cardinality(B) = m
      BY <1>3, <2>0, <2>4, FS_Bijection DEF ExistsBijection
    <2> QED
      BY <2>5 DEF B, m
  <1>5. f \in Bijection(1..n, S)
    BY <1>1, Fun_IsBij
  <1>6. Cardinality(S) = n
    BY <1>3, <1>5, FS_Bijection DEF ExistsBijection
  <1>7. \A x, y \in S : Cardinality(Lower(S, less, x)) + 1 = Cardinality(Lower(S, less, y)) + 1 => x = y
    <2> SUFFICES ASSUME NEW x \in S, NEW y \in S,
                        Cardinality(Lower(S, less, x)) + 1 = Cardinality(Lower(S, less, y)) + 1
                 PROVE  x = y
      OBVIOUS
    <2>1. PICK i \in 1..n, j \in 1..n : f[i] = x /\ f[j] = y
      OBVIOUS
    <2>2. i = j
      BY <1>4, <2>1
    <2> QED
      BY <2>1, <2>2
  <1>8. \A k \in 1..n : f[k] = CHOOSE x \in S : Cardinality(Lower(S, less, x)) + 1 = k
    BY <1>4, <1>7
  <1>9. Ascending(S, less) = [k \in 1..n |-> CHOOSE x \in S : Cardinality(Lower(S, less, x)) + 1 = k]
    BY <1>6 DEF Ascending, Lower
  <1> QED
    BY <1>6, <1>8, <1>9

\* A strict order in which some elements may be tied.
WeakOrder(S, less) ==
    /\ \A x \in S : <<x, x>> \notin less
    /\ \A x, y, z \in S : <<x, y>> \in less /\ <<y, z>> \in less => <<x, z>> \in less
    /\ \A x, y, z \in S : <<x, z>> \in less => <<x, y>> \in less \/ <<y, z>> \in less

LEMMA StablyOrders ==
    ASSUME NEW positions \in SUBSET Int, NEW less, WeakOrder(positions, less)
    PROVE  StrictOrder(positions, Stably(positions, less))
  <1>0. \A x, y \in positions : <<x, y>> \in Stably(positions, less) <=>
           (<<x, y>> \in less \/ (<<y, x>> \notin less /\ x < y))
    BY DEF Stably
  <1>1. \A x, y \in positions : <<x, y>> \in less => <<y, x>> \notin less
    BY DEF WeakOrder
  <1>2. \A x \in positions : <<x, x>> \notin Stably(positions, less)
    <2> SUFFICES ASSUME NEW x \in positions PROVE <<x, x>> \notin Stably(positions, less)
      OBVIOUS
    <2>1. ~(x < x)
      OBVIOUS
    <2> QED
      BY <1>0, <2>1 DEF WeakOrder
  <1>3. ASSUME NEW x \in positions, NEW y \in positions, NEW z \in positions,
               <<x, y>> \in Stably(positions, less), <<y, z>> \in Stably(positions, less)
        PROVE  <<x, z>> \in Stably(positions, less)
    <2>1. <<x, y>> \in less \/ (<<y, x>> \notin less /\ x < y)
      BY <1>0, <1>3
    <2>2. <<y, z>> \in less \/ (<<z, y>> \notin less /\ y < z)
      BY <1>0, <1>3
    <2>3. <<x, z>> \in less \/ (<<z, x>> \notin less /\ x < z)
      BY <1>1, <2>1, <2>2 DEF WeakOrder
    <2> QED
      BY <1>0, <2>3
  <1>4. \A x, y \in positions : x # y =>
           <<x, y>> \in Stably(positions, less) \/ <<y, x>> \in Stably(positions, less)
    BY <1>0
  <1> QED
    BY <1>2, <1>3, <1>4 DEF StrictOrder

\* The order of the numbers.
LEMMA NumbersOrder ==
    ASSUME NEW S \in SUBSET Int
    PROVE  StrictOrder(S, {xy \in S \X S : xy[1] < xy[2]})
  <1>1. \A x, y \in S : <<x, y>> \in {xy \in S \X S : xy[1] < xy[2]} <=> x < y
    OBVIOUS
  <1> QED
    BY <1>1 DEF StrictOrder

\* Increasing lists a finite set of numbers.
LEMMA IncreasingSorts ==
    ASSUME NEW S \in SUBSET Int, IsFiniteSet(S)
    PROVE  /\ Cardinality(S) \in Nat
           /\ Increasing(S) \in [1..Cardinality(S) -> S]
           /\ \A x \in S : \E k \in 1..Cardinality(S) : Increasing(S)[k] = x
           /\ \A j, k \in 1..Cardinality(S) : j < k <=> Increasing(S)[j] < Increasing(S)[k]
  <1> DEFINE less == {xy \in S \X S : xy[1] < xy[2]}
  <1>1. StrictOrder(S, less)
    BY NumbersOrder
  <1>2. \A x, y \in S : <<x, y>> \in less <=> x < y
    OBVIOUS
  <1>3. Increasing(S) = Ascending(S, less)
    BY DEF Increasing
  <1> HIDE DEF less
  <1>4. /\ Cardinality(S) \in Nat
        /\ Ascending(S, less) \in [1..Cardinality(S) -> S]
        /\ \A x \in S : \E k \in 1..Cardinality(S) : Ascending(S, less)[k] = x
        /\ \A j, k \in 1..Cardinality(S) :
              j < k <=> <<Ascending(S, less)[j], Ascending(S, less)[k]>> \in less
    BY <1>1, AscendingSorts
  <1>5. \A j, k \in 1..Cardinality(S) : j < k <=> Ascending(S, less)[j] < Ascending(S, less)[k]
    BY <1>2, <1>4
  <1> QED
    BY <1>3, <1>4, <1>5

\* Where a stable sort takes the elements from.
SortOrder(n, less) == Ascending(1..n, Stably(1..n, less))

\* What stable_sort leaves: the same elements, none before a lesser one.
LEMMA ArrangedSorts ==
    ASSUME NEW n \in Nat, NEW s, DOMAIN s = 1..n, NEW less, WeakOrder(1..n, less)
    PROVE  /\ SortOrder(n, less) \in [1..n -> 1..n]
           /\ Arranged(s, less) = [k \in 1..n |-> s[SortOrder(n, less)[k]]]
           /\ \A i \in 1..n : \E k \in 1..n : SortOrder(n, less)[k] = i
           /\ \A j, k \in 1..n : j < k =>
                 /\ SortOrder(n, less)[j] # SortOrder(n, less)[k]
                 /\ <<SortOrder(n, less)[k], SortOrder(n, less)[j]>> \notin less
                 /\ \/ <<SortOrder(n, less)[j], SortOrder(n, less)[k]>> \in less
                    \/ SortOrder(n, less)[j] < SortOrder(n, less)[k]
  <1> DEFINE R == Stably(1..n, less)
             order == Ascending(1..n, R)
  <1>0. SortOrder(n, less) = order
    BY DEF SortOrder
  <1>1. StrictOrder(1..n, R)
    BY StablyOrders
  <1>2. IsFiniteSet(1..n) /\ Cardinality(1..n) = n
    <2>1. IsFiniteSet(1..n) /\ Cardinality(1..n) = IF 1 > n THEN 0 ELSE n - 1 + 1
      BY FS_Interval
    <2> QED
      BY <2>1
  <1>3. \A x, y \in 1..n : <<x, y>> \in R => x # y /\ <<y, x>> \notin less /\ (<<x, y>> \in less \/ x < y)
    <2>1. \A x, y \in 1..n : <<x, y>> \in R => <<x, y>> \in less \/ (<<y, x>> \notin less /\ x < y)
      BY DEF Stably
    <2>2. \A x, y \in 1..n : <<x, y>> \in less => <<y, x>> \notin less /\ x # y
      BY DEF WeakOrder
    <2> QED
      BY <2>1, <2>2
  <1>4. Arranged(s, less) = [k \in 1..n |-> s[order[k]]]
    BY DEF Arranged
  <1> HIDE DEF R
  <1>5. /\ order \in [1..n -> 1..n]
        /\ \A x \in 1..n : \E k \in 1..n : order[k] = x
        /\ \A j, k \in 1..n : j < k <=> <<order[j], order[k]>> \in R
    <2>1. /\ order \in [1..Cardinality(1..n) -> 1..n]
          /\ \A x \in 1..n : \E k \in 1..Cardinality(1..n) : order[k] = x
          /\ \A j, k \in 1..Cardinality(1..n) : j < k <=> <<order[j], order[k]>> \in R
      BY <1>1, <1>2, AscendingSorts
    <2> HIDE DEF order
    <2> QED
      BY <1>2, <2>1
  <1> HIDE DEF order
  <1>6. \A j, k \in 1..n : j < k => 
                    /\ order[j] # order[k]
                    /\ <<order[k], order[j]>> \notin less
                    /\ <<order[j], order[k]>> \in less \/ order[j] < order[k]
    BY <1>3, <1>5
  <1> QED
    BY <1>0, <1>4, <1>5, <1>6

\* The pairs a three-way comparison puts in order are a weak order.
LEMMA ComparisonIsWeakOrder ==
    ASSUME NEW S, NEW cmp,
           \A x, y, z \in S : Triple(cmp[<<x, y>>], cmp[<<y, z>>], cmp[<<x, z>>]),
           \A x, y \in S : Turned(cmp[<<x, y>>], cmp[<<y, x>>])
    PROVE  WeakOrder(S, {xy \in S \X S : cmp[xy] < 0})
  <1> DEFINE less == {xy \in S \X S : cmp[xy] < 0}
  <1>0. \A x, y \in S : <<x, y>> \in less <=> cmp[<<x, y>>] < 0
    OBVIOUS
  <1> HIDE DEF less
  <1>1. \A x \in S : <<x, x>> \notin less
    <2> SUFFICES ASSUME NEW x \in S PROVE <<x, x>> \notin less
      OBVIOUS
    <2>1. Turned(cmp[<<x, x>>], cmp[<<x, x>>])
      OBVIOUS
    <2>2. ~(cmp[<<x, x>>] < 0)
      BY <2>1 DEF Turned, Sign
    <2> QED
      BY <1>0, <2>2
  <1>2. \A x, y, z \in S : <<x, y>> \in less /\ <<y, z>> \in less => <<x, z>> \in less
    <2> SUFFICES ASSUME NEW x \in S, NEW y \in S, NEW z \in S,
                        cmp[<<x, y>>] < 0, cmp[<<y, z>>] < 0
                 PROVE  cmp[<<x, z>>] < 0
      BY <1>0
    <2>1. Triple(cmp[<<x, y>>], cmp[<<y, z>>], cmp[<<x, z>>])
      OBVIOUS
    <2> QED
      BY <2>1 DEF Triple, Sign
  <1>3. \A x, y, z \in S : <<x, z>> \in less => <<x, y>> \in less \/ <<y, z>> \in less
    <2> SUFFICES ASSUME NEW x \in S, NEW y \in S, NEW z \in S, cmp[<<x, z>>] < 0
                 PROVE  cmp[<<x, y>>] < 0 \/ cmp[<<y, z>>] < 0
      BY <1>0
    <2>1. Triple(cmp[<<x, y>>], cmp[<<y, z>>], cmp[<<x, z>>])
      OBVIOUS
    <2> QED
      BY <2>1 DEF Triple, Sign
  <1>4. WeakOrder(S, less)
    BY <1>1, <1>2, <1>3 DEF WeakOrder
  <1> QED
    BY <1>4 DEF less

\* Only a list ties with itself.
LEMMA ListsTie ==
    ASSUME NEW a \in Seq(Int), NEW b \in Seq(Int)
    PROVE  compare_lists(a, b) = 0 <=> a = b
  <1> DEFINE f == Places(Cmp, a, b)
             m == Len(a)
             n == Len(b)
             k == Shorter(m, n)
  <1>0. /\ m \in Nat /\ n \in Nat /\ k \in Nat /\ k <= m /\ k <= n
        /\ \A i \in 1..m : a[i] \in Int
        /\ \A i \in 1..n : b[i] \in Int
        /\ a = [i \in 1..m |-> a[i]] /\ b = [i \in 1..n |-> b[i]]
    BY DEF Shorter
  <1>1. compare_lists(a, b) = Lexical(f, m, n)
    BY ListsAreLexical
  <1>2. \A i \in 1..k : f[i] = Cmp(a[i], b[i])
    BY DEF Places
  <1>k. k = Shorter(m, n)
    OBVIOUS
  <1> HIDE DEF f, m, n, k
  <1>n. m \in Nat /\ n \in Nat /\ k \in Nat /\ k <= m /\ k <= n
    BY <1>0
  <1>3. \A i \in 1..k : f[i] \in Sign /\ (f[i] = 0 <=> a[i] = b[i])
    <2> SUFFICES ASSUME NEW i \in 1..k PROVE f[i] \in Sign /\ (f[i] = 0 <=> a[i] = b[i])
      OBVIOUS
    <2>0. i \in 1..m /\ i \in 1..n
      BY <1>n
    <2>1. a[i] \in Int /\ b[i] \in Int /\ f[i] = Cmp(a[i], b[i])
      BY <1>0, <1>2, <2>0
    <2> QED
      BY <2>1 DEF Cmp, Sign
  <1>4. ASSUME a = b PROVE Lexical(f, m, n) = 0
    <2>1. m = n /\ \A i \in 1..k : f[i] = 0
      BY <1>3, <1>4 DEF m, n
    <2>2. Lexical(f, m, n) = Cmp(m, n)
      BY <1>0, <1>k, <2>1, LengthsDecide
    <2> QED
      BY <1>0, <2>1, <2>2 DEF Cmp
  <1>5. ASSUME Lexical(f, m, n) = 0 PROVE a = b
    <2>1. \A i \in 1..k : f[i] = 0
      <3> SUFFICES ASSUME \E i \in 1..k : f[i] # 0
                   PROVE  FALSE
        OBVIOUS
      <3> DEFINE D == {i \in 1..k : f[i] # 0}
      <3>1. PICK i \in D : \A j \in D : i <= j
        <4>1. D \in SUBSET Nat /\ D # {}
          BY <1>0
        <4> QED
          BY <4>1, Least
      <3>2. i \in 1..k /\ f[i] # 0 /\ \A j \in 1..(i - 1) : f[j] = 0
        <4>1. i \in 1..k /\ f[i] # 0
          BY <3>1
        <4>2. \A j \in 1..(i - 1) : j \in 1..k /\ ~(i <= j)
          BY <1>n, <4>1
        <4> QED
          BY <3>1, <4>1, <4>2
      <3>3. Lexical(f, m, n) = f[i]
        BY <1>0, <1>k, <3>2, FirstDecides
      <3> QED
        BY <1>5, <3>2, <3>3
    <2>2. Lexical(f, m, n) = Cmp(m, n)
      BY <1>0, <1>k, <2>1, LengthsDecide
    <2>3. m = n
      BY <1>0, <1>5, <2>2 DEF Cmp
    <2>4. k = m
      BY <1>0, <1>k, <2>3 DEF Shorter
    <2>5. \A i \in 1..m : a[i] = b[i]
      BY <1>3, <2>1, <2>4
    <2> QED
      BY <1>0, <2>3, <2>5
  <1> QED
    BY <1>1, <1>4, <1>5
=============================================================================
