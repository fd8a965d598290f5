----------------------------- MODULE ListLemmas -----------------------------
(***************************************************************************)
(* What filter, find and slice give the tables, for every list and every    *)
(* page size.  Facts about the loop of filter need induction over the       *)
(* places of a list.  The library's induction theorems take an operator as   *)
(* a parameter, which the provers cannot instantiate; here the induction is *)
(* over a set of naturals, and rests on the least element of its complement. *)
(***************************************************************************)
EXTENDS Lists, FunctionTheorems, FiniteSetTheorems, SequenceTheorems, WellFoundedInduction, TLAPS

(* A set of naturals that is not empty has a least element. *)
LEMMA Least ==
  ASSUME NEW T \in SUBSET Nat, T # {}
  PROVE  \E x \in T : \A y \in T : x <= y
<1>1. PICK x \in T : \A y \in T : ~(<<y, x>> \in OpToRel(<, Nat))
  BY NatLessThanWellFounded, WFMin, Zenon
<1>2. \A y \in T : ~(y < x)
  BY <1>1 DEF OpToRel
<1> QED
  BY <1>2

(* A set of naturals that has 0 and the successor of each of its elements  *)
(* is the set of all naturals.                                              *)
LEMMA Induction ==
  ASSUME NEW T \in SUBSET Nat, 0 \in T, \A n \in T : n + 1 \in T
  PROVE  T = Nat
<1> SUFFICES ASSUME T # Nat PROVE FALSE
  OBVIOUS
<1>1. PICK x \in Nat \ T : \A y \in Nat \ T : x <= y
  <2>1. Nat \ T \in SUBSET Nat /\ Nat \ T # {}
    OBVIOUS
  <2> QED
    BY <2>1, Least, Zenon
<1>2. x # 0 /\ x - 1 \in Nat /\ x - 1 \in T
  BY <1>1
<1> QED
  BY <1>2

(* The loop of filter. *)
Loops(kept, list, places) ==
  \A i \in 0 .. Len(list) :
     kept[i] = IF i = 0 THEN <<>>
               ELSE IF i \in places THEN Append(kept[i - 1], list[i]) ELSE kept[i - 1]

(* The recursive function that models filter is defined: at every place it *)
(* is what one more round of the loop makes of the place before.            *)
LEMMA KeptLoops ==
  ASSUME NEW list, NEW places, Len(list) \in Nat
  PROVE  Loops(KeptAfter(list, places), list, places)
<1> DEFINE Is(f, n) == f = [i \in 0 .. n |->
                              IF i = 0 THEN <<>>
                              ELSE IF i \in places THEN Append(f[i - 1], list[i]) ELSE f[i - 1]]
           T == {n \in Nat : \E f : Is(f, n)}
<1>1. 0 \in T
  <2>1. Is([i \in 0 .. 0 |-> <<>>], 0)
    OBVIOUS
  <2> QED
    BY <2>1
<1>2. ASSUME NEW n \in T PROVE n + 1 \in T
  <2>1. PICK f : Is(f, n)
    BY <1>2
  <2> DEFINE g == [i \in 0 .. n + 1 |->
                     IF i \in 0 .. n THEN f[i]
                     ELSE IF n + 1 \in places THEN Append(f[n], list[n + 1]) ELSE f[n]]
  <2>2. \A i \in 0 .. n : g[i] = f[i]
    OBVIOUS
  <2>3. g[n + 1] = IF n + 1 \in places THEN Append(f[n], list[n + 1]) ELSE f[n]
    OBVIOUS
  <2>4. \A i \in 0 .. n : f[i] = IF i = 0 THEN <<>>
                                 ELSE IF i \in places THEN Append(f[i - 1], list[i]) ELSE f[i - 1]
    BY <2>1
  <2>5. g = [i \in 0 .. n + 1 |-> g[i]]
    OBVIOUS
  <2> HIDE DEF g
  <2>6. \A i \in 0 .. n + 1 : g[i] = IF i = 0 THEN <<>>
                                     ELSE IF i \in places THEN Append(g[i - 1], list[i]) ELSE g[i - 1]
    <3> TAKE i \in 0 .. n + 1
    <3>1. CASE i = 0
      BY <3>1, <2>2, <2>4
    <3>2. CASE i \in 1 .. n
      <4>1. i - 1 \in 0 .. n /\ i \in 0 .. n
        BY <3>2
      <4> QED
        BY <4>1, <3>2, <2>2, <2>4
    <3>3. CASE i = n + 1
      <4>1. i - 1 = n /\ n \in 0 .. n /\ i # 0
        BY <3>3
      <4> QED
        BY <4>1, <3>3, <2>2, <2>3
    <3> QED
      BY <3>1, <3>2, <3>3
  <2>7. Is(g, n + 1)
    BY <2>5, <2>6
  <2> HIDE DEF Is
  <2> QED
    BY <2>7
<1>3. \E f : Is(f, Len(list))
  <2> HIDE DEF Is
  <2>1. T \in SUBSET Nat
    OBVIOUS
  <2>2. T = Nat
    BY <1>1, <1>2, <2>1, Induction
  <2> QED
    BY <2>2
<1>4. KeptAfter(list, places) = CHOOSE f : Is(f, Len(list))
  BY DEF KeptAfter
<1> QED
  <2> HIDE DEF Is
  <2>1. Is(KeptAfter(list, places), Len(list))
    BY <1>3, <1>4
  <2> QED
    BY <2>1 DEF Is, Loops

(* kept holds the elements at the given places up to n, in their order: e *)
(* leads from its positions to those places.                             *)
Enumerates(e, places, list, n, kept) ==
  /\ e \in [1 .. Len(kept) -> places \cap (1 .. n)]
  /\ \A k, l \in 1 .. Len(kept) : k < l => e[k] < e[l]
  /\ \A i \in places \cap (1 .. n) : \E k \in 1 .. Len(kept) : e[k] = i
  /\ \A k \in 1 .. Len(kept) : kept[k] = list[e[k]]

(* One round of the loop that keeps its element: what was kept in order     *)
(* stays so when the next element of the list is appended.                  *)
LEMMA EnumerationGrows ==
  ASSUME NEW S, NEW kept \in Seq(S), NEW places, NEW list, NEW n \in Nat, NEW e,
         Enumerates(e, places, list, n, kept), n + 1 \in places, list[n + 1] \in S
  PROVE  \E d : Enumerates(d, places, list, n + 1, Append(kept, list[n + 1]))
<1>1. PICK c \in Nat : c = Len(kept)
  OBVIOUS
<1> DEFINE longer == Append(kept, list[n + 1])
           d == [k \in 1 .. c + 1 |-> IF k = c + 1 THEN n + 1 ELSE e[k]]
<1>2. /\ Len(longer) = c + 1 /\ longer[c + 1] = list[n + 1]
      /\ \A k \in 1 .. c : longer[k] = kept[k]
  BY <1>1
<1>3. /\ e \in [1 .. c -> places \cap (1 .. n)]
      /\ \A k, l \in 1 .. c : k < l => e[k] < e[l]
      /\ \A i \in places \cap (1 .. n) : \E k \in 1 .. c : e[k] = i
      /\ \A k \in 1 .. c : kept[k] = list[e[k]]
  BY <1>1 DEF Enumerates
<1>4. d[c + 1] = n + 1 /\ \A k \in 1 .. c : d[k] = e[k]
  OBVIOUS
<1>5. d \in [1 .. c + 1 -> places \cap (1 .. n + 1)]
  BY <1>3
<1> HIDE DEF d, longer
<1>6. ASSUME NEW k \in 1 .. c + 1, NEW l \in 1 .. c + 1, k < l PROVE d[k] < d[l]
  <2>1. k \in 1 .. c /\ e[k] \in 1 .. n
    BY <1>3, <1>6
  <2>2. CASE l = c + 1
    BY <1>4, <2>1, <2>2
  <2>3. CASE l \in 1 .. c
    BY <1>3, <1>4, <1>6, <2>1, <2>3
  <2> QED
    BY <2>2, <2>3
<1>7. ASSUME NEW i \in places \cap (1 .. n + 1) PROVE \E k \in 1 .. c + 1 : d[k] = i
  <2>1. CASE i = n + 1
    BY <1>4, <2>1
  <2>2. CASE i \in places \cap (1 .. n)
    <3>1. PICK k \in 1 .. c : e[k] = i
      BY <1>3, <2>2
    <3> QED
      BY <1>4, <3>1
  <2> QED
    BY <2>1, <2>2
<1>8. ASSUME NEW k \in 1 .. c + 1 PROVE longer[k] = list[d[k]]
  BY <1>2, <1>3, <1>4
<1>9. Enumerates(d, places, list, n + 1, longer)
  BY <1>2, <1>5, <1>6, <1>7, <1>8 DEF Enumerates
<1> QED
  BY <1>9 DEF longer

(* After every round, filter has kept the elements at the places so far. *)
LEMMA KeptEnumerates ==
  ASSUME NEW S, NEW list \in Seq(S), NEW places, NEW n \in 0 .. Len(list)
  PROVE  /\ KeptAfter(list, places)[n] \in Seq(S)
         /\ \E e : Enumerates(e, places, list, n, KeptAfter(list, places)[n])
<1> DEFINE K == KeptAfter(list, places)
           Fits(m) == K[m] \in Seq(S) /\ \E e : Enumerates(e, places, list, m, K[m])
           T == {m \in Nat : m <= Len(list) => Fits(m)}
<1>1. \A i \in 0 .. Len(list) :
        K[i] = IF i = 0 THEN <<>> ELSE IF i \in places THEN Append(K[i - 1], list[i]) ELSE K[i - 1]
  <2>1. Len(list) \in Nat
    OBVIOUS
  <2>2. Loops(K, list, places)
    BY <2>1, KeptLoops
  <2> HIDE DEF K
  <2> QED
    BY <2>2 DEF Loops
<1> HIDE DEF K
<1>2. 0 \in T
  <2>1. K[0] = <<>>
    BY <1>1
  <2>2. Enumerates(<<>>, places, list, 0, <<>>)
    BY DEF Enumerates
  <2>3. Fits(0)
    BY <2>1, <2>2
  <2> HIDE DEF Fits
  <2> QED
    BY <2>3
<1>3. ASSUME NEW m \in T PROVE m + 1 \in T
  <2> SUFFICES ASSUME m + 1 <= Len(list) PROVE Fits(m + 1)
    OBVIOUS
  <2>1. m \in Nat /\ m + 1 \in 1 .. Len(list) /\ list[m + 1] \in S /\ Fits(m)
    OBVIOUS
  <2>2. K[m + 1] = IF m + 1 \in places THEN Append(K[m], list[m + 1]) ELSE K[m]
    BY <1>1, <2>1
  <2>3. PICK e : Enumerates(e, places, list, m, K[m])
    BY <2>1
  <2>4. CASE m + 1 \notin places
    <3>1. K[m + 1] = K[m] /\ places \cap (1 .. m + 1) = places \cap (1 .. m)
      BY <2>1, <2>2, <2>4
    <3>2. Enumerates(e, places, list, m + 1, K[m + 1])
      BY <2>3, <3>1 DEF Enumerates
    <3> QED
      BY <2>1, <3>1, <3>2
  <2>5. CASE m + 1 \in places
    BY <2>1, <2>2, <2>3, <2>5, EnumerationGrows
  <2> QED
    BY <2>4, <2>5
<1>4. n \in T
  <2>1. T \in SUBSET Nat
    OBVIOUS
  <2> HIDE DEF T
  <2> QED
    BY <1>2, <1>3, <2>1, Induction
<1> QED
  BY <1>4 DEF K

(* What filter returns: the elements at the given places, each once, in the *)
(* order of the list.                                                       *)
THEOREM KeepFilters ==
  ASSUME NEW S, NEW list \in Seq(S), NEW places \in SUBSET (1 .. Len(list))
  PROVE  /\ Keep(list, places) \in Seq(S)
         /\ \E e : Enumerates(e, places, list, Len(list), Keep(list, places))
<1>1. Len(list) \in 0 .. Len(list)
  OBVIOUS
<1> QED
  BY <1>1, KeptEnumerates DEF Keep

(* Every element that filter returns is one at a given place of the list,  *)
(* and every element at such a place is returned.                           *)
LEMMA KeepMembers ==
  ASSUME NEW S, NEW list \in Seq(S), NEW places \in SUBSET (1 .. Len(list))
  PROVE  /\ Keep(list, places) \in Seq(S)
         /\ \A k \in 1 .. Len(Keep(list, places)) : \E i \in places : Keep(list, places)[k] = list[i]
         /\ \A i \in places : \E k \in 1 .. Len(Keep(list, places)) : Keep(list, places)[k] = list[i]
<1> DEFINE kept == Keep(list, places)
<1>1. PICK e : kept \in Seq(S) /\ Enumerates(e, places, list, Len(list), kept)
  BY KeepFilters
<1>2. places \cap (1 .. Len(list)) = places
  OBVIOUS
<1> HIDE DEF kept
<1>3. /\ e \in [1 .. Len(kept) -> places]
      /\ \A i \in places : \E k \in 1 .. Len(kept) : e[k] = i
      /\ \A k \in 1 .. Len(kept) : kept[k] = list[e[k]]
  BY <1>1, <1>2 DEF Enumerates
<1>4. ASSUME NEW k \in 1 .. Len(kept) PROVE \E i \in places : kept[k] = list[i]
  <2>1. e[k] \in places
    BY <1>3
  <2> QED
    BY <1>3, <2>1
<1>5. ASSUME NEW i \in places PROVE \E k \in 1 .. Len(kept) : kept[k] = list[i]
  <2>1. PICK k \in 1 .. Len(kept) : e[k] = i
    BY <1>3
  <2>2. kept[k] = list[i]
    BY <1>3, <2>1
  <2> QED
    BY <2>2
<1>6. /\ kept \in Seq(S)
      /\ \A k \in 1 .. Len(kept) : \E i \in places : kept[k] = list[i]
      /\ \A i \in places : \E k \in 1 .. Len(kept) : kept[k] = list[i]
  BY <1>1, <1>4, <1>5
<1> QED
  BY <1>6 DEF kept

(* filter returns as many elements as it was given places. *)
LEMMA KeepLength ==
  ASSUME NEW S, NEW list \in Seq(S), NEW places \in SUBSET (1 .. Len(list))
  PROVE  IsFiniteSet(places) /\ Len(Keep(list, places)) = Cardinality(places)
<1> DEFINE kept == Keep(list, places)
<1>1. PICK e : kept \in Seq(S) /\ Enumerates(e, places, list, Len(list), kept)
  BY KeepFilters
<1>2. PICK c \in Nat : c = Len(kept)
  BY <1>1
<1> HIDE DEF kept
<1>3. /\ e \in [1 .. c -> places]
      /\ \A k, l \in 1 .. c : k < l => e[k] < e[l]
      /\ \A i \in places : \E k \in 1 .. c : e[k] = i
  <2>1. places \cap (1 .. Len(list)) = places
    OBVIOUS
  <2> QED
    BY <1>1, <1>2, <2>1 DEF Enumerates
<1>4. e \in Bijection(1 .. c, places)
  <2>1. ASSUME NEW k \in 1 .. c, NEW l \in 1 .. c, k # l PROVE e[k] # e[l]
    <3>1. e[k] \in places /\ e[l] \in places /\ places \subseteq Nat
      BY <1>3
    <3>2. k < l \/ l < k
      BY <2>1
    <3>3. e[k] < e[l] \/ e[l] < e[k]
      BY <1>3, <3>2
    <3>4. e[k] \in Nat /\ e[l] \in Nat
      BY <3>1
    <3> QED
      BY <3>3, <3>4
  <2> QED
    BY <1>3, <2>1, Fun_IsBij
<1>5. IsFiniteSet(1 .. c) /\ Cardinality(1 .. c) = c
  BY FS_Interval
<1>6. IsFiniteSet(places) /\ Cardinality(places) = c
  <2>1. ExistsBijection(1 .. c, places)
    BY <1>4 DEF ExistsBijection
  <2> QED
    BY <1>5, <2>1, FS_Bijection, Zenon
<1> QED
  BY <1>2, <1>6 DEF kept

(* find stops at one of the places it looks for, if there is one. *)
LEMMA FirstIsIn ==
  ASSUME NEW T \in SUBSET Nat, T # {}
  PROVE  First(T) \in T
<1>1. \E i \in T : \A j \in T : i <= j
  BY Least
<1> QED
  BY <1>1 DEF First

(* Multiplication keeps the order of naturals. *)
LEMMA Times ==
  ASSUME NEW a \in Nat, NEW b \in Nat, NEW s \in Nat, a <= b
  PROVE  a * s \in Nat /\ a * s <= b * s
<1>1. PICK d \in Nat : b = a + d
  BY b - a \in Nat
<1>2. d * s \in Nat /\ a * s \in Nat /\ b * s = a * s + d * s
  BY <1>1
<1> QED
  BY <1>2

(* Math.max(1, Math.ceil(n / size)) pages have room for the list, and one   *)
(* page less has not.                                                       *)
LEMMA PagesCover ==
  ASSUME NEW S, NEW list \in Seq(S), NEW size \in Nat \ {0}
  PROVE  /\ PageCount(list, size) \in Nat \ {0}
         /\ Len(list) <= PageCount(list, size) * size
         /\ list # <<>> => (PageCount(list, size) - 1) * size < Len(list)
<1>1. PICK n \in Nat : n = Len(list)
  OBVIOUS
<1> DEFINE q == (n + size - 1) \div size
<1>2. q \in Nat /\ n <= q * size /\ (q - 1) * size < n
  OBVIOUS
<1> HIDE DEF q
<1>3. CASE q > 1
  BY <1>1, <1>2, <1>3 DEF PageCount, q
<1>4. CASE ~(q > 1)
  <2>1. q \in {0, 1} /\ PageCount(list, size) = 1
    BY <1>1, <1>2, <1>4 DEF PageCount, q
  <2>2. n <= size
    BY <1>2, <2>1
  <2> QED
    BY <1>1, <2>1, <2>2
<1> QED
  BY <1>3, <1>4

(* The slice of a page within range: every page but the last is full, the   *)
(* last has the rest, and row k of page p is element (p - 1) * size + k.    *)
LEMMA PageBounds ==
  ASSUME NEW S, NEW list \in Seq(S), NEW size \in Nat \ {0}, list # <<>>,
         NEW p \in 1 .. PageCount(list, size)
  PROVE  /\ PageOf(list, p, size) \in Seq(S)
         /\ Len(PageOf(list, p, size)) = IF p < PageCount(list, size) THEN size
                                         ELSE Len(list) - (PageCount(list, size) - 1) * size
         /\ (p - 1) * size \in Nat
         /\ \A k \in 1 .. Len(PageOf(list, p, size)) :
              PageOf(list, p, size)[k] = list[(p - 1) * size + k]
<1>1. PICK n \in Nat : n = Len(list)
  OBVIOUS
<1>2. PICK c \in Nat \ {0} : c = PageCount(list, size)
  BY PagesCover
<1>3. n <= c * size /\ (c - 1) * size < n /\ p \in 1 .. c
  BY <1>1, <1>2, PagesCover
<1>4. PICK from \in Nat : from = (p - 1) * size /\ from <= (c - 1) * size
  BY <1>3, Times, p - 1 \in Nat, c - 1 \in Nat, p - 1 <= c - 1
<1>5. p * size = from + size /\ p * size \in Nat
  BY <1>4
<1>6. PICK upTo \in Nat : upTo = Lesser(p * size, n) /\ from < upTo /\ upTo <= n
  BY <1>3, <1>4, <1>5 DEF Lesser
<1>7. PageOf(list, p, size) = SubSeq(list, from + 1, upTo)
  BY <1>1, <1>4, <1>6 DEF PageOf
<1>8. /\ SubSeq(list, from + 1, upTo) \in Seq(S)
      /\ Len(SubSeq(list, from + 1, upTo)) = upTo - from
      /\ \A k \in 1 .. upTo - from : SubSeq(list, from + 1, upTo)[k] = list[from + k]
  BY <1>1, <1>6
<1>9. upTo - from = IF p < c THEN size ELSE n - (c - 1) * size
  <2>1. CASE p < c
    <3>1. p * size <= (c - 1) * size
      BY <1>3, <2>1, Times, p \in Nat, c - 1 \in Nat, p <= c - 1
    <3>2. p * size < n
      BY <1>3, <1>5, <3>1
    <3> QED
      BY <1>5, <1>6, <2>1, <3>2 DEF Lesser
  <2>2. CASE p = c
    <3>1. n <= p * size
      BY <1>3, <2>2
    <3> QED
      BY <1>4, <1>5, <1>6, <2>2, <3>1 DEF Lesser
  <2> QED
    BY <1>3, <2>1, <2>2
<1> QED
  BY <1>1, <1>2, <1>4, <1>7, <1>8, <1>9

(* A page has no other elements than the list, if the list is empty too. *)
LEMMA PageElements ==
  ASSUME NEW S, NEW list \in Seq(S), NEW size \in Nat \ {0},
         NEW p \in 1 .. PageCount(list, size), NEW k \in DOMAIN PageOf(list, p, size)
  PROVE  \E l \in 1 .. Len(list) : PageOf(list, p, size)[k] = list[l]
<1>1. PageCount(list, size) \in Nat \ {0}
  BY PagesCover
<1>2. PICK from \in Nat : from = (p - 1) * size
  BY <1>1, Times, p - 1 \in Nat
<1>3. PICK upTo \in Int : upTo = Lesser(p * size, Len(list)) /\ upTo <= Len(list)
  BY <1>1, p \in Nat, p * size \in Int DEF Lesser
<1>4. PageOf(list, p, size) = SubSeq(list, from + 1, upTo)
  BY <1>2, <1>3 DEF PageOf
<1>5. k \in 1 .. upTo - from /\ SubSeq(list, from + 1, upTo)[k] = list[from + k]
  <2>1. k \in DOMAIN SubSeq(list, from + 1, upTo)
    BY <1>4
  <2>2. CASE from + 1 <= upTo
    <3>1. Len(SubSeq(list, from + 1, upTo)) = upTo - from
      BY <1>3, <2>2
    <3>2. \A l \in 1 .. upTo - from : SubSeq(list, from + 1, upTo)[l] = list[from + l]
      BY <1>3, <2>2
    <3>3. DOMAIN SubSeq(list, from + 1, upTo) = 1 .. upTo - from
      <4>1. SubSeq(list, from + 1, upTo) \in Seq(S)
        BY <1>3, <2>2
      <4> QED
        BY <3>1, <4>1
    <3> QED
      BY <2>1, <3>2, <3>3
  <2>3. CASE upTo < from + 1
    BY <1>3, <2>1, <2>3
  <2> QED
    BY <1>3, <2>2, <2>3
<1> QED
  BY <1>3, <1>4, <1>5

(* Place i of the list is row k of page p. *)
OnPage(list, size, i, p, k) ==
  /\ p \in 1 .. PageCount(list, size) /\ k \in 1 .. Len(PageOf(list, p, size))
  /\ i = (p - 1) * size + k /\ PageOf(list, p, size)[k] = list[i]

(* Paging loses nothing and repeats nothing: each element of the list is on *)
(* exactly one of the PageCount(list, size) pages, in exactly one row.      *)
THEOREM PagesPartition ==
  ASSUME NEW S, NEW list \in Seq(S), NEW size \in Nat \ {0}, NEW i \in 1 .. Len(list)
  PROVE  \E p, k : /\ OnPage(list, size, i, p, k)
                   /\ \A q, l : OnPage(list, size, i, q, l) => q = p /\ l = k
<1> DEFINE c == PageCount(list, size)
           Rows(q) == Len(PageOf(list, q, size))
<1>1. list # <<>> /\ c \in Nat \ {0} /\ Len(list) \in Nat
      /\ Len(list) <= c * size
  BY PagesCover
<1>2. PICK d \in Nat, r \in 0 .. size - 1 : i - 1 = d * size + r
  <2>1. i - 1 \in Nat /\ i - 1 = ((i - 1) \div size) * size + ((i - 1) % size)
        /\ (i - 1) \div size \in Nat /\ (i - 1) % size \in 0 .. size - 1
    OBVIOUS
  <2> QED
    BY <2>1
<1>3. ASSUME NEW q \in 1 .. c
      PROVE  /\ Rows(q) \in 0 .. size
             /\ \A k \in 1 .. Rows(q) : PageOf(list, q, size)[k] = list[(q - 1) * size + k]
             /\ q < c => Rows(q) = size
             /\ q = c => Rows(q) = Len(list) - (c - 1) * size
  <2>1. /\ Rows(q) = IF q < c THEN size ELSE Len(list) - (c - 1) * size
        /\ \A k \in 1 .. Rows(q) : PageOf(list, q, size)[k] = list[(q - 1) * size + k]
    BY <1>1, PageBounds
  <2>2. Len(list) - (c - 1) * size \in 0 .. size
    <3>1. (c - 1) * size < Len(list) /\ Len(list) <= c * size
      BY <1>1, PagesCover
    <3>2. (c - 1) * size \in Nat /\ c * size = (c - 1) * size + size
      BY <1>1
    <3> QED
      BY <1>1, <3>1, <3>2
  <2> QED
    BY <2>1, <2>2
<1> HIDE DEF c, Rows
<1>4. d + 1 \in 1 .. c
  <2>1. d < c
    <3> SUFFICES ASSUME c <= d PROVE FALSE
      BY <1>1
    <3>1. c * size <= d * size /\ c * size \in Nat /\ d * size \in Nat
      BY <1>1, Times
    <3> QED
      BY <1>1, <1>2, <3>1
  <2> QED
    BY <1>1, <2>1
<1>5. r + 1 \in 1 .. Rows(d + 1)
  <2>1. CASE d + 1 < c
    BY <1>2, <1>3, <1>4, <2>1
  <2>2. CASE d + 1 = c
    <3>1. Rows(d + 1) = Len(list) - d * size
      BY <1>2, <1>3, <1>4, <2>2
    <3>2. d * size \in Nat
      BY <1>2
    <3> QED
      BY <1>1, <1>2, <3>1, <3>2
  <2> QED
    BY <1>1, <1>4, <2>1, <2>2
<1>6. (d + 1 - 1) * size + (r + 1) = i
  BY <1>2
<1>7. PageOf(list, d + 1, size)[r + 1] = list[i]
  BY <1>3, <1>4, <1>5, <1>6
<1>8. ASSUME NEW q \in 1 .. c, NEW l \in 1 .. Rows(q), (q - 1) * size + l = i
      PROVE  q = d + 1 /\ l = r + 1
  <2>1. l \in 1 .. size
    BY <1>3
  <2>2. PICK e \in Nat, m \in 0 .. size - 1 : e = q - 1 /\ m = l - 1
    BY <1>1, <2>1
  <2>3. e * size + m = d * size + r /\ e * size \in Nat /\ d * size \in Nat
    BY <1>2, <1>8, <2>2
  <2>4. ~(e < d)
    <3> SUFFICES ASSUME e < d PROVE FALSE
      OBVIOUS
    <3>1. (e + 1) * size <= d * size /\ (e + 1) * size = e * size + size
      BY Times, e + 1 \in Nat, e + 1 <= d
    <3> QED
      BY <2>2, <2>3, <3>1
  <2>5. ~(d < e)
    <3> SUFFICES ASSUME d < e PROVE FALSE
      OBVIOUS
    <3>1. (d + 1) * size <= e * size /\ (d + 1) * size = d * size + size
      BY <1>2, Times, d + 1 \in Nat, d + 1 <= e
    <3> QED
      BY <1>2, <2>2, <2>3, <3>1
  <2>6. e = d /\ m = r
    BY <1>2, <2>2, <2>3, <2>4, <2>5
  <2> QED
    BY <1>1, <2>2, <2>6
<1>9. OnPage(list, size, i, d + 1, r + 1)
  BY <1>4, <1>5, <1>6, <1>7 DEF OnPage, c, Rows
<1>10. \A q, l : OnPage(list, size, i, q, l) => q = d + 1 /\ l = r + 1
  BY <1>8 DEF OnPage, c, Rows
<1> QED
  BY <1>9, <1>10
=============================================================================
