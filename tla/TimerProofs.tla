----------------------------- MODULE TimerProofs -----------------------------
(***************************************************************************)
(* The timer list stays sorted across the wrap of the tick, and does what  *)
(* TimerWheel says, for any timers, times and width of the tick.           *)
(***************************************************************************)
EXTENDS Timer, SequenceTheorems, WellFoundedInduction, TLAPS

-----------------------------------------------------------------------------
(* Induction, over the naturals and over lists, for what is a set.         *)

\* The well-ordering of the naturals.
LEMMA LeastNat ==
    ASSUME NEW T, T \subseteq Nat, T # {}
    PROVE  \E x \in T : \A y \in T : x <= y
<1> DEFINE Less == {ss \in Nat \X Nat : ss[1] < ss[2]}
<1>1. IsWellFoundedOn(Less, Nat)
  BY NatLessThanWellFounded, Zenon DEF OpToRel
<1> HIDE DEF Less
<1>2. PICK x \in T : \A y \in T : <<y, x>> \notin Less
  BY <1>1, WFMin, Zenon
<1>3. ASSUME NEW y \in T PROVE x <= y
  <2>1. x \in Nat /\ y \in Nat
    OBVIOUS
  <2>2. ~(y < x)
    BY <1>2, <1>3, <2>1 DEF Less
  <2> QED
    BY <2>1, <2>2
<1> QED
  BY <1>2, <1>3

LEMMA NatSetInduction ==
    ASSUME NEW Good, 0 \in Good, \A n \in Nat : n \in Good => n + 1 \in Good
    PROVE  Nat \subseteq Good
<1> DEFINE Bad == Nat \ Good
<1> SUFFICES ASSUME Bad # {} PROVE FALSE
  OBVIOUS
<1>1. PICK n \in Bad : \A m \in Bad : n <= m
  BY LeastNat, Bad \subseteq Nat
<1>2. n \in Nat /\ n # 0
  OBVIOUS
<1>3. n - 1 \in Nat /\ n - 1 \notin Bad /\ (n - 1) + 1 = n
  BY <1>1, <1>2
<1> QED
  BY <1>3

LEMMA ListInduction ==
    ASSUME NEW T, NEW Good, <<>> \in Good,
           \A l \in Seq(T), x \in T : l \in Good => Append(l, x) \in Good
    PROVE  Seq(T) \subseteq Good
<1> DEFINE Fine == {n \in Nat : \A l \in Seq(T) : Len(l) = n => l \in Good}
<1>1. 0 \in Fine
  OBVIOUS
<1>2. ASSUME NEW n \in Nat, n \in Fine PROVE n + 1 \in Fine
  <2> SUFFICES ASSUME NEW l \in Seq(T), Len(l) = n + 1 PROVE l \in Good
    OBVIOUS
  <2>1. PICK s \in Seq(T), x \in T : l = Append(s, x)
    <3>1. l # <<>>
      BY <1>2
    <3> QED
      BY <3>1, SequenceEmptyOrAppend
  <2>2. Len(s) = n
    BY <2>1, AppendProperties
  <2> QED
    BY <1>2, <2>1, <2>2
<1> HIDE DEF Fine
<1>3. Nat \subseteq Fine
  BY <1>1, <1>2, NatSetInduction
<1> QED
  BY <1>3 DEF Fine

-----------------------------------------------------------------------------
(* Members of a list, how often, in what order.                            *)

Members(l) == {l[k] : k \in DOMAIN l}

Once(l) == \A j, k \in DOMAIN l : l[j] = l[k] => j = k

\* In rising order of f.
Rising(l, f) == \A j, k \in DOMAIN l : j < k => f[l[j]] <= f[l[k]]

LEMMA MembersLemma ==
    ASSUME NEW T, NEW l \in Seq(T)
    PROVE  /\ Members(l) \subseteq T
           /\ l = <<>> <=> Members(l) = {}
           /\ l # <<>> => Head(l) = l[1] /\ Head(l) \in Members(l) /\ Len(l) >= 1
<1>1. Len(l) \in Nat /\ DOMAIN l = 1 .. Len(l)
  OBVIOUS
<1>2. ASSUME l # <<>> PROVE Head(l) = l[1] /\ Head(l) \in Members(l) /\ Len(l) >= 1
  <2>1. 1 \in DOMAIN l /\ Head(l) = l[1] /\ Len(l) >= 1
    BY <1>1, <1>2
  <2> QED
    BY <2>1 DEF Members
<1>3. Members(l) \subseteq T
  BY <1>1 DEF Members
<1>4. l = <<>> => Members(l) = {}
  BY DEF Members
<1> QED
  BY <1>2, <1>3, <1>4

LEMMA ConcatLemma ==
    ASSUME NEW T, NEW a \in Seq(T), NEW b \in Seq(T)
    PROVE  /\ a \o b \in Seq(T)
           /\ Members(a \o b) = Members(a) \cup Members(b)
           /\ Once(a \o b) <=> Once(a) /\ Once(b) /\ Members(a) \cap Members(b) = {}
           /\ \A f : Rising(a \o b, f) <=>
                /\ Rising(a, f) /\ Rising(b, f)
                /\ \A x \in Members(a), y \in Members(b) : f[x] <= f[y]
<1> DEFINE c == a \o b
           m == Len(a)
           n == Len(b)
<1>1. /\ m \in Nat /\ n \in Nat /\ DOMAIN a = 1 .. m /\ DOMAIN b = 1 .. n
      /\ c \in Seq(T) /\ DOMAIN c = 1 .. m + n
  OBVIOUS
<1>2. /\ \A i \in 1 .. m : i \in 1 .. m + n /\ c[i] = a[i]
      /\ \A i \in 1 .. n : m + i \in 1 .. m + n /\ c[m + i] = b[i]
  BY ConcatProperties
<1>3. \A i \in 1 .. m + n : i \in 1 .. m \/ \E k \in 1 .. n : i = m + k
  <2> SUFFICES ASSUME NEW i \in 1 .. m + n, i \notin 1 .. m PROVE \E k \in 1 .. n : i = m + k
    OBVIOUS
  <2>1. i - m \in 1 .. n /\ i = m + (i - m)
    BY <1>1
  <2> QED
    BY <2>1
<1> HIDE DEF c, m, n
<1>4. Members(c) = Members(a) \cup Members(b)
  <2>1. Members(a) \cup Members(b) \subseteq Members(c)
    BY <1>1, <1>2 DEF Members
  <2>2. ASSUME NEW i \in 1 .. m + n PROVE c[i] \in Members(a) \cup Members(b)
    <3>1. CASE i \in 1 .. m
      BY <1>1, <1>2, <3>1 DEF Members
    <3>2. CASE i \notin 1 .. m
      BY <1>1, <1>2, <1>3, <3>2 DEF Members
    <3> QED
      BY <3>1, <3>2
  <2>3. Members(c) \subseteq Members(a) \cup Members(b)
    BY <1>1, <2>2 DEF Members
  <2> QED
    BY <2>1, <2>3
<1>5. Once(c) <=> Once(a) /\ Once(b) /\ Members(a) \cap Members(b) = {}
  <2>1. ASSUME Once(c) PROVE Once(a) /\ Once(b) /\ Members(a) \cap Members(b) = {}
    <3>1. Once(a)
      BY <1>1, <1>2, <2>1 DEF Once
    <3>2. Once(b)
      <4> SUFFICES ASSUME NEW j \in 1 .. n, NEW k \in 1 .. n, b[j] = b[k] PROVE j = k
        BY <1>1 DEF Once
      <4>1. c[m + j] = c[m + k] /\ m + j \in 1 .. m + n /\ m + k \in 1 .. m + n
        BY <1>2
      <4>2. m + j = m + k
        BY <1>1, <2>1, <4>1 DEF Once
      <4> QED
        BY <1>1, <4>2
    <3>3. Members(a) \cap Members(b) = {}
      <4> SUFFICES ASSUME NEW j \in 1 .. m, NEW k \in 1 .. n, a[j] = b[k] PROVE FALSE
        BY <1>1 DEF Members
      <4>1. c[j] = c[m + k] /\ j \in 1 .. m + n /\ m + k \in 1 .. m + n
        BY <1>2
      <4>2. j = m + k
        BY <1>1, <2>1, <4>1 DEF Once
      <4> QED
        BY <1>1, <4>2
    <3> QED
      BY <3>1, <3>2, <3>3
  <2>2. ASSUME Once(a), Once(b), Members(a) \cap Members(b) = {} PROVE Once(c)
    <3> SUFFICES ASSUME NEW j \in 1 .. m + n, NEW k \in 1 .. m + n, c[j] = c[k] PROVE j = k
      BY <1>1 DEF Once
    <3>1. CASE j \in 1 .. m /\ k \in 1 .. m
      BY <1>1, <1>2, <2>2, <3>1 DEF Once
    <3>2. \A i \in 1 .. m : a[i] \in Members(a)
      BY <1>1 DEF Members
    <3>3. \A i \in 1 .. n : b[i] \in Members(b)
      BY <1>1 DEF Members
    <3>4. CASE j \notin 1 .. m
      <4>1. PICK h \in 1 .. n : j = m + h
        BY <1>3, <3>4
      <4>2. k \notin 1 .. m
        BY <1>2, <2>2, <3>2, <3>3, <4>1
      <4>3. PICK i \in 1 .. n : k = m + i
        BY <1>3, <4>2
      <4>4. b[h] = b[i]
        BY <1>2, <4>1, <4>3
      <4> QED
        BY <1>1, <2>2, <4>1, <4>3, <4>4 DEF Once
    <3>5. CASE k \notin 1 .. m /\ j \in 1 .. m
      <4>1. PICK i \in 1 .. n : k = m + i
        BY <1>3, <3>5
      <4> QED
        BY <1>2, <2>2, <3>2, <3>3, <3>5, <4>1
    <3> QED
      BY <3>1, <3>4, <3>5
  <2> QED
    BY <2>1, <2>2
<1>6. ASSUME NEW f
      PROVE  Rising(c, f) <=> /\ Rising(a, f) /\ Rising(b, f)
                              /\ \A x \in Members(a), y \in Members(b) : f[x] <= f[y]
  <2>1. ASSUME Rising(c, f)
        PROVE  /\ Rising(a, f) /\ Rising(b, f)
               /\ \A x \in Members(a), y \in Members(b) : f[x] <= f[y]
    <3>1. Rising(a, f)
      BY <1>1, <1>2, <2>1 DEF Rising
    <3>2. Rising(b, f)
      <4> SUFFICES ASSUME NEW j \in 1 .. n, NEW k \in 1 .. n, j < k PROVE f[b[j]] <= f[b[k]]
        BY <1>1 DEF Rising
      <4>1. /\ m + j \in 1 .. m + n /\ m + k \in 1 .. m + n /\ m + j < m + k
            /\ c[m + j] = b[j] /\ c[m + k] = b[k]
        BY <1>1, <1>2
      <4> QED
        BY <1>1, <2>1, <4>1 DEF Rising
    <3>3. ASSUME NEW j \in 1 .. m, NEW k \in 1 .. n PROVE f[a[j]] <= f[b[k]]
      <4>1. /\ j \in 1 .. m + n /\ m + k \in 1 .. m + n /\ j < m + k
            /\ c[j] = a[j] /\ c[m + k] = b[k]
        BY <1>1, <1>2
      <4> QED
        BY <1>1, <2>1, <4>1 DEF Rising
    <3> QED
      BY <1>1, <3>1, <3>2, <3>3 DEF Members
  <2>2. ASSUME Rising(a, f), Rising(b, f),
               \A x \in Members(a), y \in Members(b) : f[x] <= f[y]
        PROVE  Rising(c, f)
    <3> SUFFICES ASSUME NEW j \in 1 .. m + n, NEW k \in 1 .. m + n, j < k
                 PROVE  f[c[j]] <= f[c[k]]
      BY <1>1 DEF Rising
    <3>1. CASE j \in 1 .. m /\ k \in 1 .. m
      BY <1>1, <1>2, <2>2, <3>1 DEF Rising
    <3>2. CASE j \in 1 .. m /\ k \notin 1 .. m
      <4>1. PICK i \in 1 .. n : k = m + i
        BY <1>3, <3>2
      <4>2. c[j] = a[j] /\ c[k] = b[i]
        BY <1>2, <3>2, <4>1
      <4>3. a[j] \in Members(a) /\ b[i] \in Members(b)
        BY <1>1, <3>2, <4>1 DEF Members
      <4> QED
        BY <2>2, <4>2, <4>3
    <3>3. CASE j \notin 1 .. m
      <4>1. PICK h \in 1 .. n : j = m + h
        BY <1>3, <3>3
      <4>2. k \notin 1 .. m
        BY <1>1, <4>1
      <4>3. PICK i \in 1 .. n : k = m + i
        BY <1>3, <4>2
      <4>4. h < i /\ c[j] = b[h] /\ c[k] = b[i]
        BY <1>1, <1>2, <4>1, <4>3
      <4> QED
        BY <1>1, <2>2, <4>4 DEF Rising
    <3> QED
      BY <3>1, <3>2, <3>3
  <2> QED
    BY <2>1, <2>2
<1> QED
  BY <1>1, <1>4, <1>5, <1>6 DEF c

LEMMA SingleLemma ==
    ASSUME NEW T, NEW x \in T
    PROVE  /\ <<x>> \in Seq(T) /\ Members(<<x>>) = {x} /\ Once(<<x>>) /\ <<x>> # <<>>
           /\ \A f : Rising(<<x>>, f)
  BY DEF Members, Once, Rising

LEMMA AppendLemma ==
    ASSUME NEW T, NEW l \in Seq(T), NEW x \in T
    PROVE  /\ Append(l, x) \in Seq(T)
           /\ Members(Append(l, x)) = Members(l) \cup {x}
           /\ Once(Append(l, x)) <=> Once(l) /\ x \notin Members(l)
           /\ \A f : Rising(Append(l, x), f) <=>
                Rising(l, f) /\ \A y \in Members(l) : f[y] <= f[x]
<1> DEFINE e == <<x>>
<1>1. e \in Seq(T) /\ Members(e) = {x} /\ Once(e) /\ \A f : Rising(e, f)
  BY SingleLemma
<1>2. Append(l, x) = l \o e
  BY AppendIsConcat
<1> HIDE DEF e
<1>3. /\ l \o e \in Seq(T)
      /\ Members(l \o e) = Members(l) \cup {x}
      /\ Once(l \o e) <=> Once(l) /\ Once(e) /\ Members(l) \cap {x} = {}
  BY <1>1, ConcatLemma
<1>4. ASSUME NEW f
      PROVE  Rising(l \o e, f) <=> Rising(l, f) /\ \A y \in Members(l) : f[y] <= f[x]
  <2>1. Rising(l \o e, f) <=> /\ Rising(l, f) /\ Rising(e, f)
                              /\ \A y \in Members(l), z \in Members(e) : f[y] <= f[z]
    BY <1>1, ConcatLemma
  <2> QED
    BY <1>1, <2>1
<1> QED
  BY <1>1, <1>2, <1>3, <1>4

LEMMA EmptyLemma ==
    /\ Members(<<>>) = {} /\ Once(<<>>) /\ \A f : Rising(<<>>, f)
    /\ \A T : <<>> \in Seq(T)
  BY DEF Members, Once, Rising
-----------------------------------------------------------------------------
(* Kept, which is recursive on the length of the list.                     *)

\* One step of the recursion of Kept.
KeptStep(l, S, f, k) ==
    IF k = 0 THEN <<>> ELSE IF l[k] \in S THEN Append(f[k - 1], l[k]) ELSE f[k - 1]

\* There is a function that satisfies the recursion, however long the list is.
LEMMA KeptFunction ==
    ASSUME NEW l, NEW S, NEW n \in Nat
    PROVE  \E f : f = [k \in 0 .. n |-> KeptStep(l, S, f, k)]
<1> DEFINE Has(i) == \E f : f = [k \in 0 .. i |-> KeptStep(l, S, f, k)]
           Good == {i \in Nat : Has(i)}
<1>1. Has(0)
  <2> DEFINE f == [k \in 0 .. 0 |-> <<>>]
  <2>1. f = [k \in 0 .. 0 |-> KeptStep(l, S, f, k)]
    BY DEF KeptStep
  <2> QED
    BY <2>1
<1>2. ASSUME NEW i \in Nat, Has(i) PROVE Has(i + 1)
  <2>1. PICK f : f = [k \in 0 .. i |-> KeptStep(l, S, f, k)]
    BY <1>2
  <2> DEFINE g == [k \in 0 .. i + 1 |-> IF k = i + 1 THEN KeptStep(l, S, f, i + 1) ELSE f[k]]
  <2>2. ASSUME NEW k \in 0 .. i + 1 PROVE g[k] = KeptStep(l, S, g, k)
    <3>1. CASE k = i + 1
      BY <3>1, <2>1 DEF KeptStep
    <3>2. CASE k # i + 1
      <4>1. f[k] = KeptStep(l, S, f, k)
        BY <3>2, <2>1
      <4> QED
        BY <3>2, <4>1 DEF KeptStep
    <3> QED
      BY <3>1, <3>2
  <2> QED
    BY <2>2
<1> HIDE DEF Has
<1>3. 0 \in Good /\ \A i \in Nat : i \in Good => i + 1 \in Good
  BY <1>1, <1>2
<1> HIDE DEF Good
<1>4. Nat \subseteq Good
  BY <1>3, NatSetInduction
<1> QED
  BY <1>4 DEF Has, Good

LEMMA KeptIs ==
    ASSUME NEW l, Len(l) \in Nat, NEW S
    PROVE  \E f : /\ \A k \in 0 .. Len(l) : f[k] = KeptStep(l, S, f, k)
                  /\ Kept(l, S) = f[Len(l)]
<1> DEFINE kept == CHOOSE f : f = [k \in 0 .. Len(l) |-> KeptStep(l, S, f, k)]
<1>1. kept = [k \in 0 .. Len(l) |-> KeptStep(l, S, kept, k)]
  BY KeptFunction
<1>2. Kept(l, S) = kept[Len(l)]
  BY DEF Kept, KeptStep
<1> HIDE DEF kept
<1> QED
  BY <1>1, <1>2

LEMMA KeptEmpty ==
    ASSUME NEW S
    PROVE  Kept(<<>>, S) = <<>>
<1>1. Len(<<>>) = 0
  OBVIOUS
<1>2. PICK f : /\ \A k \in 0 .. Len(<<>>) : f[k] = KeptStep(<<>>, S, f, k)
               /\ Kept(<<>>, S) = f[Len(<<>>)]
  BY <1>1, KeptIs
<1> QED
  BY <1>1, <1>2 DEF KeptStep

LEMMA KeptAppend ==
    ASSUME NEW T, NEW l \in Seq(T), NEW x \in T, NEW S
    PROVE  Kept(Append(l, x), S) = IF x \in S THEN Append(Kept(l, S), x) ELSE Kept(l, S)
<1> DEFINE m == Append(l, x)
           n == Len(l)
<1>1. n \in Nat /\ Len(m) = n + 1 /\ m[n + 1] = x /\ \A i \in 1 .. n : m[i] = l[i]
  OBVIOUS
<1> HIDE DEF m
<1>2. PICK f : (\A k \in 0 .. n : f[k] = KeptStep(l, S, f, k)) /\ Kept(l, S) = f[n]
  BY <1>1, KeptIs
<1>3. PICK g : (\A k \in 0 .. n + 1 : g[k] = KeptStep(m, S, g, k)) /\ Kept(m, S) = g[n + 1]
  BY <1>1, KeptIs
<1> DEFINE Good == {k \in Nat : k <= n => f[k] = g[k]}
<1> HIDE DEF n
<1>4. 0 \in Good
  <2>1. 0 \in 0 .. n /\ 0 \in 0 .. n + 1
    BY <1>1
  <2> QED
    BY <1>2, <1>3, <2>1 DEF KeptStep
<1>5. ASSUME NEW k \in Nat, k \in Good PROVE k + 1 \in Good
  <2> SUFFICES ASSUME k + 1 <= n PROVE f[k + 1] = g[k + 1]
    OBVIOUS
  <2>1. k + 1 \in 1 .. n /\ k + 1 \in 0 .. n /\ k + 1 \in 0 .. n + 1 /\ k + 1 # 0 /\ (k + 1) - 1 = k
    BY <1>1
  <2>2. f[k] = g[k] /\ m[k + 1] = l[k + 1]
    BY <1>1, <1>5, <2>1
  <2> QED
    BY <1>2, <1>3, <2>1, <2>2 DEF KeptStep
<1> HIDE DEF Good
<1>6. Nat \subseteq Good
  BY <1>4, <1>5, NatSetInduction
<1>7. f[n] = g[n]
  BY <1>1, <1>6 DEF Good
<1>8. n + 1 \in 0 .. n + 1 /\ n + 1 # 0 /\ (n + 1) - 1 = n
  BY <1>1
<1> QED
  BY <1>1, <1>2, <1>3, <1>7, <1>8 DEF KeptStep, m

\* What is kept, and in which order.
LEMMA KeptLemma ==
    ASSUME NEW T, NEW l \in Seq(T), NEW S
    PROVE  /\ Kept(l, S) \in Seq(T)
           /\ Members(Kept(l, S)) = Members(l) \cap S
           /\ Once(l) => Once(Kept(l, S))
           /\ \A f : Rising(l, f) => Rising(Kept(l, S), f)
<1> DEFINE Good == {s \in Seq(T) : /\ Kept(s, S) \in Seq(T)
                                   /\ Members(Kept(s, S)) = Members(s) \cap S
                                   /\ Once(s) => Once(Kept(s, S))
                                   /\ \A f : Rising(s, f) => Rising(Kept(s, S), f)}
<1>1. <<>> \in Good
  BY EmptyLemma, KeptEmpty, Zenon
<1>2. ASSUME NEW s \in Seq(T), NEW x \in T, s \in Good PROVE Append(s, x) \in Good
  <2> DEFINE k == Kept(s, S)
             r == Kept(Append(s, x), S)
  <2>1. /\ k \in Seq(T) /\ Members(k) = Members(s) \cap S
        /\ Once(s) => Once(k)
        /\ \A f : Rising(s, f) => Rising(k, f)
    BY <1>2
  <2>2. r = IF x \in S THEN Append(k, x) ELSE k
    BY KeptAppend
  <2> HIDE DEF k, r
  <2>3. /\ Append(s, x) \in Seq(T)
        /\ Members(Append(s, x)) = Members(s) \cup {x}
        /\ Once(Append(s, x)) <=> Once(s) /\ x \notin Members(s)
        /\ \A f : Rising(Append(s, x), f) <=> Rising(s, f) /\ \A y \in Members(s) : f[y] <= f[x]
    BY AppendLemma
  <2>4. /\ Append(k, x) \in Seq(T)
        /\ Members(Append(k, x)) = Members(k) \cup {x}
        /\ Once(Append(k, x)) <=> Once(k) /\ x \notin Members(k)
        /\ \A f : Rising(Append(k, x), f) <=> Rising(k, f) /\ \A y \in Members(k) : f[y] <= f[x]
    BY <2>1, AppendLemma
  <2>5. /\ r \in Seq(T) /\ Members(r) = (Members(s) \cup {x}) \cap S
        /\ Once(Append(s, x)) => Once(r)
        /\ \A f : Rising(Append(s, x), f) => Rising(r, f)
    <3>1. CASE x \in S
      BY <2>1, <2>2, <2>3, <2>4, <3>1
    <3>2. CASE x \notin S
      BY <2>1, <2>2, <2>3, <3>2
    <3> QED
      BY <3>1, <3>2
  <2> QED
    BY <2>3, <2>5, Zenon DEF r
<1> HIDE DEF Good
<1>3. Seq(T) \subseteq Good
  BY <1>1, <1>2, ListInduction
<1> QED
  BY <1>3 DEF Good

LEMMA KeptConcat ==
    ASSUME NEW T, NEW a \in Seq(T), NEW b \in Seq(T), NEW S
    PROVE  Kept(a \o b, S) = Kept(a, S) \o Kept(b, S)
<1> DEFINE k == Kept(a, S)
           Good == {s \in Seq(T) : Kept(a \o s, S) = k \o Kept(s, S)}
<1>1. k \in Seq(T)
  BY KeptLemma
<1>2. <<>> \in Good
  <2>1. Kept(a \o <<>>, S) = k
    BY ConcatEmptySeq
  <2>2. k \o Kept(<<>>, S) = k
    BY <1>1, ConcatEmptySeq, KeptEmpty
  <2> QED
    BY <2>1, <2>2
<1>3. ASSUME NEW s \in Seq(T), NEW x \in T, s \in Good PROVE Append(s, x) \in Good
  <2> DEFINE h == Kept(s, S)
  <2>1. h \in Seq(T) /\ Kept(a \o s, S) = k \o h
    BY <1>3, KeptLemma
  <2>2. a \o s \in Seq(T) /\ a \o Append(s, x) = Append(a \o s, x)
    BY ConcatProperties, AppendIsConcat, ConcatAssociative, SingleLemma
  <2>3. k \o Append(h, x) = Append(k \o h, x)
    <3> HIDE DEF k, h
    <3> QED
      BY <1>1, <2>1, ConcatProperties, AppendIsConcat, ConcatAssociative, SingleLemma
  <2>4. Kept(Append(a \o s, x), S) = IF x \in S THEN Append(k \o h, x) ELSE k \o h
    <3> DEFINE m == a \o s
    <3>1. m \in Seq(T) /\ Kept(m, S) = k \o h
      BY <2>1, <2>2
    <3> HIDE DEF m, k, h
    <3>2. Kept(Append(m, x), S) = IF x \in S THEN Append(Kept(m, S), x) ELSE Kept(m, S)
      BY <3>1, KeptAppend
    <3> QED
      BY <3>1, <3>2 DEF m
  <2>5. Kept(Append(s, x), S) = IF x \in S THEN Append(h, x) ELSE h
    BY KeptAppend
  <2>6. Kept(a \o Append(s, x), S) = k \o Kept(Append(s, x), S)
    <3> HIDE DEF k, h
    <3> QED
      BY <2>2, <2>3, <2>4, <2>5
  <2> QED
    BY <2>6, AppendProperties
<1> HIDE DEF Good
<1>4. Seq(T) \subseteq Good
  BY <1>2, <1>3, ListInduction
<1> QED
  BY <1>4 DEF Good

LEMMA KeptSame ==
    ASSUME NEW T, NEW l \in Seq(T), NEW S, NEW R, \A x \in Members(l) : x \in S <=> x \in R
    PROVE  Kept(l, S) = Kept(l, R)
<1> DEFINE Good == {s \in Seq(T) : (\A x \in Members(s) : x \in S <=> x \in R) =>
                                     Kept(s, S) = Kept(s, R)}
<1>1. <<>> \in Good
  BY KeptEmpty
<1>2. ASSUME NEW s \in Seq(T), NEW x \in T, s \in Good PROVE Append(s, x) \in Good
  <2> SUFFICES ASSUME \A y \in Members(Append(s, x)) : y \in S <=> y \in R
               PROVE  Kept(Append(s, x), S) = Kept(Append(s, x), R)
    BY AppendLemma
  <2>1. Members(Append(s, x)) = Members(s) \cup {x}
    BY AppendLemma
  <2>2. Kept(s, S) = Kept(s, R)
    BY <1>2, <2>1
  <2>3. Kept(Append(s, x), S) = IF x \in S THEN Append(Kept(s, S), x) ELSE Kept(s, S)
    BY KeptAppend
  <2>4. Kept(Append(s, x), R) = IF x \in R THEN Append(Kept(s, R), x) ELSE Kept(s, R)
    BY KeptAppend
  <2> QED
    BY <2>1, <2>2, <2>3, <2>4
<1> HIDE DEF Good
<1>3. Seq(T) \subseteq Good
  BY <1>1, <1>2, ListInduction
<1> QED
  BY <1>3 DEF Good

LEMMA KeptAll ==
    ASSUME NEW T, NEW l \in Seq(T), NEW S, Members(l) \subseteq S
    PROVE  Kept(l, S) = l
<1> DEFINE Good == {s \in Seq(T) : Members(s) \subseteq S => Kept(s, S) = s}
<1>1. <<>> \in Good
  BY KeptEmpty
<1>2. ASSUME NEW s \in Seq(T), NEW x \in T, s \in Good PROVE Append(s, x) \in Good
  <2>1. Append(s, x) \in Seq(T) /\ Members(Append(s, x)) = Members(s) \cup {x}
    BY AppendLemma
  <2> QED
    BY <1>2, <2>1, KeptAppend
<1> HIDE DEF Good
<1>3. Seq(T) \subseteq Good
  BY <1>1, <1>2, ListInduction
<1> QED
  BY <1>3 DEF Good

LEMMA KeptNone ==
    ASSUME NEW T, NEW l \in Seq(T), NEW S, Members(l) \cap S = {}
    PROVE  Kept(l, S) = <<>>
<1> DEFINE k == Kept(l, S)
<1>1. k \in Seq(T) /\ Members(k) = {}
  BY KeptLemma
<1> HIDE DEF k
<1>2. k = <<>>
  BY <1>1, MembersLemma
<1> QED
  BY <1>2 DEF k

LEMMA KeptTwice ==
    ASSUME NEW T, NEW l \in Seq(T), NEW S, NEW R
    PROVE  Kept(Kept(l, S), R) = Kept(l, S \cap R)
<1> DEFINE Good == {s \in Seq(T) : Kept(Kept(s, S), R) = Kept(s, S \cap R)}
<1>1. <<>> \in Good
  BY KeptEmpty
<1>2. ASSUME NEW s \in Seq(T), NEW x \in T, s \in Good PROVE Append(s, x) \in Good
  <2> DEFINE k == Kept(s, S)
  <2>1. k \in Seq(T) /\ Kept(k, R) = Kept(s, S \cap R)
    BY <1>2, KeptLemma
  <2>2. /\ Kept(Append(s, x), S) = IF x \in S THEN Append(k, x) ELSE k
        /\ Kept(Append(s, x), S \cap R) =
             IF x \in S \cap R THEN Append(Kept(s, S \cap R), x) ELSE Kept(s, S \cap R)
    BY KeptAppend
  <2> HIDE DEF k
  <2>3. Kept(Append(k, x), R) = IF x \in R THEN Append(Kept(k, R), x) ELSE Kept(k, R)
    BY <2>1, KeptAppend
  <2>4. Kept(Kept(Append(s, x), S), R) = Kept(Append(s, x), S \cap R)
    <3>1. CASE x \in S
      <4>1. Kept(Append(s, x), S) = Append(k, x) /\ (x \in S \cap R <=> x \in R)
        BY <2>2, <3>1
      <4>2. Kept(Append(s, x), S \cap R) = IF x \in R THEN Append(Kept(k, R), x) ELSE Kept(k, R)
        BY <2>1, <2>2, <4>1
      <4> QED
        BY <2>3, <4>1, <4>2, Zenon
    <3>2. CASE x \notin S
      BY <2>1, <2>2, <3>2
    <3> QED
      BY <3>1, <3>2
  <2> QED
    BY <2>4, AppendProperties
<1> HIDE DEF Good
<1>3. Seq(T) \subseteq Good
  BY <1>1, <1>2, ListInduction
<1> QED
  BY <1>3 DEF Good

-----------------------------------------------------------------------------
(* Ticks.                                                                  *)

Ticks == 0 .. Modulus - 1

LEMMA HalfLemma ==
    /\ Modulus \in Nat /\ Half \in Nat /\ Half >= 2 /\ Modulus >= 2 * Half + 1
    /\ Times \subseteq 1 .. Half - 1
<1>1. Modulus \in Nat /\ Times # {} /\ Times \subseteq 1 .. Half - 1
  BY TimerAssumption
<1>2. Half = (Modulus - 1) \div 2 /\ Half \in Int
  BY <1>1 DEF Half
<1>3. Half >= 2
  <2>1. PICK d : d \in 1 .. Half - 1
    BY <1>1
  <2> QED
    BY <1>2, <2>1
<1> QED
  BY <1>1, <1>2, <1>3

\* Unsigned differences and sums are ticks.
LEMMA TicksLemma ==
    ASSUME NEW x \in Ticks, NEW y \in Ticks
    PROVE  Minus(x, y) \in Ticks /\ Plus(x, y) \in Ticks
  BY HalfLemma DEF Minus, Plus, Ticks

\* What is said of a timer by its distance from now: what a timer armed for d
\* ticks is armed for, which timers are due, which time out later than it.
LEMMA ArmedLemma ==
    ASSUME NEW now \in Ticks, NEW d \in 0 .. Half - 1
    PROVE  Plus(now, d) \in Ticks /\ Minus(Plus(now, d), now) = d
  BY HalfLemma DEF Minus, Plus, Ticks

LEMMA DueLemma ==
    ASSUME rt_tick \in Ticks, timeout_tick \in [Timers -> Ticks],
           NEW u \in Timers, Left(u) < Half
    PROVE  Left(u) \in 0 .. Half - 1 /\ (Due(u) <=> Left(u) = 0)
<1> DEFINE x == timeout_tick[u]
<1>1. x \in Ticks
  OBVIOUS
<1> HIDE DEF x
<1>2. Minus(x, rt_tick) < Half => /\ Minus(x, rt_tick) \in 0 .. Half - 1
                                  /\ Minus(rt_tick, x) < Half <=> Minus(x, rt_tick) = 0
  BY <1>1, HalfLemma DEF Minus, Ticks
<1> QED
  BY <1>2 DEF Left, Due, x

LEMMA LaterLemma ==
    ASSUME rt_tick \in Ticks, timeout_tick \in [Timers -> Ticks],
           NEW u \in Timers, Left(u) < Half, NEW d \in 0 .. Half - 1
    PROVE  Later(u, Plus(rt_tick, d)) <=> Left(u) > d
<1> DEFINE x == timeout_tick[u]
<1>1. x \in Ticks
  OBVIOUS
<1> HIDE DEF x
<1>2. Minus(x, rt_tick) < Half =>
        LET e == Minus(x, Plus(rt_tick, d)) IN e # 0 /\ e < Half <=> Minus(x, rt_tick) > d
  BY <1>1, HalfLemma DEF Minus, Plus, Ticks
<1> QED
  BY <1>2 DEF Left, Later, x

LEMMA TickLemma ==
    ASSUME NEW now \in Ticks, NEW x \in Ticks, Minus(x, now) \in 1 .. Half - 1
    PROVE  /\ Plus(now, 1) \in Ticks
           /\ Minus(x, Plus(now, 1)) = Minus(x, now) - 1
  BY HalfLemma DEF Minus, Plus, Ticks

-----------------------------------------------------------------------------
(* A list with a member put in where rt_timer_start puts it.               *)

\* The members of T at distance e.
At(T, f, e) == {v \in T : f[v] = e}

LEMMA RisingSame ==
    ASSUME NEW l, NEW f, NEW g, \A x \in Members(l) : f[x] = g[x], Rising(l, f)
    PROVE  Rising(l, g)
<1>1. \A j \in DOMAIN l : l[j] \in Members(l)
  BY DEF Members
<1> QED
  BY <1>1 DEF Rising

\* new is r with u put in at k, which is where its distance d belongs; f are the
\* distances before, g those after.
Armed(T, r, u, f, d, k, g, new) ==
    /\ r \in Seq(T) /\ Once(r) /\ u \in T /\ u \notin Members(r)
    /\ f \in [T -> Int] /\ Rising(r, f) /\ d \in Int
    /\ k \in 1 .. Len(r) + 1
    /\ \A j \in 1 .. k - 1 : f[r[j]] <= d
    /\ \A j \in k .. Len(r) : f[r[j]] > d
    /\ g = [f EXCEPT ![u] = d] /\ new = Inserted(r, u, k)

LEMMA ArmLemma ==
    ASSUME NEW T, NEW r, NEW u, NEW f, NEW d, NEW k, NEW g, NEW new,
           Armed(T, r, u, f, d, k, g, new)
    PROVE  /\ new \in Seq(T) /\ Once(new) /\ Members(new) = Members(r) \cup {u}
           /\ Rising(new, g)
           /\ \A e \in Int :
                Kept(new, At(T, g, e)) =
                  IF e = d THEN Append(Kept(r, At(T, f, e)), u) ELSE Kept(r, At(T, f, e))
<1>0. /\ r \in Seq(T) /\ Once(r) /\ u \in T /\ u \notin Members(r)
      /\ f \in [T -> Int] /\ Rising(r, f) /\ d \in Int
      /\ k \in 1 .. Len(r) + 1
      /\ \A j \in 1 .. k - 1 : f[r[j]] <= d
      /\ \A j \in k .. Len(r) : f[r[j]] > d
      /\ g = [f EXCEPT ![u] = d] /\ new = Inserted(r, u, k)
  BY DEF Armed
<1> USE <1>0
<1>1. PICK a \in Seq(T), b \in Seq(T) :
        /\ r = a \o b /\ new = Append(a, u) \o b
        /\ \A x \in Members(a) : \E j \in 1 .. k - 1 : x = r[j]
        /\ \A x \in Members(b) : \E j \in k .. Len(r) : x = r[j]
  <2> DEFINE n == Len(r)
             a == SubSeq(r, 1, k - 1)
             b == SubSeq(r, k, n)
  <2>1. n \in Nat /\ k \in 1 .. n + 1
    OBVIOUS
  <2>2. r = a \o b
    <3>1. SubSeq(r, 1, k - 1) \o SubSeq(r, (k - 1) + 1, n) = SubSeq(r, 1, n)
      <4>1. 1 \in 1 .. Len(r) + 1 /\ k - 1 \in 1 - 1 .. Len(r) /\ n \in k - 1 .. Len(r)
        BY <2>1
      <4> HIDE DEF n
      <4> QED
        BY <4>1, ConcatAdjacentSubSeq
    <3>2. (k - 1) + 1 = k
      OBVIOUS
    <3> QED
      BY <3>1, <3>2, SubSeqFull
  <2>3. a \in Seq(T) /\ Len(a) = k - 1 /\ \A i \in 1 .. k - 1 : a[i] = r[i]
    BY <2>1
  <2>4. b \in Seq(T) /\ Len(b) = n - k + 1 /\ \A i \in 1 .. n - k + 1 : b[i] = r[k + i - 1]
    BY <2>1
  <2>5. new = Append(a, u) \o b
    BY <2>3, AppendIsConcat DEF Inserted
  <2> HIDE DEF a, b, n
  <2>6. DOMAIN a = 1 .. k - 1 /\ DOMAIN b = 1 .. n - k + 1
    BY <2>1, <2>3, <2>4
  <2>7. \A x \in Members(a) : \E j \in 1 .. k - 1 : x = r[j]
    BY <2>3, <2>6 DEF Members
  <2>8. \A x \in Members(b) : \E j \in k .. n : x = r[j]
    <3> SUFFICES ASSUME NEW i \in 1 .. n - k + 1 PROVE \E j \in k .. n : b[i] = r[j]
      BY <2>6 DEF Members
    <3>1. k + i - 1 \in k .. n
      BY <2>1
    <3> QED
      BY <2>4, <3>1
  <2> QED
    BY <2>2, <2>3, <2>4, <2>5, <2>7, <2>8 DEF n
<1>2. (\A x \in Members(a) : f[x] <= d) /\ (\A x \in Members(b) : f[x] > d)
  BY <1>1
<1>3. /\ Members(r) = Members(a) \cup Members(b)
      /\ Once(a) /\ Once(b) /\ Members(a) \cap Members(b) = {}
      /\ Rising(a, f) /\ Rising(b, f) /\ \A x \in Members(a), y \in Members(b) : f[x] <= f[y]
  BY <1>1, ConcatLemma
<1>4. /\ u \notin Members(a) /\ u \notin Members(b)
      /\ Members(a) \subseteq T /\ Members(b) \subseteq T
  BY <1>3, MembersLemma
<1>5. /\ g[u] = d /\ (\A x \in Members(a) : g[x] = f[x]) /\ (\A x \in Members(b) : g[x] = f[x])
      /\ \A x \in T : x # u => g[x] = f[x]
  BY <1>4
<1> DEFINE c == Append(a, u)
<1>6. /\ c \in Seq(T) /\ Members(c) = Members(a) \cup {u} /\ Once(c)
      /\ Rising(c, g) <=> Rising(a, g) /\ \A y \in Members(a) : g[y] <= g[u]
  BY <1>3, <1>4, AppendLemma
<1> HIDE DEF c
<1>7. Rising(a, g) /\ Rising(b, g)
  BY <1>3, <1>5, RisingSame
<1>8. Rising(c, g) /\ \A x \in Members(c), y \in Members(b) : g[x] <= g[y]
  <2>1. \A x \in Members(a) \cup Members(b) : f[x] \in Int
    BY <1>4
  <2> QED
    BY <1>2, <1>3, <1>5, <1>6, <1>7, <2>1
<1>9. new = c \o b
  BY <1>1 DEF c
<1>10. new \in Seq(T) /\ Once(new) /\ Members(new) = Members(r) \cup {u}
  <2>1. Members(c) \cap Members(b) = {}
    BY <1>3, <1>4, <1>6
  <2>2. /\ c \o b \in Seq(T) /\ Members(c \o b) = Members(c) \cup Members(b)
        /\ Once(c \o b) <=> Once(c) /\ Once(b) /\ Members(c) \cap Members(b) = {}
    BY <1>6, ConcatLemma
  <2> QED
    BY <1>3, <1>6, <1>9, <2>1, <2>2
<1>11. Rising(new, g)
  <2>1. Rising(c \o b, g) <=> /\ Rising(c, g) /\ Rising(b, g)
                              /\ \A x \in Members(c), y \in Members(b) : g[x] <= g[y]
    BY <1>6, ConcatLemma
  <2> QED
    BY <1>7, <1>8, <1>9, <2>1
<1>12. ASSUME NEW e \in Int
       PROVE  Kept(new, At(T, g, e)) =
                IF e = d THEN Append(Kept(r, At(T, f, e)), u) ELSE Kept(r, At(T, f, e))
  <2> DEFINE S == At(T, f, e)
             R == At(T, g, e)
             ka == Kept(a, S)
             kb == Kept(b, S)
  <2>1. Kept(a, R) = ka /\ Kept(b, R) = kb
    <3>1. /\ \A x \in Members(a) : x \in R <=> x \in S
          /\ \A x \in Members(b) : x \in R <=> x \in S
      BY <1>4, <1>5 DEF At
    <3> HIDE DEF R, S
    <3> QED
      BY <3>1, KeptSame
  <2>2. ka \in Seq(T) /\ kb \in Seq(T)
    BY KeptLemma
  <2>3. Kept(r, S) = ka \o kb
    BY <1>1, KeptConcat
  <2>4. Kept(new, R) = Kept(c, R) \o Kept(b, R)
    <3> HIDE DEF R
    <3>1. c \in Seq(T)
      BY <1>6
    <3>2. Kept(c \o b, R) = Kept(c, R) \o Kept(b, R)
      BY ONLY <3>1, b \in Seq(T), KeptConcat
    <3> QED
      BY <1>9, <3>2, Zenon
  <2>5. Kept(c, R) = IF u \in R THEN Append(Kept(a, R), u) ELSE Kept(a, R)
    <3> HIDE DEF R
    <3> QED
      BY ONLY a \in Seq(T), u \in T, KeptAppend DEF c
  <2>6. u \in R <=> e = d
    BY <1>5 DEF At
  <2>7. ASSUME e = d PROVE kb = <<>>
    <3>1. Members(b) \cap S = {}
      BY <1>2, <1>4, <2>7 DEF At
    <3> HIDE DEF S
    <3> QED
      BY <3>1, KeptNone
  <2> HIDE DEF S, R, ka, kb
  <2>8. CASE e = d
    <3>1. Kept(r, S) = ka /\ Kept(new, R) = Append(ka, u)
      BY <2>1, <2>2, <2>3, <2>4, <2>5, <2>6, <2>7, <2>8, ConcatEmptySeq, AppendProperties
    <3> QED
      BY <2>8, <3>1 DEF R, S
  <2>9. CASE e # d
    <3>1. Kept(new, R) = Kept(r, S)
      BY <2>1, <2>3, <2>4, <2>5, <2>6, <2>9
    <3> QED
      BY <2>9, <3>1 DEF R, S
  <2> QED
    BY <2>8, <2>9
<1> QED
  BY <1>10, <1>11, <1>12

Others(T, u) == T \ {u}

\* A list with a member taken out, whose distance no longer matters.
Dropped(T, l, u, f, g, r) ==
    /\ l \in Seq(T) /\ Once(l) /\ Rising(l, f)
    /\ \A x \in T : x # u => g[x] = f[x]
    /\ r = Kept(l, Others(T, u))

LEMMA DropLemma ==
    ASSUME NEW T, NEW l, NEW u, NEW f, NEW g, NEW r, Dropped(T, l, u, f, g, r)
    PROVE  /\ r \in Seq(T) /\ Once(r) /\ Members(r) = Members(l) \ {u}
           /\ Rising(r, g)
           /\ \A e \in Int : Kept(r, At(T, g, e)) = Kept(Kept(l, At(T, f, e)), Others(T, u))
<1>0. /\ l \in Seq(T) /\ Once(l) /\ Rising(l, f)
      /\ \A x \in T : x # u => g[x] = f[x]
      /\ r = Kept(l, Others(T, u))
  BY DEF Dropped
<1> USE <1>0
<1>1. Members(l) \subseteq T
  BY MembersLemma
<1>2. r \in Seq(T) /\ Once(r) /\ Members(r) = Members(l) \ {u} /\ Rising(r, f)
  <2>1. /\ Kept(l, Others(T, u)) \in Seq(T)
        /\ Members(Kept(l, Others(T, u))) = Members(l) \cap Others(T, u)
        /\ Once(Kept(l, Others(T, u)))
        /\ Rising(Kept(l, Others(T, u)), f)
    BY KeptLemma
  <2> QED
    BY <1>1, <2>1 DEF Others
<1>3. Rising(r, g)
  <2>1. \A x \in Members(r) : f[x] = g[x]
    BY <1>1, <1>2
  <2> QED
    BY <1>2, <2>1, RisingSame
<1>4. ASSUME NEW e \in Int PROVE Kept(r, At(T, g, e)) = Kept(Kept(l, At(T, f, e)), Others(T, u))
  <2> DEFINE S == At(T, f, e)
             R == At(T, g, e)
             Rest == Others(T, u)
  <2>1. Rest \cap R = S \cap Rest
    BY DEF At, Others
  <2>2. r = Kept(l, Rest)
    OBVIOUS
  <2> HIDE DEF S, R, Rest
  <2>3. Kept(Kept(l, Rest), R) = Kept(l, Rest \cap R) /\ Kept(Kept(l, S), Rest) = Kept(l, S \cap Rest)
    BY KeptTwice
  <2>4. Kept(r, R) = Kept(Kept(l, S), Rest)
    BY <2>1, <2>2, <2>3
  <2> QED
    BY <2>4 DEF S, R, Rest
<1> QED
  BY <1>2, <1>3, <1>4

\* A list is its head and the rest; the head is kept or not.
LEMMA HeadLemma ==
    ASSUME NEW T, NEW l \in Seq(T), l # <<>>, NEW S
    PROVE  /\ Head(l) \in T /\ Tail(l) \in Seq(T) /\ Head(l) \in Members(l)
           /\ Once(l) => Head(l) \notin Members(Tail(l))
           /\ \A f : Rising(l, f) => \A x \in Members(Tail(l)) : f[Head(l)] <= f[x]
           /\ Members(l) = {Head(l)} \cup Members(Tail(l))
           /\ Kept(l, S) = IF Head(l) \in S THEN <<Head(l)>> \o Kept(Tail(l), S) ELSE Kept(Tail(l), S)
<1> DEFINE h == Head(l)
           r == Tail(l)
           e == <<h>>
<1>1. h \in T /\ r \in Seq(T) /\ h \in Members(l)
  BY MembersLemma, HeadTailProperties
<1>2. l = e \o r
  <2>1. SubSeq(l, 1, Len(l)) = <<l[1]>> \o SubSeq(l, 1 + 1, Len(l))
    <3>1. 1 \in 1 .. Len(l) /\ Len(l) \in 1 .. Len(l)
      OBVIOUS
    <3> QED
      BY <3>1, SubSeqRecursiveFirst
  <2>2. 1 + 1 = 2 /\ h = l[1]
    BY MembersLemma
  <2> QED
    BY <2>1, <2>2, SubSeqFull, TailIsSubSeq
<1>3. e \in Seq(T) /\ Members(e) = {h}
  BY <1>1, SingleLemma
<1>4. Kept(e, S) = IF h \in S THEN e ELSE <<>>
  <2> HIDE DEF e
  <2> QED
    BY <1>3, KeptAll, KeptNone
<1>5. Kept(r, S) \in Seq(T)
  BY <1>1, KeptLemma
<1> HIDE DEF h, r, e
<1>6. Kept(l, S) = IF h \in S THEN e \o Kept(r, S) ELSE Kept(r, S)
  <2>1. Kept(l, S) = Kept(e, S) \o Kept(r, S)
    BY <1>1, <1>2, <1>3, KeptConcat
  <2> QED
    BY <1>4, <1>5, <2>1, ConcatEmptySeq
<1>7. /\ Members(l) = Members(e) \cup Members(r)
      /\ Once(l) => Members(e) \cap Members(r) = {}
      /\ \A f : Rising(l, f) => \A x \in Members(e), y \in Members(r) : f[x] <= f[y]
  BY <1>1, <1>2, <1>3, ConcatLemma
<1> QED
  BY <1>1, <1>3, <1>6, <1>7 DEF h, r, e

-----------------------------------------------------------------------------
(* What the calls do to the list, to the distances and to the rows.        *)

Lefts == [u \in Timers |-> Left(u)]

\* The timers d ticks from now, as the list has them.
Row(d) == Kept(rt_timer_list, At(Timers, Lefts, d))

LEMMA SortedLemma ==
    ASSUME SoonestFirst
    PROVE  /\ rt_tick \in Ticks /\ timeout_tick \in [Timers -> Ticks]
           /\ init_tick \in [Timers -> 1 .. Half - 1]
           /\ rt_timer_list \in Seq(Timers) /\ Once(rt_timer_list)
           /\ Lefts \in [Timers -> Ticks] /\ Lefts \in [Timers -> Int]
           /\ Rising(rt_timer_list, Lefts)
           /\ OnList = Members(rt_timer_list) /\ OnList \subseteq Timers
           /\ \A u \in OnList : Lefts[u] = Left(u) /\ Left(u) \in 0 .. Half - 1
           /\ isr = "threads" => \A u \in OnList : Left(u) > 0
<1>1. /\ rt_tick \in Ticks /\ timeout_tick \in [Timers -> Ticks]
      /\ rt_timer_list \in Seq(Timers) /\ Once(rt_timer_list)
  BY DEF SoonestFirst, TypeOK, Ticks, Once
<1>2. init_tick \in [Timers -> 1 .. Half - 1]
  BY HalfLemma DEF SoonestFirst, TypeOK
<1>3. Lefts \in [Timers -> Ticks]
  BY <1>1, TicksLemma DEF Lefts, Left
<1>4. Lefts \in [Timers -> Int]
  BY <1>3, HalfLemma DEF Ticks
<1>5. OnList = Members(rt_timer_list) /\ OnList \subseteq Timers
  BY <1>1, MembersLemma DEF OnList, Members
<1>6. \A u \in OnList : Lefts[u] = Left(u) /\ Left(u) \in 0 .. Half - 1
  <2>1. \A u \in OnList : Lefts[u] = Left(u)
    BY <1>5 DEF Lefts
  <2>2. \A u \in OnList : Left(u) < Half
    BY DEF SoonestFirst
  <2>3. \A u \in OnList : Lefts[u] \in Ticks
    BY <1>3, <1>5
  <2> QED
    BY <2>1, <2>2, <2>3, HalfLemma DEF Ticks
<1>7. Rising(rt_timer_list, Lefts)
  <2>1. \A j \in DOMAIN rt_timer_list : rt_timer_list[j] \in OnList
    BY DEF OnList
  <2> QED
    BY <1>6, <2>1 DEF Rising, SoonestFirst
<1> QED
  BY <1>1, <1>2, <1>3, <1>4, <1>5, <1>6, <1>7 DEF SoonestFirst

\* Where rt_timer_start puts a timer.
LEMMA PlaceLemma ==
    ASSUME rt_tick \in Ticks, timeout_tick \in [Timers -> Ticks],
           NEW r \in Seq(Timers), Rising(r, Lefts), \A v \in Members(r) : Left(v) < Half,
           NEW d \in 0 .. Half - 1, NEW tick, tick = Plus(rt_tick, d)
    PROVE  /\ Place(r, tick) \in 1 .. Len(r) + 1
           /\ \A j \in 1 .. Place(r, tick) - 1 : Lefts[r[j]] <= d
           /\ \A j \in Place(r, tick) .. Len(r) : Lefts[r[j]] > d
<1> DEFINE n == Len(r)
           I == {i \in 1 .. n : Later(r[i], tick)}
           Good(k) == /\ \A j \in 1 .. k - 1 : ~Later(r[j], tick)
                      /\ k <= n => Later(r[k], tick)
           k == Place(r, tick)
<1>1. n \in Nat /\ DOMAIN r = 1 .. n /\ Half \in Nat
  BY HalfLemma
<1>2. ASSUME NEW j \in 1 .. n
      PROVE  /\ Lefts[r[j]] \in 0 .. Half - 1
             /\ Later(r[j], tick) <=> Lefts[r[j]] > d
  <2>1. r[j] \in Timers /\ Left(r[j]) < Half
    BY <1>1 DEF Members
  <2>2. Left(r[j]) \in 0 .. Half - 1
    BY <2>1, DueLemma
  <2>3. Later(r[j], tick) <=> Left(r[j]) > d
    BY <2>1, LaterLemma
  <2> QED
    BY <2>1, <2>2, <2>3 DEF Lefts
<1> HIDE DEF n
<1>3. \E i \in 1 .. n + 1 : Good(i)
  <2>1. CASE I = {}
    <3>1. Good(n + 1) /\ n + 1 \in 1 .. n + 1
      BY <1>1, <2>1
    <3> QED
      BY <3>1
  <2>2. CASE I # {}
    <3>1. PICK i \in I : \A j \in I : i <= j
      BY <1>1, <2>2, I \subseteq Nat, LeastNat
    <3>2. Good(i) /\ i \in 1 .. n + 1
      BY <1>1, <3>1
    <3> QED
      BY <3>2
  <2> QED
    BY <2>1, <2>2
<1>4. k \in 1 .. n + 1 /\ Good(k)
  <2>1. k = CHOOSE i \in 1 .. n + 1 : Good(i)
    BY DEF Place, n
  <2> HIDE DEF k, Good
  <2> QED
    BY <1>3, <2>1
<1> HIDE DEF k
<1>5. \A j \in 1 .. k - 1 : Lefts[r[j]] <= d
  <2> SUFFICES ASSUME NEW j \in 1 .. k - 1 PROVE Lefts[r[j]] <= d
    OBVIOUS
  <2>1. j \in 1 .. n /\ ~Later(r[j], tick)
    BY <1>1, <1>4
  <2> QED
    BY <1>1, <1>2, <2>1
<1>6. \A j \in k .. n : Lefts[r[j]] > d
  <2> SUFFICES ASSUME NEW j \in k .. n PROVE Lefts[r[j]] > d
    OBVIOUS
  <2>1. k \in 1 .. n /\ j \in 1 .. n /\ (k = j \/ k < j)
    BY <1>1, <1>4
  <2>2. Lefts[r[k]] > d
    BY <1>1, <1>2, <1>4, <2>1
  <2>3. Lefts[r[k]] <= Lefts[r[j]]
    <3>1. Lefts[r[k]] \in Int
      BY <1>2, <2>1
    <3> QED
      BY <1>1, <2>1, <3>1 DEF Rising
  <2> QED
    BY <1>1, <1>2, <2>1, <2>2, <2>3
<1> QED
  BY <1>4, <1>5, <1>6 DEF k, n

\* What every step leaves of the list and the rows, as far as it can disturb them.
Sorted ==
    /\ rt_timer_list \in Seq(Timers) /\ Once(rt_timer_list)
    /\ timeout_tick \in [Timers -> Ticks]
    /\ Rising(rt_timer_list, Lefts)
    /\ \A u \in Members(rt_timer_list) : Left(u) < Half

\* rt_timer_start, whatever calls it: the timer stands behind those it is not
\* sooner than, and is appended to its row of the wheel.
LEMMA StartTimerLemma ==
    ASSUME SoonestFirst, NEW u \in Timers, StartTimer(u), rt_tick' = rt_tick
    PROVE  /\ Sorted' /\ Members(rt_timer_list') = OnList \cup {u}
           /\ Lefts' = [Lefts EXCEPT ![u] = init_tick[u]]
           /\ \A e \in 0 .. Half - 1 :
                Row(e)' = IF e = init_tick[u] THEN Append(Kept(Row(e), Others(Timers, u)), u)
                                              ELSE Kept(Row(e), Others(Timers, u))
<1> DEFINE d == init_tick[u]
           tick == Plus(rt_tick, d)
           r == Without(rt_timer_list, u)
           k == Place(r, tick)
<1>1. /\ rt_tick \in Ticks /\ timeout_tick \in [Timers -> Ticks] /\ d \in 1 .. Half - 1
      /\ rt_timer_list \in Seq(Timers) /\ Once(rt_timer_list)
      /\ Lefts \in [Timers -> Int] /\ Rising(rt_timer_list, Lefts)
      /\ OnList = Members(rt_timer_list)
      /\ \A v \in OnList : Left(v) < Half
  BY SortedLemma, HalfLemma
<1>2. /\ timeout_tick' = [timeout_tick EXCEPT ![u] = tick]
      /\ rt_timer_list' = Inserted(r, u, k)
  BY DEF StartTimer
<1>3. r = Kept(rt_timer_list, Others(Timers, u))
  BY DEF Without, Others
<1> HIDE DEF d, r
<1>4. /\ r \in Seq(Timers) /\ Once(r) /\ Members(r) = Members(rt_timer_list) \ {u}
      /\ Rising(r, Lefts)
      /\ \A e \in Int : Kept(r, At(Timers, Lefts, e)) =
                  Kept(Kept(rt_timer_list, At(Timers, Lefts, e)), Others(Timers, u))
  <2> DEFINE f == Lefts
             l == rt_timer_list
  <2>1. Dropped(Timers, l, u, f, f, r)
    BY <1>1, <1>3 DEF Dropped
  <2> HIDE DEF f, l
  <2>2. /\ r \in Seq(Timers) /\ Once(r) /\ Members(r) = Members(l) \ {u} /\ Rising(r, f)
        /\ \A e \in Int : Kept(r, At(Timers, f, e)) = Kept(Kept(l, At(Timers, f, e)), Others(Timers, u))
    BY <2>1, DropLemma
  <2> QED
    BY <2>2 DEF f, l
<1>5. d \in 0 .. Half - 1 /\ d \in Int /\ tick \in Ticks /\ Minus(tick, rt_tick) = d
  BY <1>1, ArmedLemma
<1> HIDE DEF tick
<1>6. /\ k \in 1 .. Len(r) + 1
      /\ \A j \in 1 .. k - 1 : Lefts[r[j]] <= d
      /\ \A j \in k .. Len(r) : Lefts[r[j]] > d
  BY <1>1, <1>4, <1>5, PlaceLemma DEF tick
<1> HIDE DEF k
<1>7. timeout_tick' \in [Timers -> Ticks]
  BY <1>1, <1>2, <1>5
<1>8. Lefts' = [Lefts EXCEPT ![u] = d]
  <2>1. \A v \in Timers : Minus(timeout_tick'[v], rt_tick) =
                            IF v = u THEN d ELSE Minus(timeout_tick[v], rt_tick)
    BY <1>1, <1>2, <1>5
  <2> QED
    BY <2>1 DEF Lefts, Left
<1>9. /\ rt_timer_list' \in Seq(Timers) /\ Once(rt_timer_list')
      /\ Members(rt_timer_list') = Members(r) \cup {u}
      /\ Rising(rt_timer_list', Lefts')
      /\ \A e \in Int :
           Kept(rt_timer_list', At(Timers, Lefts', e)) =
             IF e = d THEN Append(Kept(r, At(Timers, Lefts, e)), u)
                      ELSE Kept(r, At(Timers, Lefts, e))
  <2> DEFINE f == Lefts
             g == Lefts'
             new == rt_timer_list'
  <2>1. Armed(Timers, r, u, f, d, k, g, new)
    BY <1>1, <1>2, <1>4, <1>5, <1>6, <1>8 DEF Armed
  <2> HIDE DEF f, g, new
  <2>2. /\ new \in Seq(Timers) /\ Once(new) /\ Members(new) = Members(r) \cup {u}
        /\ Rising(new, g)
        /\ \A e \in Int :
             Kept(new, At(Timers, g, e)) =
               IF e = d THEN Append(Kept(r, At(Timers, f, e)), u) ELSE Kept(r, At(Timers, f, e))
    BY <2>1, ArmLemma
  <2> QED
    BY <2>2 DEF f, g, new
<1>10. Members(rt_timer_list') = OnList \cup {u}
  BY <1>1, <1>4, <1>9
<1>11. ASSUME NEW v \in Members(rt_timer_list') PROVE Left(v)' < Half
  <2>1. v \in Timers
    BY <1>9, MembersLemma
  <2>2. Left(v)' = IF v = u THEN d ELSE Left(v)
    BY <1>1, <1>2, <1>5, <2>1 DEF Left
  <2> QED
    BY <1>1, <1>10, <2>2, HalfLemma
<1>12. Sorted'
  BY <1>7, <1>9, <1>11 DEF Sorted
<1>13. ASSUME NEW e \in 0 .. Half - 1
       PROVE  Row(e)' = IF e = d THEN Append(Kept(Row(e), Others(Timers, u)), u)
                                 ELSE Kept(Row(e), Others(Timers, u))
  <2>1. e \in Int
    OBVIOUS
  <2>2. Row(e)' = Kept(rt_timer_list', At(Timers, Lefts', e))
    BY DEF Row, At
  <2> QED
    BY <1>4, <1>9, <2>1, <2>2 DEF Row
<1> QED
  BY <1>8, <1>10, <1>12, <1>13 DEF d

\* A timer comes off the list, and out of its row.
LEMMA UnlinkLemma ==
    ASSUME SoonestFirst, NEW u \in Timers, rt_tick' = rt_tick,
           rt_timer_list' = Without(rt_timer_list, u),
           timeout_tick' = [timeout_tick EXCEPT ![u] = 0]
    PROVE  /\ Sorted' /\ Members(rt_timer_list') = OnList \ {u}
           /\ \A v \in Timers : v # u => Left(v)' = Left(v)
           /\ \A e \in Int : Row(e)' = Kept(Row(e), Others(Timers, u))
<1>1. /\ rt_tick \in Ticks /\ timeout_tick \in [Timers -> Ticks]
      /\ rt_timer_list \in Seq(Timers) /\ Once(rt_timer_list)
      /\ Rising(rt_timer_list, Lefts)
      /\ OnList = Members(rt_timer_list) /\ OnList \subseteq Timers
      /\ \A v \in OnList : Left(v) < Half
  BY SortedLemma, HalfLemma
<1>2. \A v \in Timers : v # u => Left(v)' = Left(v)
  BY <1>1 DEF Left
<1>3. \A v \in Timers : v # u => Lefts'[v] = Lefts[v]
  BY <1>2 DEF Lefts
<1>4. rt_timer_list' = Kept(rt_timer_list, Others(Timers, u))
  BY DEF Without, Others
<1>5. /\ rt_timer_list' \in Seq(Timers) /\ Once(rt_timer_list')
      /\ Members(rt_timer_list') = Members(rt_timer_list) \ {u}
      /\ Rising(rt_timer_list', Lefts')
      /\ \A e \in Int : Kept(rt_timer_list', At(Timers, Lefts', e)) =
                  Kept(Kept(rt_timer_list, At(Timers, Lefts, e)), Others(Timers, u))
  <2> DEFINE f == Lefts
             g == Lefts'
             l == rt_timer_list
             r == rt_timer_list'
  <2>1. Dropped(Timers, l, u, f, g, r)
    BY <1>1, <1>3, <1>4 DEF Dropped
  <2> HIDE DEF f, g, l, r
  <2>2. /\ r \in Seq(Timers) /\ Once(r) /\ Members(r) = Members(l) \ {u} /\ Rising(r, g)
        /\ \A e \in Int : Kept(r, At(Timers, g, e)) = Kept(Kept(l, At(Timers, f, e)), Others(Timers, u))
    BY <2>1, DropLemma
  <2> QED
    BY <2>2 DEF f, g, l, r
<1>6. timeout_tick' \in [Timers -> Ticks]
  <2>1. 0 \in Ticks
    BY HalfLemma DEF Ticks
  <2> QED
    BY <1>1, <2>1
<1>7. \A v \in Members(rt_timer_list') : Left(v)' < Half
  BY <1>1, <1>2, <1>5
<1>8. Sorted'
  BY <1>5, <1>6, <1>7 DEF Sorted
<1>9. \A e \in Int : Row(e)' = Kept(Row(e), Others(Timers, u))
  BY <1>5 DEF Row, At
<1> QED
  BY <1>1, <1>2, <1>5, <1>8, <1>9

\* A tick later every timer on the list is one tick nearer.
LEMMA TickStepLemma ==
    ASSUME SoonestFirst, Tick
    PROVE  /\ Sorted' /\ rt_tick' \in Ticks
           /\ Row(0) = <<>>
           /\ \A e \in 0 .. Half - 1 : Row(e)' = IF e = Half - 1 THEN <<>> ELSE Row(e + 1)
<1>1. /\ rt_tick \in Ticks /\ timeout_tick \in [Timers -> Ticks]
      /\ rt_timer_list \in Seq(Timers) /\ Once(rt_timer_list)
      /\ Rising(rt_timer_list, Lefts) /\ Half \in Nat /\ Half >= 2
      /\ OnList = Members(rt_timer_list) /\ OnList \subseteq Timers
      /\ \A v \in OnList : Lefts[v] = Left(v) /\ Left(v) \in 1 .. Half - 1
  BY SortedLemma, HalfLemma DEF Tick
<1>2. /\ rt_tick' = Plus(rt_tick, 1) /\ rt_timer_list' = rt_timer_list
      /\ timeout_tick' = timeout_tick
  BY DEF Tick
<1>3. rt_tick' \in Ticks
  <2>1. 1 \in Ticks
    BY HalfLemma DEF Ticks
  <2> QED
    BY <1>1, <1>2, <2>1, TicksLemma
<1>4. ASSUME NEW v \in OnList PROVE Left(v)' = Left(v) - 1 /\ Lefts'[v] = Lefts[v] - 1
  <2>1. v \in Timers /\ timeout_tick[v] \in Ticks
    BY <1>1
  <2>2. Left(v)' = Left(v) - 1
    BY <1>1, <1>2, <2>1, TickLemma DEF Left
  <2> QED
    BY <1>1, <2>1, <2>2 DEF Lefts
<1>5. Rising(rt_timer_list, Lefts')
  <2>1. \A j \in DOMAIN rt_timer_list : rt_timer_list[j] \in OnList
    BY DEF OnList
  <2> QED
    BY <1>1, <1>4, <2>1 DEF Rising
<1>6. Sorted'
  BY <1>1, <1>2, <1>4, <1>5 DEF Sorted
<1>7. Row(0) = <<>>
  <2>1. Members(rt_timer_list) \cap At(Timers, Lefts, 0) = {}
    BY <1>1 DEF At
  <2> QED
    BY <1>1, <2>1, KeptNone DEF Row
<1>8. ASSUME NEW e \in 0 .. Half - 1
      PROVE  Row(e)' = IF e = Half - 1 THEN <<>> ELSE Row(e + 1)
  <2> DEFINE S == At(Timers, Lefts, e + 1)
             R == At(Timers, Lefts', e)
  <2>1. \A v \in Members(rt_timer_list) : v \in R <=> v \in S
    BY <1>1, <1>4 DEF At
  <2>2. e = Half - 1 => Members(rt_timer_list) \cap S = {}
    BY <1>1 DEF At
  <2>3. Row(e)' = Kept(rt_timer_list, R) /\ Row(e + 1) = Kept(rt_timer_list, S)
    BY <1>2 DEF Row, At
  <2> HIDE DEF S, R
  <2>4. Kept(rt_timer_list, R) = Kept(rt_timer_list, S)
    BY <1>1, <2>1, KeptSame
  <2>5. e = Half - 1 => Kept(rt_timer_list, S) = <<>>
    BY <1>1, <2>2, KeptNone
  <2> QED
    BY <2>3, <2>4, <2>5
<1> QED
  BY <1>3, <1>6, <1>7, <1>8

-----------------------------------------------------------------------------
(* The list stays sorted.                                                  *)

\* rt_timer_check's own list holds one timer at most.
LEMMA OwnLemma ==
    ASSUME SoonestFirst
    PROVE  \/ list = <<>>
           \/ /\ isr = "callback" /\ list = <<Head(list)>> /\ list # <<>>
              /\ Head(list) \in Timers /\ Head(list) \notin OnList
<1>1. list \in {<<>>} \cup {<<t>> : t \in Timers \ OnList} /\ (list # <<>> => isr = "callback")
  BY DEF SoonestFirst, TypeOK
<1>2. CASE list # <<>>
  <2>1. PICK t \in Timers \ OnList : list = <<t>>
    BY <1>1, <1>2
  <2>2. Head(list) = t
    BY <2>1
  <2> QED
    BY <1>1, <1>2, <2>1, <2>2
<1> QED
  BY <1>2

LEMMA OwnWithoutLemma ==
    ASSUME SoonestFirst, NEW u \in Timers
    PROVE  Without(list, u) = IF list # <<>> /\ Head(list) = u THEN <<>> ELSE list
<1>1. CASE list = <<>>
  BY <1>1, KeptEmpty DEF Without
<1>2. CASE list # <<>>
  <2> DEFINE h == Head(list)
             R == Others(Timers, u)
  <2>1. list = <<h>> /\ h \in Timers
    BY <1>2, OwnLemma
  <2>2. list \in Seq(Timers) /\ Members(list) = {h}
    BY <2>1, SingleLemma
  <2>3. h \in R <=> h # u
    BY <2>1 DEF Others
  <2>4. Without(list, u) = Kept(list, R)
    BY DEF Without, Others
  <2> HIDE DEF h, R
  <2>5. CASE h = u
    <3>1. Members(list) \cap R = {}
      BY <2>2, <2>3, <2>5
    <3> QED
      BY <1>2, <2>2, <2>4, <2>5, <3>1, KeptNone DEF h
  <2>6. CASE h # u
    <3>1. Members(list) \subseteq R
      BY <2>2, <2>3, <2>6
    <3> QED
      BY <1>2, <2>2, <2>4, <2>6, <3>1, KeptAll DEF h
  <2> QED
    BY <2>5, <2>6
<1> QED
  BY <1>1, <1>2

\* What a step has to show.
LEMMA NextSoonest ==
    ASSUME Sorted', rt_tick' \in Ticks, activated' \subseteq Timers, periodic' \subseteq Timers,
           init_tick' \in [Timers -> Times], isr' \in {"threads", "check", "callback"},
           \/ list' = <<>>
           \/ \E t \in Timers : /\ list' = <<t>> /\ t \notin Members(rt_timer_list')
                                /\ isr' = "callback",
           Members(rt_timer_list') \subseteq activated',
           isr' = "threads" => \A u \in Members(rt_timer_list') : Left(u)' > 0
    PROVE  SoonestFirst'
<1>1. OnList' = Members(rt_timer_list') /\ OnList' \subseteq Timers
  BY MembersLemma DEF OnList, Members, Sorted
<1>2. TypeOK'
  BY <1>1 DEF TypeOK, Sorted, Ticks, Once
<1>3. \A u \in OnList' : Left(u)' < Half
  BY <1>1 DEF Sorted
<1>4. ASSUME NEW j \in DOMAIN rt_timer_list', NEW k \in DOMAIN rt_timer_list', j < k
      PROVE  Left(rt_timer_list[j])' <= Left(rt_timer_list[k])'
  <2>1. rt_timer_list'[j] \in Timers /\ rt_timer_list'[k] \in Timers
    BY <1>1 DEF OnList
  <2>2. Lefts'[rt_timer_list'[j]] <= Lefts'[rt_timer_list'[k]]
    BY <1>4 DEF Sorted, Rising
  <2> QED
    BY <2>1, <2>2 DEF Lefts
<1>5. isr' = "threads" => \A u \in OnList' : Left(u)' > 0
  BY <1>1
<1> QED
  BY <1>2, <1>3, <1>4, <1>5 DEF SoonestFirst

LEMMA TypesLemma ==
    ASSUME SoonestFirst
    PROVE  /\ Sorted /\ rt_tick \in Ticks /\ activated \subseteq Timers /\ periodic \subseteq Timers
           /\ init_tick \in [Timers -> Times] /\ isr \in {"threads", "check", "callback"}
           /\ OnList = Members(rt_timer_list) /\ OnList \subseteq activated
           /\ isr = "threads" => \A u \in OnList : Left(u) > 0
           /\ \/ list = <<>>
              \/ \E t \in Timers : list = <<t>> /\ t \notin OnList /\ isr = "callback"
<1>1. Sorted /\ rt_tick \in Ticks /\ OnList = Members(rt_timer_list)
  BY SortedLemma DEF Sorted, SoonestFirst
<1>2. \/ list = <<>>
      \/ \E t \in Timers : list = <<t>> /\ t \notin OnList /\ isr = "callback"
  BY OwnLemma
<1> QED
  BY <1>1, <1>2 DEF SoonestFirst, TypeOK

LEMMA SoonestInit == Init => SoonestFirst
<1> SUFFICES ASSUME Init PROVE SoonestFirst
  OBVIOUS
<1>1. 0 \in Ticks /\ rt_timer_list = <<>> /\ OnList = {} /\ DOMAIN rt_timer_list = {}
  BY HalfLemma DEF Init, Ticks, OnList
<1> QED
  BY <1>1 DEF Init, SoonestFirst, TypeOK, Ticks

LEMMA StartSoonest ==
    ASSUME SoonestFirst, NEW u \in Timers, Start(u)
    PROVE  SoonestFirst'
<1>1. /\ StartTimer(u) /\ list' = Without(list, u) /\ activated' = activated \cup {u}
      /\ UNCHANGED <<rt_tick, periodic, init_tick, isr>>
  BY DEF Start, StartTimer
<1>2. /\ Sorted' /\ Members(rt_timer_list') = OnList \cup {u}
      /\ Lefts' = [Lefts EXCEPT ![u] = init_tick[u]]
  BY <1>1, StartTimerLemma
<1>3. ASSUME isr' = "threads", NEW v \in OnList \cup {u} PROVE Left(v)' > 0
  <2>1. v \in Timers /\ init_tick[u] > 0 /\ Lefts \in [Timers -> Int] /\ (v # u => Lefts[v] > 0)
    BY <1>1, <1>3, SortedLemma, HalfLemma
  <2>2. Left(v)' = Lefts'[v]
    BY <2>1 DEF Lefts
  <2> QED
    BY <1>2, <2>1, <2>2
<1>4. \/ list' = <<>>
      \/ \E t \in Timers : list' = <<t>> /\ t \notin Members(rt_timer_list') /\ isr' = "callback"
  <2>1. list' = IF list # <<>> /\ Head(list) = u THEN <<>> ELSE list
    BY <1>1, OwnWithoutLemma
  <2> QED
    BY <1>1, <1>2, <2>1, OwnLemma
<1> QED
  BY <1>1, <1>2, <1>3, <1>4, TypesLemma, NextSoonest

LEMMA UnlinkSoonest ==
    ASSUME SoonestFirst, NEW u \in Timers, Unlink(u)
    PROVE  SoonestFirst'
<1>1. /\ list' = Without(list, u) /\ activated' = activated \ {u}
      /\ UNCHANGED <<rt_tick, periodic, init_tick, isr>>
  BY DEF Unlink
<1>2. /\ Sorted' /\ Members(rt_timer_list') = OnList \ {u}
      /\ \A v \in Timers : v # u => Left(v)' = Left(v)
  BY UnlinkLemma DEF Unlink
<1>3. \/ list' = <<>>
      \/ \E t \in Timers : list' = <<t>> /\ t \notin Members(rt_timer_list') /\ isr' = "callback"
  <2>1. list' = IF list # <<>> /\ Head(list) = u THEN <<>> ELSE list
    BY <1>1, OwnWithoutLemma
  <2> QED
    BY <1>1, <1>2, <2>1, OwnLemma
<1>4. isr' = "threads" => \A v \in OnList \ {u} : Left(v)' > 0
  BY <1>1, <1>2, TypesLemma
<1> QED
  BY <1>1, <1>2, <1>3, <1>4, TypesLemma, NextSoonest

LEMMA ExpireSoonest ==
    ASSUME SoonestFirst, Expire
    PROVE  SoonestFirst'
<1> DEFINE t == Head(rt_timer_list)
<1>1. /\ rt_timer_list # <<>> /\ rt_timer_list' = Without(rt_timer_list, t)
      /\ activated' = IF t \in periodic THEN activated ELSE activated \ {t}
      /\ timeout_tick' = [timeout_tick EXCEPT ![t] = 0]
      /\ list' = <<t>> /\ isr' = "callback"
      /\ UNCHANGED <<rt_tick, periodic, init_tick>>
  BY DEF Expire, AnyDue
<1>2. t \in Timers
  BY <1>1, SortedLemma, MembersLemma
<1> HIDE DEF t
<1>3. Sorted' /\ Members(rt_timer_list') = OnList \ {t}
  BY <1>1, <1>2, UnlinkLemma
<1> QED
  BY <1>1, <1>2, <1>3, TypesLemma, NextSoonest

LEMMA ReturnsSoonest ==
    ASSUME SoonestFirst, CallbackReturns
    PROVE  SoonestFirst'
<1>1. /\ list' = <<>> /\ isr' = "check" /\ UNCHANGED <<rt_tick, periodic, init_tick>>
  BY DEF CallbackReturns
<1>2. CASE list # <<>> /\ Head(list) \in periodic \cap activated
  <2> DEFINE u == Head(list)
  <2>1. u \in Timers /\ StartTimer(u) /\ activated' = activated \cup {u}
    BY <1>2, OwnLemma DEF CallbackReturns, StartTimer
  <2> HIDE DEF u
  <2>2. Sorted' /\ Members(rt_timer_list') = OnList \cup {u}
    BY <1>1, <2>1, StartTimerLemma
  <2> QED
    BY <1>1, <2>1, <2>2, TypesLemma, NextSoonest
<1>3. CASE ~(list # <<>> /\ Head(list) \in periodic \cap activated)
  <2>1. UNCHANGED <<rt_timer_list, activated, timeout_tick>>
    BY <1>3 DEF CallbackReturns
  <2>2. Sorted'
    BY <1>1, <2>1, TypesLemma DEF Sorted, Lefts, Left
  <2> QED
    BY <1>1, <2>1, <2>2, TypesLemma, NextSoonest
<1> QED
  BY <1>2, <1>3

\* No timer before the first that is not due is left: all are in the future.
LEMMA LeaveSoonest ==
    ASSUME SoonestFirst, Leave
    PROVE  SoonestFirst'
<1>1. isr' = "threads" /\ isr = "check"
      /\ UNCHANGED <<rt_tick, rt_timer_list, flags, init_tick, timeout_tick, list>>
  BY DEF Leave
<1>2. Sorted'
  BY <1>1, TypesLemma DEF Sorted, Lefts, Left
<1>3. ASSUME NEW u \in OnList PROVE Left(u) > 0
  <2> DEFINE h == Head(rt_timer_list)
             r == Tail(rt_timer_list)
  <2>1. /\ rt_timer_list \in Seq(Timers) /\ rt_timer_list # <<>>
        /\ OnList = Members(rt_timer_list) /\ Rising(rt_timer_list, Lefts)
        /\ \A v \in OnList : Lefts[v] = Left(v) /\ Left(v) \in 0 .. Half - 1
    BY <1>3, SortedLemma, MembersLemma
  <2>2. /\ h \in Timers /\ h \in OnList /\ OnList = {h} \cup Members(r)
        /\ \A v \in Members(r) : Lefts[h] <= Lefts[v]
    BY <2>1, HeadLemma
  <2>3. ~Due(h)
    BY <2>1 DEF Leave, AnyDue
  <2> HIDE DEF h, r
  <2>4. Left(h) > 0
    <3>1. Due(h) <=> Left(h) = 0
      BY <2>1, <2>2, SortedLemma, HalfLemma, DueLemma
    <3> QED
      BY <2>1, <2>2, <2>3, <3>1, HalfLemma
  <2> QED
    BY <1>3, <2>1, <2>2, <2>4, HalfLemma
<1>4. \A u \in OnList : Left(u)' > 0
  BY <1>1, <1>3 DEF Left
<1> QED
  BY <1>1, <1>2, <1>4, TypesLemma, NextSoonest DEF flags

LEMMA SoonestNext == SoonestFirst /\ [Next]_vars => SoonestFirst'
<1> SUFFICES ASSUME SoonestFirst, [Next]_vars PROVE SoonestFirst'
  OBVIOUS
<1> USE TypesLemma
<1>1. ASSUME NEW u \in Timers, Start(u) PROVE SoonestFirst'
  BY <1>1, StartSoonest
<1>2. ASSUME NEW u \in Timers, Stop(u) \/ Detach(u) PROVE SoonestFirst'
  BY <1>2, UnlinkSoonest DEF Stop, Detach
<1>3. ASSUME NEW u \in Timers, SetKind(u) PROVE SoonestFirst'
  <2>1. periodic' \subseteq Timers
        /\ UNCHANGED <<rt_tick, rt_timer_list, activated, init_tick, timeout_tick, isr, list>>
    BY <1>3 DEF SetKind
  <2>2. Sorted' /\ \A v \in OnList : Left(v)' = Left(v)
    BY <2>1 DEF Sorted, Lefts, Left
  <2> QED
    BY <2>1, <2>2, NextSoonest
<1>4. ASSUME NEW u \in Timers, NEW time \in Times, SetTime(u, time) PROVE SoonestFirst'
  <2>1. init_tick' \in [Timers -> Times]
        /\ UNCHANGED <<rt_tick, rt_timer_list, flags, timeout_tick, isr, list>>
    BY <1>4 DEF SetTime
  <2>2. Sorted' /\ \A v \in OnList : Left(v)' = Left(v)
    BY <2>1 DEF Sorted, Lefts, Left
  <2> QED
    BY <2>1, <2>2, NextSoonest DEF flags
<1>5. CASE Tick
  <2>1. isr' = "check" /\ isr = "threads"
        /\ UNCHANGED <<rt_timer_list, flags, init_tick, timeout_tick, list>>
    BY <1>5 DEF Tick
  <2>2. Sorted' /\ rt_tick' \in Ticks
    BY <1>5, TickStepLemma
  <2> QED
    BY <2>1, <2>2, NextSoonest DEF flags
<1>6. CASE Expire
  BY <1>6, ExpireSoonest
<1>7. CASE CallbackReturns
  BY <1>7, ReturnsSoonest
<1>8. CASE Leave
  BY <1>8, LeaveSoonest
<1>9. CASE UNCHANGED vars
  <2>1. UNCHANGED <<rt_tick, rt_timer_list, activated, periodic, init_tick, timeout_tick, isr, list>>
    BY <1>9 DEF vars, flags
  <2>2. Sorted' /\ \A v \in OnList : Left(v)' = Left(v)
    BY <2>1 DEF Sorted, Lefts, Left
  <2> QED
    BY <2>1, <2>2, NextSoonest
<1> QED
  BY <1>1, <1>2, <1>3, <1>4, <1>5, <1>6, <1>7, <1>8, <1>9 DEF Next

\* The timers on the list stand in the order they time out in, across the wrap of
\* the tick, each less than half its range away, and no tick is missed: while
\* threads run none is due (rt_timer_start, rt_timer_check).
THEOREM TimersInOrder == Spec => []SoonestFirst
<1> QED
  BY SoonestInit, SoonestNext, PTL DEF Spec

-----------------------------------------------------------------------------
(* The list does what the wheel says.                                      *)

LEMMA RowsLemma ==
    /\ DOMAIN Rows = 0 .. Half - 1 /\ Rows = [d \in 0 .. Half - 1 |-> Row(d)]
    /\ \A d \in 0 .. Half - 1 : Rows[d] = Row(d)
<1>1. \A d : {u \in Timers : Left(u) = d} = At(Timers, Lefts, d)
  BY DEF At, Lefts
<1>2. \A d : Kept(rt_timer_list, {u \in Timers : Left(u) = d}) = Row(d)
  <2> SUFFICES ASSUME NEW d PROVE Kept(rt_timer_list, {u \in Timers : Left(u) = d}) = Row(d)
    OBVIOUS
  <2> DEFINE S == {u \in Timers : Left(u) = d}
  <2>1. S = At(Timers, Lefts, d)
    BY <1>1
  <2> HIDE DEF S
  <2>2. Kept(rt_timer_list, S) = Row(d)
    BY <2>1 DEF Row
  <2> QED
    BY <2>2 DEF S
<1> QED
  BY <1>2 DEF Rows

\* The same in the next state.
LEMMA RowsNextLemma ==
    Rows' = [d \in 0 .. Half - 1 |-> Row(d)']
<1>1. \A d : {u \in Timers : Left(u)' = d} = At(Timers, Lefts', d)
  BY DEF At, Lefts
<1>2. \A d : Kept(rt_timer_list', {u \in Timers : Left(u)' = d}) = Row(d)'
  <2> SUFFICES ASSUME NEW d PROVE Kept(rt_timer_list', {u \in Timers : Left(u)' = d}) = Row(d)'
    OBVIOUS
  <2> DEFINE S == {u \in Timers : Left(u)' = d}
  <2>1. S = At(Timers, Lefts', d)
    BY <1>1
  <2> HIDE DEF S
  <2>2. Kept(rt_timer_list', S) = Row(d)'
    BY <2>1 DEF Row, At
  <2> QED
    BY <2>2 DEF S
<1> QED
  BY <1>2 DEF Rows

LEMMA RowLemma ==
    ASSUME SoonestFirst, NEW d
    PROVE  Row(d) \in Seq(Timers) /\ Members(Row(d)) = {u \in OnList : Left(u) = d}
<1>1. /\ rt_timer_list \in Seq(Timers) /\ OnList = Members(rt_timer_list)
      /\ \A u \in OnList : u \in Timers /\ Lefts[u] = Left(u)
  BY SortedLemma
<1>2. /\ Row(d) \in Seq(Timers)
      /\ Members(Row(d)) = Members(rt_timer_list) \cap At(Timers, Lefts, d)
  BY <1>1, KeptLemma DEF Row
<1> QED
  BY <1>1, <1>2 DEF At

\* The wheel's lists are the kernel's.
LEMMA SameKept ==
    ASSUME NEW l, NEW S
    PROVE  Wheel!Kept(l, S) = Kept(l, S)
  BY DEF Wheel!Kept, Kept

\* What arming and disarming do to the rows.
LEMMA TakenLemma ==
    ASSUME SoonestFirst, NEW u \in Timers
    PROVE  Wheel!Taken(u) = [d \in 0 .. Half - 1 |-> Kept(Row(d), Others(Timers, u))]
<1>1. \A d \in 0 .. Half - 1 : Wheel!Kept(Rows[d], Timers \ {u}) = Kept(Row(d), Others(Timers, u))
  BY RowsLemma, SameKept DEF Others
<1> QED
  BY <1>1 DEF Wheel!Taken

LEMMA ArmStep ==
    ASSUME SoonestFirst, NEW u \in Timers, StartTimer(u), rt_tick' = rt_tick
    PROVE  \E d \in 1 .. Half - 1 : Wheel!Arm(u, d)
<1> DEFINE d == init_tick[u]
<1>1. d \in 1 .. Half - 1 /\ d \in 0 .. Half - 1
  BY SortedLemma, HalfLemma
<1>2. \A e \in 0 .. Half - 1 :
        Row(e)' = IF e = d THEN Append(Kept(Row(e), Others(Timers, u)), u)
                           ELSE Kept(Row(e), Others(Timers, u))
  BY StartTimerLemma
<1> HIDE DEF d
<1> DEFINE taken == [e \in 0 .. Half - 1 |-> Kept(Row(e), Others(Timers, u))]
<1>3. Rows' = [taken EXCEPT ![d] = Append(@, u)]
  BY <1>1, <1>2, RowsNextLemma
<1>4. Wheel!Taken(u) = taken
  BY TakenLemma
<1> HIDE DEF taken
<1>5. Wheel!Arm(u, d)
  BY <1>3, <1>4 DEF Wheel!Arm
<1> QED
  BY <1>1, <1>5

LEMMA DisarmStep ==
    ASSUME SoonestFirst, NEW u \in Timers, Unlink(u)
    PROVE  Wheel!Disarm(u)
<1>1. \A e \in Int : Row(e)' = Kept(Row(e), Others(Timers, u))
  BY UnlinkLemma DEF Unlink
<1>2. \A e \in 0 .. Half - 1 : Row(e)' = Kept(Row(e), Others(Timers, u))
  BY <1>1, HalfLemma
<1>3. Rows' = [e \in 0 .. Half - 1 |-> Kept(Row(e), Others(Timers, u))]
  BY <1>2, RowsNextLemma
<1> QED
  BY <1>3, TakenLemma DEF Wheel!Disarm

\* The timer whose callback runs, and whether it is started again.
LEMMA CalledLemma ==
    ASSUME SoonestFirst
    PROVE  /\ list = <<>> => Called = NoTimer /\ Again = FALSE
           /\ list # <<>> => /\ isr = "callback" /\ Called = Head(list) /\ Called \in Timers
                             /\ Called # NoTimer /\ Called \notin OnList
                             /\ Again <=> Called \in activated \cap periodic
           /\ Again \in BOOLEAN
  BY OwnLemma, TimerAssumption DEF Called, Again

\* A call of a thread or of a callback, seen from the timer that is called.
LEMMA UseCalledLemma ==
    ASSUME SoonestFirst, NEW u \in Timers, list' = Without(list, u), periodic' = periodic,
           activated' \ {u} = activated \ {u}
    PROVE  /\ Called' = IF u = Called THEN NoTimer ELSE Called
           /\ Again' = (Again /\ u # Called)
<1>1. list' = IF list # <<>> /\ Head(list) = u THEN <<>> ELSE list
  BY OwnWithoutLemma
<1>2. CASE list = <<>>
  BY <1>1, <1>2, TimerAssumption DEF Called, Again
<1>3. CASE list # <<>> /\ Head(list) = u
  BY <1>1, <1>3 DEF Called, Again
<1>4. CASE list # <<>> /\ Head(list) # u
  <2>1. list' = list /\ (Head(list) \in activated' <=> Head(list) \in activated)
    BY <1>1, <1>4
  <2> QED
    BY <1>4, <2>1 DEF Called, Again
<1> QED
  BY <1>2, <1>3, <1>4

LEMMA UseStep ==
    ASSUME SoonestFirst, NEW u \in Timers, Start(u) \/ Stop(u) \/ Detach(u)
    PROVE  Wheel!Next
<1>1. /\ isr \in {"threads", "callback"} /\ isr' = isr
      /\ list' = Without(list, u) /\ periodic' = periodic
      /\ activated' \ {u} = activated \ {u}
  BY DEF Start, StartTimer, Stop, Detach, Unlink, MayCall
<1>2. /\ Called' = IF u = Called THEN NoTimer ELSE Called
      /\ Again' = (Again /\ u # Called)
  BY <1>1, UseCalledLemma
<1>3. Wheel!Disarm(u) \/ \E d \in 1 .. Half - 1 : Wheel!Arm(u, d)
  BY ArmStep, DisarmStep DEF Start, Stop, Detach
<1>4. Wheel!Use
  BY <1>1, <1>2, <1>3 DEF Wheel!Use
<1> QED
  BY <1>4 DEF Wheel!Next

\* The list, and the distances, as they were: the rows too.
LEMMA RowsUnchanged ==
    ASSUME UNCHANGED <<rt_tick, rt_timer_list, timeout_tick>>
    PROVE  Rows' = Rows
  BY DEF Rows, Left

LEMMA SetStep ==
    ASSUME SoonestFirst, NEW u \in Timers, SetKind(u) \/ \E time \in Times : SetTime(u, time)
    PROVE  [Wheel!Next]_(Wheel!vars)
<1>1. UNCHANGED <<rt_tick, rt_timer_list, timeout_tick, isr, list, activated>>
  BY DEF SetKind, SetTime, flags
<1>2. Rows' = Rows /\ Called' = Called
  BY <1>1, RowsUnchanged DEF Called
<1>3. CASE list # <<>> /\ SetKind(u)
  <2>1. Called # NoTimer /\ isr = "callback"
    BY <1>3, CalledLemma
  <2>2. Again' \in BOOLEAN
    BY DEF Again
  <2>3. Wheel!Choose
    BY <1>1, <1>2, <2>1, <2>2 DEF Wheel!Choose
  <2> QED
    BY <2>3 DEF Wheel!Next
<1>4. CASE ~(list # <<>> /\ SetKind(u))
  <2>1. Again' = Again
    BY <1>1, <1>4 DEF Again, SetTime, flags
  <2> QED
    BY <1>1, <1>2, <2>1 DEF Wheel!vars
<1> QED
  BY <1>3, <1>4

LEMMA TickStep ==
    ASSUME SoonestFirst, Tick
    PROVE  Wheel!Next
<1>1. /\ isr = "threads" /\ isr' = "check" /\ list' = list
      /\ activated' = activated /\ periodic' = periodic
  BY DEF Tick, flags
<1>2. /\ Row(0) = <<>>
      /\ \A e \in 0 .. Half - 1 : Row(e)' = IF e = Half - 1 THEN <<>> ELSE Row(e + 1)
  BY TickStepLemma
<1>3. Rows[0] = <<>>
  BY <1>2, RowsLemma, HalfLemma
<1>4. Rows' = [e \in 0 .. Half - 1 |-> IF e = Half - 1 THEN <<>> ELSE Rows[e + 1]]
  <2>1. ASSUME NEW e \in 0 .. Half - 1
        PROVE  Row(e)' = IF e = Half - 1 THEN <<>> ELSE Rows[e + 1]
    <3>1. e # Half - 1 => e + 1 \in 0 .. Half - 1
      BY HalfLemma
    <3> QED
      BY <1>2, <3>1, RowsLemma
  <2> QED
    BY <2>1, RowsNextLemma
<1>5. Called' = Called /\ Again' = Again
  BY <1>1 DEF Called, Again
<1>6. Wheel!Tick
  BY <1>1, <1>3, <1>4, <1>5 DEF Wheel!Tick
<1> QED
  BY <1>6 DEF Wheel!Next

\* The head of the list is the head of the row that is due.
LEMMA CallStep ==
    ASSUME SoonestFirst, Expire
    PROVE  Wheel!Next
<1> DEFINE t == Head(rt_timer_list)
           r == Tail(rt_timer_list)
           s == Kept(r, At(Timers, Lefts, 0))
<1>1. /\ isr = "check" /\ rt_timer_list # <<>> /\ Due(t)
      /\ rt_timer_list' = Without(rt_timer_list, t)
      /\ timeout_tick' = [timeout_tick EXCEPT ![t] = 0]
      /\ list' = <<t>> /\ isr' = "callback" /\ rt_tick' = rt_tick
  BY DEF Expire, AnyDue
<1>2. /\ rt_timer_list \in Seq(Timers) /\ Once(rt_timer_list) /\ OnList = Members(rt_timer_list)
      /\ Lefts \in [Timers -> Int] /\ \A v \in OnList : v \in Timers /\ Lefts[v] = Left(v)
      /\ rt_tick \in Ticks /\ timeout_tick \in [Timers -> Ticks]
      /\ \A v \in OnList : Left(v) < Half
  BY SortedLemma, HalfLemma
<1>3. /\ t \in Timers /\ t \in OnList /\ r \in Seq(Timers) /\ t \notin Members(r)
      /\ Row(0) = IF t \in At(Timers, Lefts, 0) THEN <<t>> \o s ELSE s
  BY <1>1, <1>2, HeadLemma DEF Row
<1> HIDE DEF t, r
<1>4. Left(t) = 0
  BY <1>1, <1>2, <1>3, DueLemma
<1>5. s \in Seq(Timers) /\ t \notin Members(s)
  BY <1>3, KeptLemma
<1> HIDE DEF s
<1>6. Row(0) = <<t>> \o s
  BY <1>2, <1>3, <1>4 DEF At
<1>7. Row(0) # <<>> /\ Head(Row(0)) = t /\ Tail(Row(0)) = s
  <2> DEFINE c == <<t>> \o s
  <2>1. <<t>> \in Seq(Timers) /\ Len(<<t>>) = 1 /\ <<t>>[1] = t /\ Len(s) \in Nat
    BY <1>3, <1>5
  <2>2. /\ c \in Seq(Timers) /\ Len(c) = 1 + Len(s)
        /\ \A i \in 1 .. 1 + Len(s) : c[i] = IF i <= 1 THEN <<t>>[i] ELSE s[i - 1]
    BY <1>5, <2>1, ConcatProperties
  <2> HIDE DEF c
  <2>3. c # <<>> /\ Head(c) = t
    BY <2>1, <2>2
  <2>4. Tail(c) \in Seq(Timers) /\ Len(Tail(c)) = Len(s) /\ \A i \in 1 .. Len(s) : Tail(c)[i] = s[i]
    <3>1. /\ Tail(c) \in Seq(Timers) /\ Len(Tail(c)) = Len(c) - 1
          /\ \A i \in 1 .. Len(Tail(c)) : Tail(c)[i] = c[i + 1]
      BY <2>2, <2>3, HeadTailProperties
    <3>2. \A i \in 1 .. Len(s) : i + 1 \in 1 .. 1 + Len(s) /\ (i + 1) - 1 = i /\ ~(i + 1 <= 1)
      BY <2>1
    <3> QED
      BY <2>1, <2>2, <3>1, <3>2
  <2>5. Tail(c) = s
    BY <1>5, <2>1, <2>4, SeqEqual
  <2> QED
    BY <1>6, <2>3, <2>5 DEF c
<1>8. \A e \in Int : Row(e)' = Kept(Row(e), Others(Timers, t))
  BY <1>1, <1>3, UnlinkLemma
<1>9. Row(0)' = s
  <2>1. t \notin Others(Timers, t)
    BY DEF Others
  <2>2. Kept(Row(0), Others(Timers, t)) = Kept(s, Others(Timers, t))
    <3> DEFINE l == Row(0)
               S == Others(Timers, t)
    <3>1. l \in Seq(Timers) /\ l # <<>> /\ Head(l) = t /\ Tail(l) = s
      BY <1>7, RowLemma
    <3> HIDE DEF l, S
    <3>2. Kept(l, S) = IF Head(l) \in S THEN <<Head(l)>> \o Kept(Tail(l), S) ELSE Kept(Tail(l), S)
      BY <3>1, HeadLemma
    <3> QED
      BY <2>1, <3>1, <3>2 DEF l, S
  <2>3. Members(s) \subseteq Others(Timers, t)
    BY <1>5, MembersLemma DEF Others
  <2>4. Kept(s, Others(Timers, t)) = s
    BY <1>5, <2>3, KeptAll
  <2> QED
    <3>1. Row(0)' = Kept(Row(0), Others(Timers, t))
      BY <1>8
    <3> QED
      BY <2>2, <2>4, <3>1
<1>10. ASSUME NEW e \in 0 .. Half - 1, e # 0 PROVE Row(e)' = Row(e)
  <2>1. Row(e) \in Seq(Timers) /\ Members(Row(e)) \subseteq Others(Timers, t)
    BY <1>2, <1>4, <1>10, RowLemma DEF Others
  <2>2. Kept(Row(e), Others(Timers, t)) = Row(e)
    BY <2>1, KeptAll
  <2> QED
    BY <1>8, <2>2, HalfLemma
<1>11. Rows[0] = Row(0) /\ 0 \in 0 .. Half - 1
  BY RowsLemma, HalfLemma
<1>12. Rows' = [Rows EXCEPT ![0] = Tail(@)]
  BY <1>7, <1>9, <1>10, <1>11, RowsLemma, RowsNextLemma
<1>13. Called' = t /\ Again' \in BOOLEAN
  BY <1>1 DEF Called, Again
<1>14. Wheel!Call
  BY <1>1, <1>7, <1>11, <1>12, <1>13 DEF Wheel!Call
<1> QED
  BY <1>14 DEF Wheel!Next

LEMMA ReturnStep ==
    ASSUME SoonestFirst, CallbackReturns
    PROVE  Wheel!Next
<1>1. isr = "callback" /\ isr' = "check" /\ list' = <<>> /\ rt_tick' = rt_tick
  BY DEF CallbackReturns
<1>2. Called' = NoTimer /\ Again' = FALSE
  BY <1>1 DEF Called, Again
<1>3. IF Again THEN \E d \in 1 .. Half - 1 : Wheel!Arm(Called, d) ELSE UNCHANGED Rows
  <2>1. CASE Again
    <3>1. list # <<>> /\ Called = Head(list) /\ Called \in Timers /\ Called \in activated \cap periodic
      BY <2>1, CalledLemma
    <3>2. StartTimer(Called)
      BY <3>1 DEF CallbackReturns
    <3> QED
      BY <1>1, <2>1, <3>1, <3>2, ArmStep
  <2>2. CASE ~Again
    <3>1. UNCHANGED <<rt_timer_list, activated, timeout_tick>>
      BY <2>2 DEF CallbackReturns, Again
    <3> QED
      BY <1>1, <2>2, <3>1, RowsUnchanged
  <2> QED
    BY <2>1, <2>2
<1>4. Wheel!Return
  BY <1>1, <1>2, <1>3 DEF Wheel!Return
<1> QED
  BY <1>4 DEF Wheel!Next

LEMMA LeaveStep ==
    ASSUME SoonestFirst, Leave
    PROVE  Wheel!Next
<1>1. isr = "check" /\ isr' = "threads"
      /\ UNCHANGED <<rt_tick, rt_timer_list, flags, init_tick, timeout_tick, list>>
  BY DEF Leave
<1>2. \A u \in OnList : Left(u) > 0
  <2>1. \A u \in OnList' : Left(u)' > 0
    BY <1>1, LeaveSoonest DEF SoonestFirst
  <2> QED
    BY <1>1, <2>1 DEF OnList, Left
<1>3. Row(0) = <<>>
  <2>1. Row(0) \in Seq(Timers) /\ Members(Row(0)) = {}
    BY <1>2, RowLemma
  <2> QED
    BY <2>1, MembersLemma
<1>4. Rows[0] = <<>> /\ Rows' = Rows
  BY <1>1, <1>3, RowsLemma, RowsUnchanged, HalfLemma
<1>5. Called' = Called /\ Again' = Again
  BY <1>1 DEF Called, Again, flags
<1>6. Wheel!Leave
  BY <1>1, <1>4, <1>5 DEF Wheel!Leave
<1> QED
  BY <1>6 DEF Wheel!Next

LEMMA WheelInit == Init => Wheel!Init
<1> SUFFICES ASSUME Init PROVE Wheel!Init
  OBVIOUS
<1>1. rt_timer_list = <<>> /\ list = <<>> /\ isr = "threads"
  BY DEF Init
<1>2. \A d \in 0 .. Half - 1 : Row(d) = <<>>
  BY <1>1, KeptEmpty DEF Row
<1>3. Rows = [d \in 0 .. Half - 1 |-> <<>>]
  BY <1>2, RowsLemma
<1>4. Called = NoTimer /\ Again = FALSE
  BY <1>1 DEF Called, Again
<1> QED
  BY <1>1, <1>3, <1>4 DEF Wheel!Init

LEMMA WheelNext == SoonestFirst /\ [Next]_vars => [Wheel!Next]_(Wheel!vars)
<1> SUFFICES ASSUME SoonestFirst, [Next]_vars PROVE [Wheel!Next]_(Wheel!vars)
  OBVIOUS
<1>1. ASSUME NEW u \in Timers, Start(u) \/ Stop(u) \/ Detach(u) PROVE Wheel!Next
  BY <1>1, UseStep
<1>2. ASSUME NEW u \in Timers, SetKind(u) \/ \E time \in Times : SetTime(u, time)
      PROVE  [Wheel!Next]_(Wheel!vars)
  BY <1>2, SetStep
<1>3. CASE Tick
  BY <1>3, TickStep
<1>4. CASE Expire
  BY <1>4, CallStep
<1>5. CASE CallbackReturns
  BY <1>5, ReturnStep
<1>6. CASE Leave
  BY <1>6, LeaveStep
<1>7. CASE UNCHANGED vars
  <2>1. UNCHANGED <<rt_tick, rt_timer_list, activated, periodic, timeout_tick, isr, list>>
    BY <1>7 DEF vars, flags
  <2>2. Rows' = Rows /\ Called' = Called /\ Again' = Again
    BY <2>1, RowsUnchanged DEF Called, Again
  <2> QED
    BY <2>1, <2>2 DEF Wheel!vars
<1> QED
  BY <1>1, <1>2, <1>3, <1>4, <1>5, <1>6, <1>7 DEF Next

\* Each timer is called in the very tick it was started for, in the order of the
\* starts, whatever callbacks do to their own and to other timers: the one sorted
\* list and the differences of wrapping ticks implement the wheel.
THEOREM TimersOnTime == Spec => OnTime
<1> QED
  BY WheelInit, WheelNext, TimersInOrder, PTL DEF Spec, OnTime, Wheel!Spec
=============================================================================
