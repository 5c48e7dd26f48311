------------------------- MODULE MessageQueueProofs -------------------------
(***************************************************************************)
(* What holds of MessageQueue for any number of threads and slots, every   *)
(* priority and timeout, and however messages are numbered.                *)
(***************************************************************************)
EXTENDS MessageQueue, FiniteSetTheorems, TLAPS

-----------------------------------------------------------------------------
(* Sequences without repetitions, which lists of slots and threads are.    *)

\* The well-ordering of the naturals.
LEMMA LeastNat ==
    ASSUME NEW T, T \subseteq Nat, T # {}
    PROVE  \E x \in T : \A y \in T : x <= y
<1> DEFINE Less == {ss \in Nat \X Nat : ss[1] < ss[2]}
<1>1. IsWellFoundedOn(Less, Nat)
  BY NatLessThanWellFounded, Zenon DEF OpToRel
<1> HIDE DEF Less
<1>2. PICK x \in T : \A y \in T : <<y, x>> \notin Less
  BY <1>1, WFMin, Zenon
<1>3. ASSUME NEW y \in T PROVE x <= y
  <2>1. x \in Nat /\ y \in Nat
    OBVIOUS
  <2>2. ~(y < x)
    BY <1>2, <1>3, <2>1 DEF Less
  <2> QED
    BY <2>1, <2>2
<1> QED
  BY <1>2, <1>3

\* A list without its head.
LEMMA TailLemma ==
    ASSUME NEW S, NEW s \in Seq(S), s # <<>>, IsInjective(s)
    PROVE  /\ Tail(s) \in Seq(S) /\ IsInjective(Tail(s))
           /\ Head(s) \in S /\ Head(s) \in ToSet(s)
           /\ ToSet(Tail(s)) = ToSet(s) \ {Head(s)}
           /\ Len(Tail(s)) = Len(s) - 1
<1>1. /\ Tail(s) \in Seq(S) /\ Len(Tail(s)) = Len(s) - 1 /\ Len(s) \in Nat \ {0}
      /\ Head(s) = s[1] /\ \A i \in 1 .. Len(s) - 1 : Tail(s)[i] = s[i + 1]
      /\ DOMAIN s = 1 .. Len(s) /\ DOMAIN Tail(s) = 1 .. Len(s) - 1
  OBVIOUS
<1>2. IsInjective(Tail(s))
  BY <1>1 DEF IsInjective
<1>3. ToSet(Tail(s)) \subseteq ToSet(s) \ {Head(s)}
  BY <1>1 DEF ToSet, IsInjective
<1>4. ASSUME NEW x \in ToSet(s), x # Head(s)
      PROVE  x \in ToSet(Tail(s))
  <2>1. PICK i \in 1 .. Len(s) : x = s[i]
    BY <1>1 DEF ToSet
  <2>2. i - 1 \in 1 .. Len(s) - 1 /\ Tail(s)[i - 1] = x
    BY <1>1, <1>4, <2>1
  <2> QED
    BY <1>1, <2>2 DEF ToSet
<1>5. 1 \in DOMAIN s /\ Head(s) \in S /\ Head(s) \in ToSet(s)
  BY <1>1 DEF ToSet
<1> QED
  BY <1>1, <1>2, <1>3, <1>4, <1>5, Zenon

\* Two lists with nothing in common, one behind the other.
LEMMA ConcatLemma ==
    ASSUME NEW S, NEW s \in Seq(S), NEW t \in Seq(S),
           IsInjective(s), IsInjective(t), ToSet(s) \cap ToSet(t) = {}
    PROVE  /\ s \o t \in Seq(S) /\ IsInjective(s \o t)
           /\ ToSet(s \o t) = ToSet(s) \cup ToSet(t)
           /\ Len(s \o t) = Len(s) + Len(t)
<1>1. /\ s \o t \in Seq(S) /\ Len(s \o t) = Len(s) + Len(t)
      /\ DOMAIN s = 1 .. Len(s) /\ DOMAIN t = 1 .. Len(t)
      /\ DOMAIN (s \o t) = 1 .. Len(s) + Len(t)
      /\ Len(s) \in Nat /\ Len(t) \in Nat
  OBVIOUS
<1>2. /\ \A i \in 1 .. Len(s) : (s \o t)[i] = s[i]
      /\ \A i \in Len(s) + 1 .. Len(s) + Len(t) : (s \o t)[i] = t[i - Len(s)]
  OBVIOUS
<1>3. \A i \in 1 .. Len(t) : (s \o t)[Len(s) + i] = t[i]
  BY <1>1, <1>2
<1>4. ToSet(s \o t) = ToSet(s) \cup ToSet(t)
  <2>1. ToSet(s \o t) \subseteq ToSet(s) \cup ToSet(t)
    BY <1>1, <1>2 DEF ToSet
  <2>2. ToSet(s) \subseteq ToSet(s \o t)
    BY <1>1, <1>2 DEF ToSet
  <2>3. ToSet(t) \subseteq ToSet(s \o t)
    <3> SUFFICES ASSUME NEW i \in 1 .. Len(t) PROVE t[i] \in ToSet(s \o t)
      BY <1>1 DEF ToSet
    <3>1. Len(s) + i \in DOMAIN (s \o t)
      BY <1>1
    <3> QED
      BY <1>3, <3>1 DEF ToSet
  <2> QED
    BY <2>1, <2>2, <2>3
<1>5. IsInjective(s \o t)
  <2> SUFFICES ASSUME NEW i \in 1 .. Len(s) + Len(t), NEW j \in 1 .. Len(s) + Len(t),
                      (s \o t)[i] = (s \o t)[j]
               PROVE  i = j
    BY <1>1 DEF IsInjective
  <2>1. CASE i <= Len(s) /\ j <= Len(s)
    BY <1>1, <1>2, <2>1 DEF IsInjective
  <2>2. CASE i > Len(s) /\ j > Len(s)
    <3>1. t[i - Len(s)] = t[j - Len(s)] /\ i - Len(s) \in DOMAIN t /\ j - Len(s) \in DOMAIN t
      BY <1>1, <1>2, <2>2
    <3> QED
      BY <1>1, <3>1 DEF IsInjective
  <2>3. ASSUME NEW a \in 1 .. Len(s), NEW b \in Len(s) + 1 .. Len(s) + Len(t)
        PROVE  (s \o t)[a] # (s \o t)[b]
    <3>1. (s \o t)[a] \in ToSet(s) /\ b - Len(s) \in DOMAIN t
      BY <1>1, <1>2 DEF ToSet
    <3>2. (s \o t)[b] \in ToSet(t)
      BY <1>1, <1>2, <3>1 DEF ToSet
    <3> QED
      BY <3>1, <3>2
  <2> QED
    BY <1>1, <2>1, <2>2, <2>3
<1> QED
  BY <1>1, <1>4, <1>5

\* A list of one.
LEMMA SingleLemma ==
    ASSUME NEW S, NEW e \in S
    PROVE  <<e>> \in Seq(S) /\ IsInjective(<<e>>) /\ ToSet(<<e>>) = {e} /\ Len(<<e>>) = 1
  BY DEF IsInjective, ToSet

\* The empty list.
LEMMA EmptyLemma ==
    ASSUME NEW S
    PROVE  <<>> \in Seq(S) /\ IsInjective(<<>>) /\ ToSet(<<>>) = {} /\ Len(<<>>) = 0
  BY DEF IsInjective, ToSet

\* Only the empty list has no element.
LEMMA NonEmptyLemma ==
    ASSUME NEW S, NEW s \in Seq(S)
    PROVE  (s = <<>> <=> ToSet(s) = {}) /\ (s = <<>> <=> Len(s) = 0)
<1>1. s # <<>> => s[1] \in ToSet(s)
  BY DEF ToSet
<1> QED
  BY <1>1, EmptyLemma

\* A list with one more at its end.
LEMMA AppendLemma ==
    ASSUME NEW S, NEW s \in Seq(S), NEW e \in S, IsInjective(s), e \notin ToSet(s)
    PROVE  /\ Append(s, e) \in Seq(S) /\ IsInjective(Append(s, e))
           /\ ToSet(Append(s, e)) = ToSet(s) \cup {e}
           /\ Len(Append(s, e)) = Len(s) + 1
<1> DEFINE one == <<e>>
           r == Append(s, e)
<1>1. r = s \o one
  OBVIOUS
<1>2. one \in Seq(S) /\ IsInjective(one) /\ ToSet(one) = {e} /\ Len(one) = 1
  BY SingleLemma
<1> HIDE DEF one, r
<1>3. ToSet(s) \cap ToSet(one) = {}
  BY <1>2
<1>6. one \in Seq(S) /\ IsInjective(one)
  BY <1>2
<1>4. /\ s \o one \in Seq(S) /\ IsInjective(s \o one)
      /\ ToSet(s \o one) = ToSet(s) \cup ToSet(one)
      /\ Len(s \o one) = Len(s) + Len(one)
  BY <1>3, <1>6, ConcatLemma, Zenon
<1>5. r \in Seq(S) /\ IsInjective(r) /\ ToSet(r) = ToSet(s) \cup {e} /\ Len(r) = Len(s) + 1
  BY <1>1, <1>2, <1>4
<1> QED
  BY <1>5 DEF r

\* A list with one more before its head.
LEMMA ConsLemma ==
    ASSUME NEW S, NEW s \in Seq(S), NEW e \in S, IsInjective(s), e \notin ToSet(s)
    PROVE  /\ <<e>> \o s \in Seq(S) /\ IsInjective(<<e>> \o s)
           /\ ToSet(<<e>> \o s) = ToSet(s) \cup {e}
           /\ Len(<<e>> \o s) = Len(s) + 1
<1>1. <<e>> \in Seq(S) /\ IsInjective(<<e>>) /\ ToSet(<<e>>) = {e} /\ Len(<<e>>) = 1
  BY SingleLemma
<1>2. ToSet(<<e>>) \cap ToSet(s) = {}
  BY <1>1
<1>3. /\ <<e>> \o s \in Seq(S) /\ IsInjective(<<e>> \o s)
      /\ ToSet(<<e>> \o s) = ToSet(<<e>>) \cup ToSet(s)
      /\ Len(<<e>> \o s) = Len(<<e>>) + Len(s)
  BY <1>1, <1>2, ConcatLemma
<1> QED
  BY <1>1, <1>3

\* Where everything then is.
LEMMA ConcatIndex ==
    ASSUME NEW S, NEW s \in Seq(S), NEW t \in Seq(S)
    PROVE  /\ DOMAIN (s \o t) = 1 .. Len(s) + Len(t) /\ Len(s) \in Nat /\ Len(t) \in Nat
           /\ \A i \in 1 .. Len(s) : (s \o t)[i] = s[i]
           /\ \A i \in 1 .. Len(t) : (s \o t)[Len(s) + i] = t[i]
<1>1. Len(s) \in Nat /\ Len(t) \in Nat
  OBVIOUS
<1>2. DOMAIN (s \o t) = 1 .. Len(s) + Len(t)
  OBVIOUS
<1>3. /\ \A i \in 1 .. Len(s) : (s \o t)[i] = s[i]
      /\ \A i \in Len(s) + 1 .. Len(s) + Len(t) : (s \o t)[i] = t[i - Len(s)]
  OBVIOUS
<1>4. \A i \in 1 .. Len(t) : (s \o t)[Len(s) + i] = t[i]
  BY <1>1, <1>3
<1> QED
  BY <1>1, <1>2, <1>3, <1>4

LEMMA OneMore ==
    ASSUME NEW S, NEW s \in Seq(S), NEW first \in Seq(S)
    PROVE  Len(first) = 1 =>
           /\ DOMAIN (first \o s) = 1 .. Len(s) + 1 /\ (first \o s)[1] = first[1]
           /\ \A i \in 1 .. Len(s) : (first \o s)[i + 1] = s[i]
<1>1. /\ DOMAIN (first \o s) = 1 .. Len(first) + Len(s) /\ Len(s) \in Nat
      /\ \A i \in 1 .. Len(first) : (first \o s)[i] = first[i]
      /\ \A i \in 1 .. Len(s) : (first \o s)[Len(first) + i] = s[i]
  BY ConcatIndex
<1> DEFINE both == first \o s
<1> HIDE DEF both
<1>2. ASSUME Len(first) = 1
      PROVE  /\ DOMAIN both = 1 .. Len(s) + 1 /\ both[1] = first[1]
             /\ \A i \in 1 .. Len(s) : both[i + 1] = s[i]
  <2>1. /\ DOMAIN both = 1 .. Len(first) + Len(s) /\ Len(s) \in Nat
        /\ \A i \in 1 .. Len(first) : both[i] = first[i]
        /\ \A i \in 1 .. Len(s) : both[Len(first) + i] = s[i]
    BY <1>1 DEF both
  <2>2. /\ Len(first) + Len(s) = Len(s) + 1 /\ 1 \in 1 .. Len(first)
        /\ \A i \in 1 .. Len(s) : Len(first) + i = i + 1
    BY <1>2, <2>1
  <2> QED
    BY <2>1, <2>2
<1> QED
  BY <1>2 DEF both

\* A list turned round.
LEMMA ReverseLemma ==
    ASSUME NEW S, NEW s \in Seq(S), IsInjective(s)
    PROVE  /\ Reverse(s) \in Seq(S) /\ IsInjective(Reverse(s)) /\ ToSet(Reverse(s)) = ToSet(s)
<1>1. /\ Len(s) \in Nat /\ DOMAIN s = 1 .. Len(s) /\ DOMAIN Reverse(s) = 1 .. Len(s)
      /\ \A i \in 1 .. Len(s) : Reverse(s)[i] = s[Len(s) - i + 1]
      /\ Reverse(s) \in Seq(S)
  BY DEF Reverse
<1>2. IsInjective(Reverse(s))
  BY <1>1 DEF IsInjective
<1>3. ToSet(Reverse(s)) \subseteq ToSet(s)
  BY <1>1 DEF ToSet
<1>4. ASSUME NEW i \in 1 .. Len(s) PROVE s[i] \in ToSet(Reverse(s))
  <2>1. Len(s) - i + 1 \in 1 .. Len(s) /\ Reverse(s)[Len(s) - i + 1] = s[i]
    BY <1>1
  <2> QED
    BY <1>1, <2>1 DEF ToSet
<1> QED
  BY <1>1, <1>2, <1>3, <1>4 DEF ToSet

\* A part of a list.
LEMMA SubSeqLemma ==
    ASSUME NEW S, NEW s \in Seq(S), IsInjective(s),
           NEW m \in 1 .. Len(s) + 1, NEW n \in 0 .. Len(s), m <= n + 1
    PROVE  /\ SubSeq(s, m, n) \in Seq(S) /\ IsInjective(SubSeq(s, m, n))
           /\ ToSet(SubSeq(s, m, n)) = {s[i] : i \in m .. n}
           /\ Len(SubSeq(s, m, n)) = n - m + 1
<1> DEFINE part == SubSeq(s, m, n)
<1>1. /\ part \in Seq(S) /\ Len(part) = n - m + 1 /\ DOMAIN part = 1 .. n - m + 1
      /\ \A i \in 1 .. n - m + 1 : part[i] = s[i + m - 1]
      /\ Len(s) \in Nat /\ DOMAIN s = 1 .. Len(s)
  OBVIOUS
<1> HIDE DEF part
<1>2. IsInjective(part)
  <2> SUFFICES ASSUME NEW i \in 1 .. n - m + 1, NEW j \in 1 .. n - m + 1, part[i] = part[j]
               PROVE  i = j
    BY <1>1 DEF IsInjective
  <2>1. /\ i + m - 1 \in DOMAIN s /\ j + m - 1 \in DOMAIN s
        /\ s[i + m - 1] = s[j + m - 1]
    BY <1>1
  <2>2. i + m - 1 = j + m - 1
    BY <2>1, Zenon DEF IsInjective
  <2> QED
    BY <2>2
<1>3. ASSUME NEW i \in 1 .. n - m + 1 PROVE part[i] \in {s[j] : j \in m .. n}
  <2>1. i + m - 1 \in m .. n
    OBVIOUS
  <2> QED
    BY <1>1, <2>1
<1>4. ASSUME NEW i \in m .. n PROVE s[i] \in ToSet(part)
  <2>1. i - m + 1 \in 1 .. n - m + 1 /\ part[i - m + 1] = s[i]
    BY <1>1
  <2> QED
    BY <1>1, <2>1 DEF ToSet
<1>5. ToSet(part) = {s[i] : i \in m .. n}
  BY <1>1, <1>3, <1>4 DEF ToSet
<1> QED
  BY <1>1, <1>2, <1>5 DEF part

\* A list with one taken out of it, wherever it is, if it is there.
LEMMA RemoveLemma ==
    ASSUME NEW S, NEW s \in Seq(S), IsInjective(s), NEW e
    PROVE  /\ RemoveFirst(s, e) \in Seq(S) /\ IsInjective(RemoveFirst(s, e))
           /\ ToSet(RemoveFirst(s, e)) = ToSet(s) \ {e}
<1>1. Len(s) \in Nat /\ DOMAIN s = 1 .. Len(s)
  OBVIOUS
<1>2. CASE ~ \E i \in 1 .. Len(s) : s[i] = e
  BY <1>1, <1>2 DEF RemoveFirst, ToSet
<1>3. CASE \E i \in 1 .. Len(s) : s[i] = e
  <2> DEFINE I == {i \in 1 .. Len(s) : s[i] = e}
             k == Min(I)
             front == SubSeq(s, 1, k - 1)
             rest  == SubSeq(s, k + 1, Len(s))
  <2>1. \E x \in I : \A y \in I : x <= y
    BY <1>1, <1>3, LeastNat, I # {}, I \subseteq Nat
  <2>2. k \in 1 .. Len(s) /\ s[k] = e
    BY <2>1 DEF Min
  <2>3. RemoveFirst(s, e) = front \o rest
    BY <1>3 DEF RemoveFirst, RemoveAt, SelectInSeq
  <2> HIDE DEF k
  <2>4. /\ front \in Seq(S) /\ IsInjective(front) /\ ToSet(front) = {s[i] : i \in 1 .. k - 1}
        /\ rest \in Seq(S) /\ IsInjective(rest) /\ ToSet(rest) = {s[i] : i \in k + 1 .. Len(s)}
    <3>1. /\ k + 1 \in 1 .. Len(s) + 1 /\ Len(s) \in 0 .. Len(s) /\ k + 1 <= Len(s) + 1
          /\ 1 \in 1 .. Len(s) + 1 /\ k - 1 \in 0 .. Len(s) /\ 1 <= (k - 1) + 1
      BY <1>1, <2>2
    <3>2. front \in Seq(S) /\ IsInjective(front) /\ ToSet(front) = {s[i] : i \in 1 .. k - 1}
      BY <3>1, SubSeqLemma, Zenon
    <3>3. rest \in Seq(S) /\ IsInjective(rest) /\ ToSet(rest) = {s[i] : i \in k + 1 .. Len(s)}
      BY <3>1, SubSeqLemma, Zenon
    <3> QED
      BY <3>2, <3>3
  <2> HIDE DEF front, rest
  <2>5. ToSet(front) \cap ToSet(rest) = {}
    <3>1. ASSUME NEW i \in 1 .. k - 1, NEW j \in k + 1 .. Len(s) PROVE s[i] # s[j]
      <4>1. i \in DOMAIN s /\ j \in DOMAIN s /\ i # j
        BY <1>1, <2>2
      <4> QED
        BY <4>1 DEF IsInjective
    <3> QED
      BY <2>4, <3>1
  <2>6. ToSet(front) \cup ToSet(rest) = ToSet(s) \ {e}
    <3>1. ASSUME NEW i \in 1 .. Len(s), s[i] # e
          PROVE  i \in 1 .. k - 1 \/ i \in k + 1 .. Len(s)
      BY <1>1, <2>2, <3>1
    <3>2. ASSUME NEW i \in 1 .. Len(s), i # k
          PROVE  s[i] # e
      BY <1>1, <2>2, <3>2 DEF IsInjective
    <3>3. ToSet(s) = {s[i] : i \in 1 .. Len(s)}
      BY <1>1 DEF ToSet
    <3>4. ToSet(front) \cup ToSet(rest) \subseteq ToSet(s) \ {e}
      <4>1. 1 .. k - 1 \subseteq 1 .. Len(s) \ {k} /\ k + 1 .. Len(s) \subseteq 1 .. Len(s) \ {k}
        BY <1>1, <2>2
      <4> QED
        BY <2>4, <3>2, <3>3, <4>1
    <3>5. ToSet(s) \ {e} \subseteq ToSet(front) \cup ToSet(rest)
      BY <2>4, <3>1, <3>3
    <3> QED
      BY <3>4, <3>5
  <2>7. /\ front \o rest \in Seq(S) /\ IsInjective(front \o rest)
        /\ ToSet(front \o rest) = ToSet(front) \cup ToSet(rest)
    <3>1. front \in Seq(S) /\ IsInjective(front)
      BY <2>4
    <3>2. rest \in Seq(S) /\ IsInjective(rest)
      BY <2>4
    <3> QED
      BY <2>5, <3>1, <3>2, ConcatLemma
  <2> QED
    BY <2>3, <2>6, <2>7, Zenon
<1> QED
  BY <1>2, <1>3

\* A list with one put in before some place.
LEMMA InsertLemma ==
    ASSUME NEW S, NEW s \in Seq(S), IsInjective(s), NEW e \in S, e \notin ToSet(s),
           NEW k \in 1 .. Len(s)
    PROVE  /\ InsertAt(s, k, e) \in Seq(S) /\ IsInjective(InsertAt(s, k, e))
           /\ ToSet(InsertAt(s, k, e)) = ToSet(s) \cup {e}
<1> DEFINE front == SubSeq(s, 1, k - 1)
           rest  == SubSeq(s, k, Len(s))
           one   == <<e>>
<1>1. Len(s) \in Nat /\ DOMAIN s = 1 .. Len(s)
  OBVIOUS
<1>2. /\ front \in Seq(S) /\ IsInjective(front) /\ ToSet(front) = {s[i] : i \in 1 .. k - 1}
      /\ rest \in Seq(S) /\ IsInjective(rest) /\ ToSet(rest) = {s[i] : i \in k .. Len(s)}
  BY <1>1, SubSeqLemma
<1>3. InsertAt(s, k, e) = (front \o one) \o rest
  BY DEF InsertAt
<1>5. one \in Seq(S) /\ IsInjective(one) /\ ToSet(one) = {e}
  BY SingleLemma
<1> HIDE DEF front, rest, one
<1>4. ToSet(front) \cap ToSet(rest) = {} /\ ToSet(front) \cup ToSet(rest) = ToSet(s)
  <2>1. ToSet(s) = {s[i] : i \in 1 .. Len(s)}
    BY <1>1 DEF ToSet
  <2>2. ToSet(front) \cap ToSet(rest) = {}
    BY <1>1, <1>2 DEF IsInjective
  <2>3. \A i \in 1 .. Len(s) : i \in 1 .. k - 1 \/ i \in k .. Len(s)
    BY <1>1
  <2>4. 1 .. k - 1 \subseteq 1 .. Len(s) /\ k .. Len(s) \subseteq 1 .. Len(s)
    BY <1>1
  <2> QED
    BY <1>2, <2>1, <2>2, <2>3, <2>4
<1>10. front \in Seq(S) /\ IsInjective(front) /\ rest \in Seq(S) /\ IsInjective(rest)
  BY <1>2
<1>6. ToSet(front) \cap ToSet(one) = {}
  BY <1>4, <1>5
<1> DEFINE left == front \o one
<1>7. /\ left \in Seq(S) /\ IsInjective(left)
      /\ ToSet(left) = ToSet(front) \cup ToSet(one)
  BY <1>5, <1>6, <1>10, ConcatLemma
<1> HIDE DEF left
<1>8. ToSet(left) \cap ToSet(rest) = {}
  BY <1>4, <1>5, <1>6, <1>7
<1>9. /\ left \o rest \in Seq(S) /\ IsInjective(left \o rest)
      /\ ToSet(left \o rest) = ToSet(left) \cup ToSet(rest)
  <2>1. /\ left \in Seq(S) /\ IsInjective(left)
        /\ rest \in Seq(S) /\ IsInjective(rest) /\ ToSet(left) \cap ToSet(rest) = {}
    BY <1>7, <1>8, <1>10
  <2> QED
    BY <2>1, ConcatLemma
<1>11. InsertAt(s, k, e) = left \o rest
  BY <1>3 DEF left
<1> QED
  BY <1>4, <1>5, <1>7, <1>9, <1>11

\* rt_ipc_list_suspend adds the thread to the list, wherever it puts it.
LEMMA EnlistLemma ==
    ASSUME NEW S, NEW s \in Seq(S), IsInjective(s), NEW t \in S, t \notin ToSet(s)
    PROVE  /\ Enlist(s, t) \in Seq(S) /\ IsInjective(Enlist(s, t))
           /\ ToSet(Enlist(s, t)) = ToSet(s) \cup {t}
<1> DEFINE I == {i \in 1 .. Len(s) : Priority[s[i]] > Priority[t]}
           first == IF I # {} THEN Min(I) ELSE 0
<1>1. Enlist(s, t) = IF ByPriority /\ first # 0 THEN InsertAt(s, first, t) ELSE Append(s, t)
  BY DEF Enlist, SelectInSeq
<1>2. first # 0 => first \in 1 .. Len(s)
  <2> SUFFICES ASSUME I # {} PROVE Min(I) \in I
    OBVIOUS
  <2>1. \E x \in I : \A y \in I : x <= y
    BY LeastNat, I \subseteq Nat
  <2> QED
    BY <2>1 DEF Min
<1> HIDE DEF first
<1>3. CASE ByPriority /\ first # 0
  BY <1>1, <1>2, <1>3, InsertLemma
<1>4. CASE ~(ByPriority /\ first # 0)
  BY <1>1, <1>4, AppendLemma
<1> QED
  BY <1>3, <1>4

\* A finite set as a list.
LEMMA SetToSeqLemma ==
    ASSUME NEW S, IsFiniteSet(S)
    PROVE  /\ SetToSeq(S) \in Seq(S) /\ IsInjective(SetToSeq(S))
           /\ ToSet(SetToSeq(S)) = S
<1> DEFINE n == Cardinality(S)
           s == SetToSeq(S)
<1>1. n \in Nat /\ ExistsBijection(1 .. n, S)
  BY FS_CardinalityType
<1>2. \E f \in [1 .. n -> S] : IsInjective(f)
  BY <1>1, Zenon DEF ExistsBijection, Bijection, Injection
<1>3. s \in [1 .. n -> S] /\ IsInjective(s)
  BY <1>2, Zenon DEF SetToSeq
<1> HIDE DEF s
<1>4. IsFiniteSet(1 .. n) /\ Cardinality(1 .. n) = n
  BY <1>1, FS_Interval
<1>5. s \in Surjection(1 .. n, S)
  <2> HIDE DEF n
  <2>1. s \in Injection(1 .. n, S)
    BY <1>3 DEF Injection
  <2> QED
    BY <1>4, <2>1, FS_Injection, Zenon DEF n
<1>6. ToSet(s) = S
  BY <1>3, <1>5 DEF Surjection, ToSet
<1>7. s \in Seq(S)
  BY <1>1, <1>3
<1> QED
  BY <1>3, <1>6, <1>7 DEF s

-----------------------------------------------------------------------------
(* Where the slots are.                                                    *)

\* Each slot is free, linked, or with one thread, and never in two of these
\* places; a linked slot has a message in it; the count is the list's length; a
\* thread on a suspend list has no error to return.
Placed ==
    /\ IsInjective(msg_queue_free) /\ IsInjective(msg_queue)
    /\ ToSet(msg_queue_free) \cap ToSet(msg_queue) = {}
    /\ \A t \in Threads : held[t] \notin ToSet(msg_queue_free) \cup ToSet(msg_queue)
    /\ \A t, u \in Threads : held[t] # NoSlot /\ held[t] = held[u] => t = u
    /\ \A slot \in Slots \ (ToSet(msg_queue_free) \cup ToSet(msg_queue)) :
         \E t \in Threads : held[t] = slot
    /\ \A slot \in ToSet(msg_queue) : content[slot] # <<>>
    /\ entry = Len(msg_queue)
    /\ \A t \in Threads : pc[t] \in {"sendwait", "recvwait"} => error[t] = "OK"

\* At the start every slot is free.
LEMMA InitPlaced ==
    ASSUME QueueAssumption, Init
    PROVE  TypeOK /\ Placed
<1>1. /\ SetToSeq(Slots) \in Seq(Slots) /\ IsInjective(SetToSeq(Slots))
      /\ ToSet(SetToSeq(Slots)) = Slots
  BY SetToSeqLemma DEF QueueAssumption
<1> QED
  BY <1>1, EmptyLemma DEF Init, TypeOK, Placed, QueueAssumption, Threads

\* The steps of a sender and of a receiver up to the copy, for a first try and
\* for a thread that looks again.
LEMMA TakeSlot ==
    ASSUME QueueAssumption, TypeOK, Placed, NEW t \in Senders,
           pc[t] \in {"idle", "sendwoken"}, msg_queue_free # <<>>,
           NEW where \in {"sendcopy", "urgentcopy"},
           held' = [held EXCEPT ![t] = Head(msg_queue_free)],
           msg_queue_free' = Tail(msg_queue_free),
           pc' = [pc EXCEPT ![t] = where],
           timeout' \in [Threads -> {"zero", "finite", "forever"}],
           UNCHANGED <<msg_queue, entry, content, waits, error, made, taken>>
    PROVE  TypeOK' /\ Placed'
<1>1. /\ msg_queue_free' \in Seq(Slots) /\ IsInjective(msg_queue_free')
      /\ Head(msg_queue_free) \in Slots /\ Head(msg_queue_free) \in ToSet(msg_queue_free)
      /\ ToSet(msg_queue_free') = ToSet(msg_queue_free) \ {Head(msg_queue_free)}
  BY TailLemma DEF TypeOK, Placed
<1> DEFINE first == Head(msg_queue_free)
<1>2. t \in Threads /\ t \notin Receivers /\ first # NoSlot /\ NoSlot \notin Slots
  BY <1>1 DEF Threads, QueueAssumption
<1>3. /\ held' = [held EXCEPT ![t] = first] /\ pc' = [pc EXCEPT ![t] = where]
      /\ held \in [Threads -> Slots \cup {NoSlot}] /\ held[t] = NoSlot
      /\ \A u \in Threads : u # t => held'[u] = held[u] /\ pc'[u] = pc[u]
      /\ held'[t] = first /\ pc'[t] = where
  <2>1. /\ held \in [Threads -> Slots \cup {NoSlot}] /\ DOMAIN pc = Threads
        /\ held[t] = NoSlot
    BY <1>2 DEF TypeOK
  <2> QED
    BY <1>2, <2>1
<1> HIDE DEF first
<1>4. TypeOK'
  <2>1. /\ pc' \in [Threads -> {"idle", "sendwait", "sendwoken", "sendcopy", "urgentcopy",
                           "recvwait", "recvwoken", "recvcopy"}]
        /\ \A u \in Senders : pc'[u] \notin {"recvwait", "recvwoken", "recvcopy"}
        /\ \A u \in Receivers : pc'[u] \in {"idle", "recvwait", "recvwoken", "recvcopy"}
    BY <1>2, <1>3 DEF TypeOK, Threads
  <2>2. /\ held' \in [Threads -> Slots \cup {NoSlot}]
        /\ \A u \in Threads : held'[u] # NoSlot <=> pc'[u] \in {"sendcopy", "urgentcopy", "recvcopy"}
    BY <1>1, <1>2, <1>3 DEF TypeOK, first
  <2>3. /\ {u \in Receivers : pc'[u] = "recvwait"} = {u \in Receivers : pc[u] = "recvwait"}
        /\ {u \in Senders : pc'[u] = "sendwait"} = {u \in Senders : pc[u] = "sendwait"}
    BY <1>2, <1>3 DEF Threads
  <2> QED
    BY <1>1, <2>1, <2>2, <2>3 DEF TypeOK, waits
<1>5. Placed'
  BY <1>1, <1>2, <1>3 DEF Placed, waits, first
<1> QED
  BY <1>4, <1>5

\* A thread that is not suspended goes back to its caller, with or without an error.
LEMMA GiveUp ==
    ASSUME QueueAssumption, TypeOK, Placed, NEW t \in Threads,
           pc[t] \in {"idle", "sendwoken", "recvwoken"},
           pc' = [pc EXCEPT ![t] = "idle"],
           timeout' \in [Threads -> {"zero", "finite", "forever"}],
           NEW code \in {"OK", "TIMEOUT", "ERROR"}, error' = [error EXCEPT ![t] = code],
           UNCHANGED <<lists, waits, held, made, taken>>
    PROVE  TypeOK' /\ Placed'
<1>1. /\ \A u \in Threads : u # t => pc'[u] = pc[u] /\ error'[u] = error[u]
      /\ pc'[t] = "idle" /\ held' = held /\ error' \in [Threads -> {"OK", "TIMEOUT", "ERROR"}]
  BY DEF TypeOK
<1>2. /\ pc' \in [Threads -> {"idle", "sendwait", "sendwoken", "sendcopy", "urgentcopy",
                         "recvwait", "recvwoken", "recvcopy"}]
      /\ \A u \in Senders : pc'[u] \notin {"recvwait", "recvwoken", "recvcopy"}
      /\ \A u \in Receivers : pc'[u] \in {"idle", "recvwait", "recvwoken", "recvcopy"}
      /\ \A u \in Threads : held'[u] # NoSlot <=> pc'[u] \in {"sendcopy", "urgentcopy", "recvcopy"}
  BY <1>1 DEF TypeOK, Threads
<1>3. /\ {u \in Receivers : pc'[u] = "recvwait"} = {u \in Receivers : pc[u] = "recvwait"}
      /\ {u \in Senders : pc'[u] = "sendwait"} = {u \in Senders : pc[u] = "sendwait"}
  BY <1>1 DEF Threads
<1>4. TypeOK'
  <2>1. /\ msg_queue_free' \in Seq(Slots) /\ msg_queue' \in Seq(Slots) /\ entry' \in Nat
        /\ content' \in [Slots -> {<<>>} \cup (Senders \X (0 .. Numbers))]
        /\ held' \in [Threads -> Slots \cup {NoSlot}]
        /\ made' \in [Senders -> 0 .. Numbers - 1] /\ taken' \in [Senders -> 0 .. Numbers - 1]
        /\ timeout' \in [Threads -> {"zero", "finite", "forever"}]
        /\ error' \in [Threads -> {"OK", "TIMEOUT", "ERROR"}]
    BY <1>1 DEF TypeOK, lists
  <2>2. /\ suspend_thread' \in Seq(Receivers) /\ suspend_sender_thread' \in Seq(Senders)
        /\ IsInjective(suspend_thread') /\ IsInjective(suspend_sender_thread')
        /\ ToSet(suspend_thread') = {u \in Receivers : pc'[u] = "recvwait"}
        /\ ToSet(suspend_sender_thread') = {u \in Senders : pc'[u] = "sendwait"}
    BY <1>3 DEF TypeOK, waits
  <2> QED
    BY <1>2, <2>1, <2>2 DEF TypeOK
<1>5. Placed'
  BY <1>1 DEF Placed, lists, waits
<1> QED
  BY <1>4, <1>5

LEMMA TrySendStep ==
    ASSUME QueueAssumption, TypeOK, Placed, NEW t \in Senders,
           pc[t] \in {"idle", "sendwoken"}, NEW limit \in {"zero", "finite", "forever"},
           TrySend(t, limit), UNCHANGED <<msg_queue, entry, content, suspend_thread, made, taken>>
    PROVE  TypeOK' /\ Placed'
<1>1. CASE msg_queue_free # <<>>
  <2>1. /\ held' = [held EXCEPT ![t] = Head(msg_queue_free)]
        /\ msg_queue_free' = Tail(msg_queue_free)
        /\ pc' = [pc EXCEPT ![t] = "sendcopy"]
        /\ timeout' = [timeout EXCEPT ![t] = "zero"]
        /\ UNCHANGED <<error, suspend_sender_thread>>
    BY <1>1 DEF TrySend
  <2>2. timeout' \in [Threads -> {"zero", "finite", "forever"}]
    BY <2>1 DEF TypeOK
  <2> QED
    BY <1>1, <2>1, <2>2, TakeSlot DEF waits
<1>2. CASE msg_queue_free = <<>> /\ limit = "zero"
  <2>1. /\ pc' = [pc EXCEPT ![t] = "idle"] /\ timeout' = [timeout EXCEPT ![t] = "zero"]
        /\ UNCHANGED <<msg_queue_free, held, error, suspend_sender_thread>>
    BY <1>2 DEF TrySend
  <2>2. /\ timeout' \in [Threads -> {"zero", "finite", "forever"}]
        /\ error[t] \in {"OK", "TIMEOUT", "ERROR"} /\ error' = [error EXCEPT ![t] = error[t]]
        /\ t \in Threads
    BY <2>1 DEF TypeOK, Threads
  <2> QED
    BY <2>1, <2>2, GiveUp DEF lists, waits
<1>3. CASE msg_queue_free = <<>> /\ limit # "zero"
  <2>1. /\ error' = [error EXCEPT ![t] = "OK"] /\ timeout' = [timeout EXCEPT ![t] = limit]
        /\ suspend_sender_thread' = Enlist(suspend_sender_thread, t)
        /\ pc' = [pc EXCEPT ![t] = "sendwait"]
        /\ UNCHANGED <<msg_queue_free, held>>
    BY <1>3 DEF TrySend
  <2>2. /\ suspend_sender_thread' \in Seq(Senders) /\ IsInjective(suspend_sender_thread')
        /\ ToSet(suspend_sender_thread') = ToSet(suspend_sender_thread) \cup {t}
    <3>1. /\ suspend_sender_thread \in Seq(Senders) /\ IsInjective(suspend_sender_thread)
          /\ ToSet(suspend_sender_thread) = {u \in Senders : pc[u] = "sendwait"}
      BY DEF TypeOK
    <3>2. t \notin ToSet(suspend_sender_thread)
      BY <3>1
    <3> QED
      BY <2>1, <3>1, <3>2, EnlistLemma
  <2>3. /\ t \in Threads /\ t \notin Receivers
        /\ \A u \in Threads : u # t => pc'[u] = pc[u] /\ error'[u] = error[u]
        /\ pc'[t] = "sendwait" /\ error'[t] = "OK" /\ held[t] = NoSlot
    BY <2>1 DEF TypeOK, Threads, QueueAssumption
  <2>4. /\ pc' \in [Threads -> {"idle", "sendwait", "sendwoken", "sendcopy", "urgentcopy",
                           "recvwait", "recvwoken", "recvcopy"}]
        /\ \A u \in Senders : pc'[u] \notin {"recvwait", "recvwoken", "recvcopy"}
        /\ \A u \in Receivers : pc'[u] \in {"idle", "recvwait", "recvwoken", "recvcopy"}
        /\ \A u \in Threads : held'[u] # NoSlot <=> pc'[u] \in {"sendcopy", "urgentcopy", "recvcopy"}
    BY <2>1, <2>3 DEF TypeOK, Threads
  <2>5. /\ {u \in Receivers : pc'[u] = "recvwait"} = {u \in Receivers : pc[u] = "recvwait"}
        /\ {u \in Senders : pc'[u] = "sendwait"} = {u \in Senders : pc[u] = "sendwait"} \cup {t}
    BY <2>3 DEF Threads
  <2>6. TypeOK'
    BY <2>1, <2>2, <2>4, <2>5 DEF TypeOK
  <2>7. Placed'
    BY <2>1, <2>3 DEF Placed
  <2> QED
    BY <2>6, <2>7
<1> QED
  BY <1>1, <1>2, <1>3

LEMMA SendStep ==
    ASSUME QueueAssumption, TypeOK, Placed, NEW t \in Senders,
           Send(t) \/ SendResumed(t) \/ Urgent(t)
    PROVE  TypeOK' /\ Placed'
<1>1. CASE Send(t)
  BY <1>1, TrySendStep DEF Send, QueueAssumption
<1>2. CASE SendResumed(t)
  <2>1. CASE error[t] # "OK"
    <3>1. /\ pc[t] = "sendwoken" /\ pc' = [pc EXCEPT ![t] = "idle"]
          /\ timeout' = [timeout EXCEPT ![t] = "zero"]
          /\ UNCHANGED <<lists, waits, held, made, taken, error>>
      BY <1>2, <2>1 DEF SendResumed, lists, waits
    <3>2. /\ timeout' \in [Threads -> {"zero", "finite", "forever"}]
          /\ error[t] \in {"OK", "TIMEOUT", "ERROR"} /\ error' = [error EXCEPT ![t] = error[t]]
          /\ t \in Threads
      BY <3>1 DEF TypeOK, Threads
    <3> QED
      BY <3>1, <3>2, GiveUp
  <2>2. CASE error[t] = "OK"
    <3>1. PICK limit \in Left(timeout[t]) : TrySend(t, limit)
      BY <1>2, <2>2 DEF SendResumed
    <3>2. limit \in {"zero", "finite", "forever"}
      BY <3>1 DEF Left, TypeOK, Threads
    <3> QED
      BY <1>2, <3>1, <3>2, TrySendStep DEF SendResumed
  <2> QED
    BY <2>1, <2>2
<1>3. CASE Urgent(t)
  <2>1. timeout' \in [Threads -> {"zero", "finite", "forever"}]
    BY <1>3 DEF Urgent, TypeOK
  <2> QED
    BY <1>3, <2>1, TakeSlot DEF Urgent
<1> QED
  BY <1>1, <1>2, <1>3

\* A sender that has linked its message returns and wakes the first receiver, if
\* one is suspended.
LEMMA WakeReceiver ==
    ASSUME QueueAssumption, TypeOK, NEW t \in Threads,
           pc[t] \in {"sendcopy", "urgentcopy", "recvcopy"},
           held' = [held EXCEPT ![t] = NoSlot], ReturnAndWake(t, suspend_thread)
    PROVE  /\ pc' \in [Threads -> {"idle", "sendwait", "sendwoken", "sendcopy", "urgentcopy",
                                   "recvwait", "recvwoken", "recvcopy"}]
           /\ \A u \in Senders : pc'[u] \notin {"recvwait", "recvwoken", "recvcopy"}
           /\ \A u \in Receivers : pc'[u] \in {"idle", "recvwait", "recvwoken", "recvcopy"}
           /\ held' \in [Threads -> Slots \cup {NoSlot}]
           /\ \A u \in Threads :
                held'[u] # NoSlot <=> pc'[u] \in {"sendcopy", "urgentcopy", "recvcopy"}
           /\ Rest(suspend_thread) \in Seq(Receivers) /\ IsInjective(Rest(suspend_thread))
           /\ ToSet(Rest(suspend_thread)) = {u \in Receivers : pc'[u] = "recvwait"}
           /\ {u \in Senders : pc'[u] = "sendwait"} = {u \in Senders : pc[u] = "sendwait"}
           /\ \A u \in Threads : pc'[u] \in {"sendwait", "recvwait"} => pc'[u] = pc[u]
           /\ suspend_thread = <<>> => \A u \in Threads : u # t => pc'[u] = pc[u]
           /\ suspend_thread # <<>> =>
                /\ Head(suspend_thread) \in Receivers /\ pc[Head(suspend_thread)] = "recvwait"
                /\ pc'[Head(suspend_thread)] = "recvwoken" /\ Head(suspend_thread) # t
                /\ \A u \in Threads \ {t, Head(suspend_thread)} : pc'[u] = pc[u]
           /\ pc'[t] = "idle"
<1> DEFINE list == suspend_thread
           first == Head(list)
<1>1. /\ list \in Seq(Receivers) /\ IsInjective(list)
      /\ ToSet(list) = {u \in Receivers : pc[u] = "recvwait"}
      /\ Receivers \subseteq Threads /\ \A u \in Receivers : u \notin Senders
      /\ pc \in [Threads -> {"idle", "sendwait", "sendwoken", "sendcopy", "urgentcopy",
                             "recvwait", "recvwoken", "recvcopy"}]
      /\ held \in [Threads -> Slots \cup {NoSlot}]
  BY DEF TypeOK, Threads, QueueAssumption
<1>2. pc' = [u \in Threads |-> IF u = t THEN "idle"
               ELSE IF list # <<>> /\ u = first THEN Woken(pc[u]) ELSE pc[u]]
  BY DEF ReturnAndWake
<1>3. CASE list = <<>>
  <2>1. \A u \in Threads : u # t => pc'[u] = pc[u] /\ held'[u] = held[u]
    BY <1>1, <1>2, <1>3
  <2>2. pc'[t] = "idle" /\ held'[t] = NoSlot
    BY <1>1, <1>2
  <2>3. pc' \in [Threads -> {"idle", "sendwait", "sendwoken", "sendcopy", "urgentcopy",
                             "recvwait", "recvwoken", "recvcopy"}]
    BY <1>1, <1>2, <1>3
  <2>4. Rest(list) = list
    BY <1>3 DEF Rest
  <2>5. /\ {u \in Receivers : pc'[u] = "recvwait"} = {u \in Receivers : pc[u] = "recvwait"}
        /\ {u \in Senders : pc'[u] = "sendwait"} = {u \in Senders : pc[u] = "sendwait"}
    BY <2>1, <2>2 DEF Threads
  <2>6. held' \in [Threads -> Slots \cup {NoSlot}]
    BY <1>1
  <2>7. /\ \A u \in Senders : pc'[u] \notin {"recvwait", "recvwoken", "recvcopy"}
        /\ \A u \in Receivers : pc'[u] \in {"idle", "recvwait", "recvwoken", "recvcopy"}
        /\ \A u \in Threads :
             held'[u] # NoSlot <=> pc'[u] \in {"sendcopy", "urgentcopy", "recvcopy"}
    BY <1>1, <2>1, <2>2 DEF TypeOK, Threads
  <2> QED
    BY <1>1, <1>3, <2>1, <2>2, <2>3, <2>4, <2>5, <2>6, <2>7
<1>4. CASE list # <<>>
  <2>1. /\ Tail(list) \in Seq(Receivers) /\ IsInjective(Tail(list)) /\ first \in ToSet(list)
        /\ ToSet(Tail(list)) = ToSet(list) \ {first}
    BY <1>1, <1>4, TailLemma
  <2>2. first \in Receivers /\ first \in Threads /\ pc[first] = "recvwait" /\ first # t
    BY <1>1, <2>1
  <2> HIDE DEF first
  <2>3. /\ \A u \in Threads \ {t, first} : pc'[u] = pc[u]
        /\ \A u \in Threads : u # t => held'[u] = held[u]
    BY <1>1, <1>2
  <2>4. pc'[t] = "idle" /\ held'[t] = NoSlot /\ pc'[first] = "recvwoken"
    BY <1>1, <1>2, <1>4, <2>2 DEF Woken
  <2>5. pc' \in [Threads -> {"idle", "sendwait", "sendwoken", "sendcopy", "urgentcopy",
                             "recvwait", "recvwoken", "recvcopy"}]
    BY <1>1, <1>2, <1>4, <2>2 DEF Woken
  <2>6. Rest(list) = Tail(list)
    BY <1>4 DEF Rest
  <2>7. /\ {u \in Receivers : pc'[u] = "recvwait"} = {u \in Receivers : pc[u] = "recvwait"} \ {first}
        /\ {u \in Senders : pc'[u] = "sendwait"} = {u \in Senders : pc[u] = "sendwait"}
    <3>1. ASSUME NEW u \in Threads
          PROVE  pc'[u] = "recvwait" <=> pc[u] = "recvwait" /\ u # first
      BY <2>2, <2>3, <2>4
    <3>2. ASSUME NEW u \in Threads
          PROVE  pc'[u] = "sendwait" <=> pc[u] = "sendwait"
      BY <2>2, <2>3, <2>4
    <3> QED
      BY <3>1, <3>2 DEF Threads
  <2>8. held' \in [Threads -> Slots \cup {NoSlot}]
    BY <1>1
  <2>9. /\ \A u \in Senders : pc'[u] \notin {"recvwait", "recvwoken", "recvcopy"}
        /\ \A u \in Receivers : pc'[u] \in {"idle", "recvwait", "recvwoken", "recvcopy"}
        /\ \A u \in Threads :
             held'[u] # NoSlot <=> pc'[u] \in {"sendcopy", "urgentcopy", "recvcopy"}
    BY <1>1, <2>2, <2>3, <2>4 DEF TypeOK, Threads
  <2> QED
    BY <1>1, <1>4, <2>1, <2>2, <2>3, <2>4, <2>5, <2>6, <2>7, <2>8, <2>9 DEF first
<1> QED
  BY <1>3, <1>4

\* A receiver that has freed its slot returns and wakes the first sender.
LEMMA WakeSender ==
    ASSUME QueueAssumption, TypeOK, NEW t \in Threads,
           pc[t] \in {"sendcopy", "urgentcopy", "recvcopy"},
           held' = [held EXCEPT ![t] = NoSlot], ReturnAndWake(t, suspend_sender_thread)
    PROVE  /\ pc' \in [Threads -> {"idle", "sendwait", "sendwoken", "sendcopy", "urgentcopy",
                                   "recvwait", "recvwoken", "recvcopy"}]
           /\ \A u \in Senders : pc'[u] \notin {"recvwait", "recvwoken", "recvcopy"}
           /\ \A u \in Receivers : pc'[u] \in {"idle", "recvwait", "recvwoken", "recvcopy"}
           /\ held' \in [Threads -> Slots \cup {NoSlot}]
           /\ \A u \in Threads :
                held'[u] # NoSlot <=> pc'[u] \in {"sendcopy", "urgentcopy", "recvcopy"}
           /\ Rest(suspend_sender_thread) \in Seq(Senders) /\ IsInjective(Rest(suspend_sender_thread))
           /\ ToSet(Rest(suspend_sender_thread)) = {u \in Senders : pc'[u] = "sendwait"}
           /\ {u \in Receivers : pc'[u] = "recvwait"} = {u \in Receivers : pc[u] = "recvwait"}
           /\ \A u \in Threads : pc'[u] \in {"sendwait", "recvwait"} => pc'[u] = pc[u]
           /\ suspend_sender_thread = <<>> => \A u \in Threads : u # t => pc'[u] = pc[u]
           /\ suspend_sender_thread # <<>> =>
                /\ Head(suspend_sender_thread) \in Senders /\ pc[Head(suspend_sender_thread)] = "sendwait"
                /\ pc'[Head(suspend_sender_thread)] = "sendwoken" /\ Head(suspend_sender_thread) # t
                /\ \A u \in Threads \ {t, Head(suspend_sender_thread)} : pc'[u] = pc[u]
           /\ pc'[t] = "idle"
<1> DEFINE list == suspend_sender_thread
           first == Head(list)
<1>1. /\ list \in Seq(Senders) /\ IsInjective(list)
      /\ ToSet(list) = {u \in Senders : pc[u] = "sendwait"}
      /\ Senders \subseteq Threads /\ \A u \in Senders : u \notin Receivers
      /\ pc \in [Threads -> {"idle", "sendwait", "sendwoken", "sendcopy", "urgentcopy",
                             "recvwait", "recvwoken", "recvcopy"}]
      /\ held \in [Threads -> Slots \cup {NoSlot}]
  BY DEF TypeOK, Threads, QueueAssumption
<1>2. pc' = [u \in Threads |-> IF u = t THEN "idle"
               ELSE IF list # <<>> /\ u = first THEN Woken(pc[u]) ELSE pc[u]]
  BY DEF ReturnAndWake
<1>3. CASE list = <<>>
  <2>1. \A u \in Threads : u # t => pc'[u] = pc[u] /\ held'[u] = held[u]
    BY <1>1, <1>2, <1>3
  <2>2. pc'[t] = "idle" /\ held'[t] = NoSlot
    BY <1>1, <1>2
  <2>3. pc' \in [Threads -> {"idle", "sendwait", "sendwoken", "sendcopy", "urgentcopy",
                             "recvwait", "recvwoken", "recvcopy"}]
    BY <1>1, <1>2, <1>3
  <2>4. Rest(list) = list
    BY <1>3 DEF Rest
  <2>5. /\ {u \in Senders : pc'[u] = "sendwait"} = {u \in Senders : pc[u] = "sendwait"}
        /\ {u \in Receivers : pc'[u] = "recvwait"} = {u \in Receivers : pc[u] = "recvwait"}
    BY <2>1, <2>2 DEF Threads
  <2>6. held' \in [Threads -> Slots \cup {NoSlot}]
    BY <1>1
  <2>7. /\ \A u \in Senders : pc'[u] \notin {"recvwait", "recvwoken", "recvcopy"}
        /\ \A u \in Receivers : pc'[u] \in {"idle", "recvwait", "recvwoken", "recvcopy"}
        /\ \A u \in Threads :
             held'[u] # NoSlot <=> pc'[u] \in {"sendcopy", "urgentcopy", "recvcopy"}
    BY <1>1, <2>1, <2>2 DEF TypeOK, Threads
  <2> QED
    BY <1>1, <1>3, <2>1, <2>2, <2>3, <2>4, <2>5, <2>6, <2>7
<1>4. CASE list # <<>>
  <2>1. /\ Tail(list) \in Seq(Senders) /\ IsInjective(Tail(list)) /\ first \in ToSet(list)
        /\ ToSet(Tail(list)) = ToSet(list) \ {first}
    BY <1>1, <1>4, TailLemma
  <2>2. first \in Senders /\ first \in Threads /\ pc[first] = "sendwait" /\ first # t
    BY <1>1, <2>1
  <2> HIDE DEF first
  <2>3. /\ \A u \in Threads \ {t, first} : pc'[u] = pc[u]
        /\ \A u \in Threads : u # t => held'[u] = held[u]
    BY <1>1, <1>2
  <2>4. pc'[t] = "idle" /\ held'[t] = NoSlot /\ pc'[first] = "sendwoken"
    BY <1>1, <1>2, <1>4, <2>2 DEF Woken
  <2>5. pc' \in [Threads -> {"idle", "sendwait", "sendwoken", "sendcopy", "urgentcopy",
                             "recvwait", "recvwoken", "recvcopy"}]
    BY <1>1, <1>2, <1>4, <2>2 DEF Woken
  <2>6. Rest(list) = Tail(list)
    BY <1>4 DEF Rest
  <2>7. /\ {u \in Senders : pc'[u] = "sendwait"} = {u \in Senders : pc[u] = "sendwait"} \ {first}
        /\ {u \in Receivers : pc'[u] = "recvwait"} = {u \in Receivers : pc[u] = "recvwait"}
    <3>1. ASSUME NEW u \in Threads
          PROVE  pc'[u] = "sendwait" <=> pc[u] = "sendwait" /\ u # first
      BY <2>2, <2>3, <2>4
    <3>2. ASSUME NEW u \in Threads
          PROVE  pc'[u] = "recvwait" <=> pc[u] = "recvwait"
      BY <2>2, <2>3, <2>4
    <3> QED
      BY <3>1, <3>2 DEF Threads
  <2>8. held' \in [Threads -> Slots \cup {NoSlot}]
    BY <1>1
  <2>9. /\ \A u \in Senders : pc'[u] \notin {"recvwait", "recvwoken", "recvcopy"}
        /\ \A u \in Receivers : pc'[u] \in {"idle", "recvwait", "recvwoken", "recvcopy"}
        /\ \A u \in Threads :
             held'[u] # NoSlot <=> pc'[u] \in {"sendcopy", "urgentcopy", "recvcopy"}
    BY <1>1, <2>2, <2>3, <2>4 DEF TypeOK, Threads
  <2> QED
    BY <1>1, <1>4, <2>1, <2>2, <2>3, <2>4, <2>5, <2>6, <2>7, <2>8, <2>9 DEF first
<1> QED
  BY <1>3, <1>4

LEMMA LinkStep ==
    ASSUME QueueAssumption, TypeOK, Placed, NEW t \in Senders,
           NEW where \in {"sendcopy", "urgentcopy"}, Link(t, where)
    PROVE  TypeOK' /\ Placed'
<1> DEFINE slot == held[t]
<1>1. /\ t \in Threads /\ pc[t] \in {"sendcopy", "urgentcopy", "recvcopy"}
      /\ held' = [held EXCEPT ![t] = NoSlot] /\ ReturnAndWake(t, suspend_thread)
      /\ Write(t, slot, where) /\ entry' = entry + 1
      /\ msg_queue' = IF where = "urgentcopy" THEN <<slot>> \o msg_queue
                                              ELSE Append(msg_queue, slot)
      /\ suspend_thread' = Rest(suspend_thread)
      /\ UNCHANGED <<msg_queue_free, suspend_sender_thread, error, timeout, taken>>
  BY DEF Link, Threads
<1>2. slot \in Slots /\ slot # NoSlot
  BY <1>1 DEF TypeOK
<1>3. slot \notin ToSet(msg_queue) /\ slot \notin ToSet(msg_queue_free)
  BY <1>1 DEF Placed
<1> HIDE DEF slot
<1>4. /\ msg_queue' \in Seq(Slots) /\ IsInjective(msg_queue')
      /\ ToSet(msg_queue') = ToSet(msg_queue) \cup {slot}
      /\ Len(msg_queue') = Len(msg_queue) + 1
  <2>1. msg_queue \in Seq(Slots) /\ IsInjective(msg_queue)
    BY DEF TypeOK, Placed
  <2>2. CASE where = "urgentcopy"
    BY <1>1, <1>2, <1>3, <2>1, <2>2, ConsLemma
  <2>3. CASE where # "urgentcopy"
    BY <1>1, <1>2, <1>3, <2>1, <2>3, AppendLemma
  <2> QED
    BY <2>2, <2>3
<1>5. /\ content' \in [Slots -> {<<>>} \cup (Senders \X (0 .. Numbers))]
      /\ made' \in [Senders -> 0 .. Numbers - 1]
      /\ content'[slot] # <<>> /\ \A other \in Slots : other # slot => content'[other] = content[other]
  <2>1. /\ content \in [Slots -> {<<>>} \cup (Senders \X (0 .. Numbers))]
        /\ made \in [Senders -> 0 .. Numbers - 1] /\ Numbers \in Nat \ {0}
        /\ made[t] \in 0 .. Numbers - 1 /\ (made[t] + 1) % Numbers \in 0 .. Numbers - 1
    BY DEF TypeOK, QueueAssumption
  <2> DEFINE message == <<t, IF where = "urgentcopy" THEN Numbers ELSE made[t]>>
  <2>2. message \in Senders \X (0 .. Numbers) /\ message # <<>>
    BY <2>1
  <2>3. content' = [content EXCEPT ![slot] = message]
    BY <1>1 DEF Write
  <2> HIDE DEF message
  <2>4. made' \in [Senders -> 0 .. Numbers - 1]
    BY <1>1, <2>1 DEF Write
  <2> QED
    BY <1>2, <2>1, <2>2, <2>3, <2>4
<1>6. TypeOK'
  <2>1. /\ suspend_thread' \in Seq(Receivers) /\ IsInjective(suspend_thread')
        /\ ToSet(suspend_thread') = {u \in Receivers : pc'[u] = "recvwait"}
        /\ {u \in Senders : pc'[u] = "sendwait"} = {u \in Senders : pc[u] = "sendwait"}
    BY <1>1, WakeReceiver
  <2>2. /\ pc' \in [Threads -> {"idle", "sendwait", "sendwoken", "sendcopy", "urgentcopy",
                                "recvwait", "recvwoken", "recvcopy"}]
        /\ \A u \in Senders : pc'[u] \notin {"recvwait", "recvwoken", "recvcopy"}
        /\ \A u \in Receivers : pc'[u] \in {"idle", "recvwait", "recvwoken", "recvcopy"}
        /\ held' \in [Threads -> Slots \cup {NoSlot}]
        /\ \A u \in Threads :
             held'[u] # NoSlot <=> pc'[u] \in {"sendcopy", "urgentcopy", "recvcopy"}
    BY <1>1, WakeReceiver
  <2>3. /\ entry' \in Nat /\ error' = error /\ timeout' = timeout /\ taken' = taken
        /\ suspend_sender_thread' = suspend_sender_thread /\ msg_queue_free' = msg_queue_free
    BY <1>1 DEF TypeOK
  <2> QED
    BY <1>4, <1>5, <2>1, <2>2, <2>3 DEF TypeOK
<1>7. Placed'
  <2>1. /\ \A u \in Threads : u # t => held'[u] = held[u]
        /\ held'[t] = NoSlot /\ NoSlot \notin Slots
        /\ \A u \in Threads : u # t => held[u] # slot
    BY <1>1, <1>2 DEF TypeOK, Placed, QueueAssumption, slot
  <2>2. /\ ToSet(msg_queue_free) \subseteq Slots /\ ToSet(msg_queue) \subseteq Slots
    BY DEF TypeOK, ToSet
  <2>3. \A u \in Threads : pc'[u] \in {"sendwait", "recvwait"} => error'[u] = "OK"
    BY <1>1, WakeReceiver DEF Placed
  <2>4. \A other \in ToSet(msg_queue') : content'[other] # <<>>
    BY <1>4, <1>5, <2>2 DEF Placed
  <2>5. entry' = Len(msg_queue')
    BY <1>1, <1>4 DEF Placed
  <2>6. msg_queue_free' = msg_queue_free /\ t \in Threads /\ held[t] = slot
    BY <1>1 DEF slot
  <2>7. /\ IsInjective(msg_queue_free') /\ IsInjective(msg_queue')
        /\ ToSet(msg_queue_free') \cap ToSet(msg_queue') = {}
    BY <1>3, <1>4, <2>6 DEF Placed
  <2>8. \A u \in Threads : held'[u] \notin ToSet(msg_queue_free') \cup ToSet(msg_queue')
    BY <1>2, <1>4, <2>1, <2>2, <2>6 DEF Placed
  <2>9. \A u, v \in Threads : held'[u] # NoSlot /\ held'[u] = held'[v] => u = v
    BY <2>1 DEF Placed
  <2>10. \A other \in Slots \ (ToSet(msg_queue_free') \cup ToSet(msg_queue')) :
           \E u \in Threads : held'[u] = other
    BY <1>4, <2>1, <2>6 DEF Placed
  <2> QED
    BY <2>3, <2>4, <2>5, <2>7, <2>8, <2>9, <2>10 DEF Placed
<1> QED
  BY <1>6, <1>7

\* The count is positive only when there is a message to unlink.
LEMMA CountLemma ==
    ASSUME TypeOK, Placed
    PROVE  entry = 0 <=> msg_queue = <<>>
  BY NonEmptyLemma DEF TypeOK, Placed

LEMMA TakeMessage ==
    ASSUME QueueAssumption, TypeOK, Placed, NEW t \in Receivers,
           pc[t] \in {"idle", "recvwoken"}, NEW limit \in {"zero", "finite", "forever"},
           TryReceive(t, limit), entry > 0,
           UNCHANGED <<msg_queue_free, content, suspend_sender_thread, made>>
    PROVE  TypeOK' /\ Placed'
<1> DEFINE first == Head(msg_queue)
           message == content[first]
<1>1. /\ held' = [held EXCEPT ![t] = first] /\ msg_queue' = Tail(msg_queue)
      /\ entry' = entry - 1 /\ pc' = [pc EXCEPT ![t] = "recvcopy"]
      /\ timeout' = [timeout EXCEPT ![t] = "zero"]
      /\ UNCHANGED <<error, suspend_thread>>
  BY DEF TryReceive, Unlink
<1>2. msg_queue # <<>> /\ entry \in Nat
  BY CountLemma DEF TypeOK
<1>3. /\ msg_queue' \in Seq(Slots) /\ IsInjective(msg_queue')
      /\ first \in Slots /\ first \in ToSet(msg_queue)
      /\ ToSet(msg_queue') = ToSet(msg_queue) \ {first}
      /\ Len(msg_queue') = Len(msg_queue) - 1
  BY <1>1, <1>2, TailLemma DEF TypeOK, Placed
<1>4. taken' \in [Senders -> 0 .. Numbers - 1]
  <2>1. held'[t] = first
    BY <1>1 DEF TypeOK, Threads
  <2>2. taken' = IF message[2] = Numbers THEN taken
                 ELSE [taken EXCEPT ![message[1]] = (message[2] + 1) % Numbers]
    BY <2>1 DEF TryReceive
  <2>3. message \in Senders \X (0 .. Numbers)
    BY <1>3 DEF TypeOK, Placed
  <2>4. message[1] \in Senders /\ message[2] \in 0 .. Numbers
    BY <2>3
  <2> HIDE DEF message
  <2>5. (message[2] + 1) % Numbers \in 0 .. Numbers - 1
    BY <2>4 DEF QueueAssumption
  <2> QED
    BY <2>2, <2>4, <2>5 DEF TypeOK
<1> HIDE DEF first
<1>5. /\ t \in Threads /\ t \notin Senders /\ NoSlot \notin Slots /\ held[t] = NoSlot
      /\ \A u \in Threads : u # t => held'[u] = held[u] /\ pc'[u] = pc[u]
      /\ held'[t] = first /\ pc'[t] = "recvcopy"
  BY <1>1 DEF TypeOK, Threads, QueueAssumption
<1>6. TypeOK'
  <2>1. /\ pc' \in [Threads -> {"idle", "sendwait", "sendwoken", "sendcopy", "urgentcopy",
                                "recvwait", "recvwoken", "recvcopy"}]
        /\ \A u \in Senders : pc'[u] \notin {"recvwait", "recvwoken", "recvcopy"}
        /\ \A u \in Receivers : pc'[u] \in {"idle", "recvwait", "recvwoken", "recvcopy"}
        /\ timeout' \in [Threads -> {"zero", "finite", "forever"}]
    BY <1>1, <1>5 DEF TypeOK, Threads
  <2>2. /\ held' \in [Threads -> Slots \cup {NoSlot}]
        /\ \A u \in Threads : held'[u] # NoSlot <=> pc'[u] \in {"sendcopy", "urgentcopy", "recvcopy"}
    BY <1>1, <1>3, <1>5 DEF TypeOK
  <2>3. /\ {u \in Receivers : pc'[u] = "recvwait"} = {u \in Receivers : pc[u] = "recvwait"}
        /\ {u \in Senders : pc'[u] = "sendwait"} = {u \in Senders : pc[u] = "sendwait"}
    BY <1>5 DEF Threads
  <2>4. entry' \in Nat
    BY <1>1, <1>2
  <2> QED
    BY <1>1, <1>3, <1>4, <2>1, <2>2, <2>3, <2>4 DEF TypeOK
<1>7. Placed'
  <2>1. entry' = Len(msg_queue')
    BY <1>1, <1>3 DEF Placed
  <2>2. \A u \in Threads : pc'[u] \in {"sendwait", "recvwait"} => error'[u] = "OK"
    BY <1>1, <1>5 DEF Placed
  <2>3. \A u \in Threads : held'[u] \notin ToSet(msg_queue_free') \cup ToSet(msg_queue')
    BY <1>3, <1>5 DEF Placed
  <2>4. \A u, v \in Threads : held'[u] # NoSlot /\ held'[u] = held'[v] => u = v
    BY <1>3, <1>5 DEF Placed
  <2> QED
    BY <1>1, <1>3, <1>5, <2>1, <2>2, <2>3, <2>4 DEF Placed
<1> QED
  BY <1>6, <1>7

LEMMA TryReceiveStep ==
    ASSUME QueueAssumption, TypeOK, Placed, NEW t \in Receivers,
           pc[t] \in {"idle", "recvwoken"}, NEW limit \in {"zero", "finite", "forever"},
           TryReceive(t, limit),
           UNCHANGED <<msg_queue_free, content, suspend_sender_thread, made>>
    PROVE  TypeOK' /\ Placed'
<1>1. CASE entry > 0
  BY <1>1, TakeMessage
<1>2. CASE entry = 0 /\ limit = "zero"
  <2> DEFINE code == IF pc[t] = "idle" THEN error[t] ELSE "TIMEOUT"
  <2>1. /\ pc' = [pc EXCEPT ![t] = "idle"] /\ timeout' = [timeout EXCEPT ![t] = "zero"]
        /\ error' = IF pc[t] = "idle" THEN error ELSE [error EXCEPT ![t] = "TIMEOUT"]
        /\ UNCHANGED <<msg_queue, entry, held, taken, suspend_thread>>
    BY <1>2 DEF TryReceive
  <2>2. /\ timeout' \in [Threads -> {"zero", "finite", "forever"}]
        /\ code \in {"OK", "TIMEOUT", "ERROR"} /\ error' = [error EXCEPT ![t] = code]
        /\ t \in Threads
    BY <2>1 DEF TypeOK, Threads
  <2> HIDE DEF code
  <2> QED
    BY <2>1, <2>2, GiveUp DEF lists, waits
<1>3. CASE entry = 0 /\ limit # "zero"
  <2>1. /\ error' = [error EXCEPT ![t] = "OK"] /\ timeout' = [timeout EXCEPT ![t] = limit]
        /\ suspend_thread' = Enlist(suspend_thread, t)
        /\ pc' = [pc EXCEPT ![t] = "recvwait"]
        /\ UNCHANGED <<msg_queue, entry, held, taken>>
    BY <1>3 DEF TryReceive
  <2>2. /\ suspend_thread' \in Seq(Receivers) /\ IsInjective(suspend_thread')
        /\ ToSet(suspend_thread') = ToSet(suspend_thread) \cup {t}
    <3>1. /\ suspend_thread \in Seq(Receivers) /\ IsInjective(suspend_thread)
          /\ ToSet(suspend_thread) = {u \in Receivers : pc[u] = "recvwait"}
      BY DEF TypeOK
    <3>2. t \notin ToSet(suspend_thread)
      BY <3>1
    <3> QED
      BY <2>1, <3>1, <3>2, EnlistLemma
  <2>3. /\ t \in Threads /\ t \notin Senders
        /\ \A u \in Threads : u # t => pc'[u] = pc[u] /\ error'[u] = error[u]
        /\ pc'[t] = "recvwait" /\ error'[t] = "OK" /\ held[t] = NoSlot
    BY <2>1 DEF TypeOK, Threads, QueueAssumption
  <2>4. /\ pc' \in [Threads -> {"idle", "sendwait", "sendwoken", "sendcopy", "urgentcopy",
                                "recvwait", "recvwoken", "recvcopy"}]
        /\ \A u \in Senders : pc'[u] \notin {"recvwait", "recvwoken", "recvcopy"}
        /\ \A u \in Receivers : pc'[u] \in {"idle", "recvwait", "recvwoken", "recvcopy"}
        /\ \A u \in Threads : held'[u] # NoSlot <=> pc'[u] \in {"sendcopy", "urgentcopy", "recvcopy"}
    BY <2>1, <2>3 DEF TypeOK, Threads
  <2>5. /\ {u \in Senders : pc'[u] = "sendwait"} = {u \in Senders : pc[u] = "sendwait"}
        /\ {u \in Receivers : pc'[u] = "recvwait"} = {u \in Receivers : pc[u] = "recvwait"} \cup {t}
    BY <2>3 DEF Threads
  <2>6. TypeOK'
    BY <2>1, <2>2, <2>4, <2>5 DEF TypeOK
  <2>7. Placed'
    BY <2>1, <2>3 DEF Placed
  <2> QED
    BY <2>6, <2>7
<1>4. entry \in Nat
  BY DEF TypeOK
<1> QED
  BY <1>1, <1>2, <1>3, <1>4

LEMMA ReceiveStep ==
    ASSUME QueueAssumption, TypeOK, Placed, NEW t \in Receivers,
           Receive(t) \/ ReceiveResumed(t)
    PROVE  TypeOK' /\ Placed'
<1>1. CASE Receive(t)
  BY <1>1, TryReceiveStep DEF Receive, QueueAssumption
<1>2. CASE ReceiveResumed(t)
  <2>1. CASE error[t] # "OK"
    <3>1. /\ pc[t] = "recvwoken" /\ pc' = [pc EXCEPT ![t] = "idle"]
          /\ timeout' = [timeout EXCEPT ![t] = "zero"]
          /\ UNCHANGED <<lists, waits, held, made, taken, error>>
      BY <1>2, <2>1 DEF ReceiveResumed, lists, waits
    <3>2. /\ timeout' \in [Threads -> {"zero", "finite", "forever"}]
          /\ error[t] \in {"OK", "TIMEOUT", "ERROR"} /\ error' = [error EXCEPT ![t] = error[t]]
          /\ t \in Threads
      BY <3>1 DEF TypeOK, Threads
    <3> QED
      BY <3>1, <3>2, GiveUp
  <2>2. CASE error[t] = "OK"
    <3>1. PICK limit \in Left(timeout[t]) : TryReceive(t, limit)
      BY <1>2, <2>2 DEF ReceiveResumed
    <3>2. limit \in {"zero", "finite", "forever"}
      BY <3>1 DEF Left, TypeOK, Threads
    <3> QED
      BY <1>2, <3>1, <3>2, TryReceiveStep DEF ReceiveResumed
  <2> QED
    BY <2>1, <2>2
<1> QED
  BY <1>1, <1>2

LEMMA ReleaseStep ==
    ASSUME QueueAssumption, TypeOK, Placed, NEW t \in Receivers, Release(t)
    PROVE  TypeOK' /\ Placed'
<1> DEFINE slot == held[t]
<1>1. /\ t \in Threads /\ pc[t] \in {"sendcopy", "urgentcopy", "recvcopy"}
      /\ held' = [held EXCEPT ![t] = NoSlot] /\ ReturnAndWake(t, suspend_sender_thread)
      /\ content' = [content EXCEPT ![slot] = <<>>]
      /\ msg_queue_free' = <<slot>> \o msg_queue_free
      /\ suspend_sender_thread' = Rest(suspend_sender_thread)
      /\ UNCHANGED <<msg_queue, entry, suspend_thread, error, timeout, made, taken>>
  BY DEF Release, Threads
<1>2. slot \in Slots /\ slot # NoSlot
  BY <1>1 DEF TypeOK
<1>3. slot \notin ToSet(msg_queue) /\ slot \notin ToSet(msg_queue_free)
  BY <1>1 DEF Placed
<1> HIDE DEF slot
<1>4. /\ msg_queue_free' \in Seq(Slots) /\ IsInjective(msg_queue_free')
      /\ ToSet(msg_queue_free') = ToSet(msg_queue_free) \cup {slot}
  BY <1>1, <1>2, <1>3, ConsLemma DEF TypeOK, Placed
<1>5. /\ content' \in [Slots -> {<<>>} \cup (Senders \X (0 .. Numbers))]
      /\ \A other \in Slots : other # slot => content'[other] = content[other]
  BY <1>1, <1>2 DEF TypeOK
<1>6. TypeOK'
  <2>1. /\ suspend_sender_thread' \in Seq(Senders) /\ IsInjective(suspend_sender_thread')
        /\ ToSet(suspend_sender_thread') = {u \in Senders : pc'[u] = "sendwait"}
        /\ {u \in Receivers : pc'[u] = "recvwait"} = {u \in Receivers : pc[u] = "recvwait"}
    BY <1>1, WakeSender
  <2>2. /\ pc' \in [Threads -> {"idle", "sendwait", "sendwoken", "sendcopy", "urgentcopy",
                                "recvwait", "recvwoken", "recvcopy"}]
        /\ \A u \in Senders : pc'[u] \notin {"recvwait", "recvwoken", "recvcopy"}
        /\ \A u \in Receivers : pc'[u] \in {"idle", "recvwait", "recvwoken", "recvcopy"}
        /\ held' \in [Threads -> Slots \cup {NoSlot}]
        /\ \A u \in Threads :
             held'[u] # NoSlot <=> pc'[u] \in {"sendcopy", "urgentcopy", "recvcopy"}
    BY <1>1, WakeSender
  <2>3. /\ entry' = entry /\ error' = error /\ timeout' = timeout /\ taken' = taken
        /\ suspend_thread' = suspend_thread /\ msg_queue' = msg_queue /\ made' = made
    BY <1>1
  <2> QED
    BY <1>4, <1>5, <2>1, <2>2, <2>3 DEF TypeOK
<1>7. Placed'
  <2>1. /\ \A u \in Threads : u # t => held'[u] = held[u]
        /\ held'[t] = NoSlot /\ NoSlot \notin Slots
        /\ \A u \in Threads : u # t => held[u] # slot
    BY <1>1, <1>2 DEF TypeOK, Placed, QueueAssumption, slot
  <2>2. /\ ToSet(msg_queue_free) \subseteq Slots /\ ToSet(msg_queue) \subseteq Slots
    BY DEF TypeOK, ToSet
  <2>3. \A u \in Threads : pc'[u] \in {"sendwait", "recvwait"} => error'[u] = "OK"
    BY <1>1, WakeSender DEF Placed
  <2>6. msg_queue' = msg_queue /\ entry' = entry /\ t \in Threads /\ held[t] = slot
    BY <1>1 DEF slot
  <2>4. \A other \in ToSet(msg_queue') : content'[other] # <<>>
    BY <1>3, <1>5, <2>2, <2>6 DEF Placed
  <2>5. entry' = Len(msg_queue')
    BY <2>6 DEF Placed
  <2>7. /\ IsInjective(msg_queue_free') /\ IsInjective(msg_queue')
        /\ ToSet(msg_queue_free') \cap ToSet(msg_queue') = {}
    BY <1>3, <1>4, <2>6 DEF Placed
  <2>8. \A u \in Threads : held'[u] \notin ToSet(msg_queue_free') \cup ToSet(msg_queue')
    BY <1>2, <1>4, <2>1, <2>2, <2>6 DEF Placed
  <2>9. \A u, v \in Threads : held'[u] # NoSlot /\ held'[u] = held'[v] => u = v
    BY <2>1 DEF Placed
  <2>10. \A other \in Slots \ (ToSet(msg_queue_free') \cup ToSet(msg_queue')) :
           \E u \in Threads : held'[u] = other
    BY <1>4, <2>1, <2>6 DEF Placed
  <2> QED
    BY <2>3, <2>4, <2>5, <2>7, <2>8, <2>9, <2>10 DEF Placed
<1> QED
  BY <1>6, <1>7

LEMMA TimeOutStep ==
    ASSUME QueueAssumption, TypeOK, Placed, NEW t \in Threads, TimeOut(t)
    PROVE  TypeOK' /\ Placed'
<1>1. /\ pc[t] \in {"sendwait", "recvwait"}
      /\ error' = [error EXCEPT ![t] = "TIMEOUT"]
      /\ suspend_thread' = RemoveFirst(suspend_thread, t)
      /\ suspend_sender_thread' = RemoveFirst(suspend_sender_thread, t)
      /\ pc' = [pc EXCEPT ![t] = Woken(pc[t])]
      /\ UNCHANGED <<lists, timeout, held, made, taken>>
  BY DEF TimeOut, Without
<1>2. /\ suspend_thread' \in Seq(Receivers) /\ IsInjective(suspend_thread')
      /\ ToSet(suspend_thread') = ToSet(suspend_thread) \ {t}
  BY <1>1, RemoveLemma DEF TypeOK
<1>3. /\ suspend_sender_thread' \in Seq(Senders) /\ IsInjective(suspend_sender_thread')
      /\ ToSet(suspend_sender_thread') = ToSet(suspend_sender_thread) \ {t}
  BY <1>1, RemoveLemma DEF TypeOK
<1>4. /\ \A u \in Threads : u # t => pc'[u] = pc[u] /\ error'[u] = error[u]
      /\ pc'[t] = Woken(pc[t]) /\ held' = held
      /\ error' \in [Threads -> {"OK", "TIMEOUT", "ERROR"}]
      /\ pc'[t] \in {"sendwoken", "recvwoken"}
      /\ t \in Senders <=> pc'[t] = "sendwoken"
  BY <1>1 DEF TypeOK, Threads, Woken
<1>5. /\ pc' \in [Threads -> {"idle", "sendwait", "sendwoken", "sendcopy", "urgentcopy",
                              "recvwait", "recvwoken", "recvcopy"}]
      /\ \A u \in Senders : pc'[u] \notin {"recvwait", "recvwoken", "recvcopy"}
      /\ \A u \in Receivers : pc'[u] \in {"idle", "recvwait", "recvwoken", "recvcopy"}
      /\ \A u \in Threads : held'[u] # NoSlot <=> pc'[u] \in {"sendcopy", "urgentcopy", "recvcopy"}
  BY <1>1, <1>4 DEF TypeOK, Threads
<1>6. /\ {u \in Receivers : pc'[u] = "recvwait"} = {u \in Receivers : pc[u] = "recvwait"} \ {t}
      /\ {u \in Senders : pc'[u] = "sendwait"} = {u \in Senders : pc[u] = "sendwait"} \ {t}
  BY <1>4 DEF Threads
<1>7. TypeOK'
  <2>1. /\ msg_queue_free' \in Seq(Slots) /\ msg_queue' \in Seq(Slots) /\ entry' \in Nat
        /\ content' \in [Slots -> {<<>>} \cup (Senders \X (0 .. Numbers))]
        /\ held' \in [Threads -> Slots \cup {NoSlot}]
        /\ made' \in [Senders -> 0 .. Numbers - 1] /\ taken' \in [Senders -> 0 .. Numbers - 1]
        /\ timeout' \in [Threads -> {"zero", "finite", "forever"}]
        /\ error' \in [Threads -> {"OK", "TIMEOUT", "ERROR"}]
    BY <1>1, <1>4 DEF TypeOK, lists
  <2>2. /\ suspend_thread' \in Seq(Receivers) /\ suspend_sender_thread' \in Seq(Senders)
        /\ IsInjective(suspend_thread') /\ IsInjective(suspend_sender_thread')
        /\ ToSet(suspend_thread') = {u \in Receivers : pc'[u] = "recvwait"}
        /\ ToSet(suspend_sender_thread') = {u \in Senders : pc'[u] = "sendwait"}
    BY <1>2, <1>3, <1>6 DEF TypeOK
  <2> QED
    BY <1>5, <2>1, <2>2 DEF TypeOK
<1>8. Placed'
  BY <1>1, <1>4 DEF Placed, lists
<1> QED
  BY <1>7, <1>8

LEMMA ResetStep ==
    ASSUME QueueAssumption, TypeOK, Placed, Reset
    PROVE  TypeOK' /\ Placed'
<1> DEFINE waiting == {t \in Threads : pc[t] \in {"sendwait", "recvwait"}}
           thrown == Reverse(msg_queue)
<1>1. /\ error' = [t \in Threads |-> IF t \in waiting THEN "ERROR" ELSE error[t]]
      /\ pc' = [t \in Threads |-> IF t \in waiting THEN Woken(pc[t]) ELSE pc[t]]
      /\ suspend_thread' = <<>> /\ suspend_sender_thread' = <<>>
      /\ msg_queue_free' = thrown \o msg_queue_free
      /\ msg_queue' = <<>> /\ entry' = 0 /\ taken' = made
      /\ content' = [slot \in Slots |-> IF slot \in ToSet(msg_queue) THEN <<>> ELSE content[slot]]
      /\ UNCHANGED <<timeout, held, made>>
  BY DEF Reset
<1>2. /\ thrown \in Seq(Slots) /\ IsInjective(thrown) /\ ToSet(thrown) = ToSet(msg_queue)
  BY ReverseLemma DEF TypeOK, Placed
<1> HIDE DEF thrown
<1>3. /\ msg_queue_free' \in Seq(Slots) /\ IsInjective(msg_queue_free')
      /\ ToSet(msg_queue_free') = ToSet(msg_queue) \cup ToSet(msg_queue_free)
  <2>1. /\ msg_queue_free \in Seq(Slots) /\ IsInjective(msg_queue_free)
        /\ ToSet(thrown) \cap ToSet(msg_queue_free) = {}
    BY <1>2 DEF TypeOK, Placed
  <2> QED
    BY <1>1, <1>2, <2>1, ConcatLemma
<1>4. content' \in [Slots -> {<<>>} \cup (Senders \X (0 .. Numbers))]
  BY <1>1 DEF TypeOK
<1>5. \A t \in Threads :
        /\ pc[t] = "sendwait" => pc'[t] = "sendwoken"
        /\ pc[t] = "recvwait" => pc'[t] = "recvwoken"
        /\ pc[t] \notin {"sendwait", "recvwait"} => pc'[t] = pc[t]
  BY <1>1 DEF Woken
<1>6. /\ pc' \in [Threads -> {"idle", "sendwait", "sendwoken", "sendcopy", "urgentcopy",
                              "recvwait", "recvwoken", "recvcopy"}]
      /\ error' \in [Threads -> {"OK", "TIMEOUT", "ERROR"}]
  BY <1>1 DEF TypeOK, Woken
<1>7. /\ \A u \in Senders : pc'[u] \notin {"recvwait", "recvwoken", "recvcopy"}
      /\ \A u \in Receivers : pc'[u] \in {"idle", "recvwait", "recvwoken", "recvcopy"}
      /\ \A u \in Threads : held'[u] # NoSlot <=> pc'[u] \in {"sendcopy", "urgentcopy", "recvcopy"}
  BY <1>1, <1>5 DEF TypeOK, Threads
<1>8. /\ {u \in Receivers : pc'[u] = "recvwait"} = {}
      /\ {u \in Senders : pc'[u] = "sendwait"} = {}
  BY <1>5 DEF Threads
<1>9. TypeOK'
  BY <1>1, <1>3, <1>4, <1>6, <1>7, <1>8, EmptyLemma DEF TypeOK
<1>10. Placed'
  BY <1>1, <1>3, <1>5, EmptyLemma DEF Placed
<1> QED
  BY <1>9, <1>10

\* Every step keeps every slot in one place.
LEMMA NextPlaced ==
    ASSUME QueueAssumption, TypeOK, Placed, [Next]_vars
    PROVE  TypeOK' /\ Placed'
<1>1. ASSUME NEW t \in Senders, SenderStep(t) PROVE TypeOK' /\ Placed'
  BY <1>1, SendStep, LinkStep DEF SenderStep, SendLink, UrgentLink
<1>2. ASSUME NEW t \in Receivers, ReceiverStep(t) PROVE TypeOK' /\ Placed'
  BY <1>2, ReceiveStep, ReleaseStep DEF ReceiverStep
<1>3. CASE UNCHANGED vars
  BY <1>3 DEF vars, lists, waits, TypeOK, Placed
<1> QED
  BY <1>1, <1>2, <1>3, TimeOutStep, ResetStep DEF Next

\* A slot that is in one place is in it once.
LEMMA OneUser ==
    ASSUME QueueAssumption, TypeOK, Placed, NEW slot \in Slots
    PROVE  Users(slot) = 1
<1> DEFINE F == {i \in DOMAIN msg_queue_free : msg_queue_free[i] = slot}
           Q == {i \in DOMAIN msg_queue : msg_queue[i] = slot}
           H == {t \in Threads : held[t] = slot}
<1>1. ASSUME NEW i \in F PROVE F = {i}
  BY DEF Placed, IsInjective
<1>2. ASSUME NEW i \in Q PROVE Q = {i}
  BY DEF Placed, IsInjective
<1>3. ASSUME NEW t \in H PROVE H = {t}
  <2>1. held[t] = slot /\ held[t] # NoSlot
    BY DEF QueueAssumption
  <2> QED
    BY <2>1 DEF Placed
<1>4. /\ slot \in ToSet(msg_queue_free) <=> F # {}
      /\ slot \in ToSet(msg_queue) <=> Q # {}
  BY DEF ToSet
<1>5. /\ F # {} => Q = {} /\ H = {}
      /\ Q # {} => F = {} /\ H = {}
      /\ F = {} /\ Q = {} => H # {}
  BY <1>4 DEF Placed
<1>6. Cardinality({}) = 0 /\ \A x : Cardinality({x}) = 1
  BY FS_EmptySet, FS_Singleton
<1>7. Users(slot) = Cardinality(F) + Cardinality(Q) + Cardinality(H)
  BY DEF Users
<1> HIDE DEF F, Q, H
<1>8. /\ F # {} => Cardinality(F) = 1
      /\ Q # {} => Cardinality(Q) = 1
      /\ H # {} => Cardinality(H) = 1
      /\ F = {} => Cardinality(F) = 0
      /\ Q = {} => Cardinality(Q) = 0
      /\ H = {} => Cardinality(H) = 0
  BY <1>1, <1>2, <1>3, <1>6, Zenon
<1> QED
  BY <1>5, <1>7, <1>8

\* THEOREM: SlotsConserved of rt_mq_*: however sends, receives, timeouts and
\* resets of any number of threads overlap, every slot of the pool is free, in the
\* list or with one thread, and the count receivers test is the list's length.
THEOREM SlotsAreConserved == Spec => []SlotsConserved
<1>1. Init => TypeOK /\ Placed
  BY InitPlaced, QueueAssumption
<1>2. TypeOK /\ Placed /\ [Next]_vars => TypeOK' /\ Placed'
  BY NextPlaced, QueueAssumption
<1>3. TypeOK /\ Placed => SlotsConserved
  BY OneUser, QueueAssumption DEF SlotsConserved, Placed
<1> QED
  BY <1>1, <1>2, <1>3, PTL DEF Spec

-----------------------------------------------------------------------------
(* Wakeups.                                                                *)

\* Threads are counted by sets of them.
LEMMA CountThreads ==
    ASSUME QueueAssumption, NEW A \in SUBSET Threads, NEW t
    PROVE  /\ IsFiniteSet(A) /\ Cardinality(A) \in Nat
           /\ Cardinality(A \ {t}) \in Nat
           /\ Cardinality(A \ {t}) = Cardinality(A) - 1 \/ Cardinality(A \ {t}) = Cardinality(A)
           /\ t \notin A => Cardinality(A \cup {t}) = Cardinality(A) + 1
<1>1. IsFiniteSet(Threads)
  BY FS_Union, Zenon DEF Threads, QueueAssumption
<1>2. IsFiniteSet(A)
  BY <1>1, FS_Subset
<1>3. Cardinality(A) \in Nat
  BY <1>2, FS_CardinalityType
<1>4. IsFiniteSet(A \ {t}) /\ Cardinality(A \ {t}) = IF t \in A THEN Cardinality(A) - 1 ELSE Cardinality(A)
  BY <1>2, FS_RemoveElement
<1>5. Cardinality(A \cup {t}) = IF t \in A THEN Cardinality(A) ELSE Cardinality(A) + 1
  BY <1>2, FS_AddElement
<1>6. Cardinality(A \ {t}) \in Nat
  BY <1>4, FS_CardinalityType
<1> QED
  BY <1>2, <1>3, <1>4, <1>5, <1>6

LEMMA SendWakes ==
    ASSUME QueueAssumption, TypeOK, Placed, NoLostWakeup, NEW t \in Senders,
           Send(t) \/ SendResumed(t) \/ Urgent(t)
    PROVE  NoLostWakeup'
<1> DEFINE R == WokenThreads("recvwoken")
           S == WokenThreads("sendwoken")
<1>1. /\ t \in Threads /\ pc[t] # "recvwoken"
      /\ \A u \in Threads : u # t => pc'[u] = pc[u] /\ error'[u] = error[u]
      /\ pc'[t] \in {"sendcopy", "urgentcopy", "idle", "sendwait"}
      /\ entry' = entry /\ suspend_thread' = suspend_thread
  BY DEF Send, SendResumed, Urgent, TrySend, TypeOK, Threads, waits
<1>2. R' = R
  BY <1>1 DEF WokenThreads
<1>3. S' = S \ {t}
  BY <1>1 DEF WokenThreads
<1>4. \/ msg_queue_free' = msg_queue_free /\ t \notin S
         /\ suspend_sender_thread' = suspend_sender_thread
      \/ msg_queue_free' = <<>>
      \/ /\ msg_queue_free # <<>> /\ msg_queue_free' = Tail(msg_queue_free)
         /\ suspend_sender_thread' = suspend_sender_thread
  BY DEF Send, SendResumed, Urgent, TrySend, WokenThreads, waits
<1>5. /\ Cardinality(S) \in Nat /\ Cardinality(S') \in Nat
      /\ Cardinality(S') = Cardinality(S) - 1 \/ Cardinality(S') = Cardinality(S)
      /\ t \notin S => Cardinality(S') = Cardinality(S)
  <2>1. S \in SUBSET Threads /\ (t \notin S => S' = S)
    BY <1>3 DEF WokenThreads
  <2> HIDE DEF S
  <2> QED
    BY <1>3, <2>1, CountThreads
<1>6. suspend_sender_thread' # <<>> => Len(msg_queue_free') <= Cardinality(S')
  <2>1. msg_queue_free # <<>> => Len(Tail(msg_queue_free)) = Len(msg_queue_free) - 1
    BY DEF TypeOK
  <2>2. Len(msg_queue_free) \in Nat
    BY DEF TypeOK
  <2>3. suspend_sender_thread # <<>> => Len(msg_queue_free) <= Cardinality(S)
    BY DEF NoLostWakeup
  <2> HIDE DEF S
  <2> QED
    BY <1>4, <1>5, <2>1, <2>2, <2>3
<1> QED
  BY <1>1, <1>2, <1>6 DEF NoLostWakeup

LEMMA LinkWakes ==
    ASSUME QueueAssumption, TypeOK, Placed, NoLostWakeup, NEW t \in Senders,
           NEW where \in {"sendcopy", "urgentcopy"}, Link(t, where)
    PROVE  NoLostWakeup'
<1> DEFINE R == WokenThreads("recvwoken")
           S == WokenThreads("sendwoken")
           first == Head(suspend_thread)
<1>1. /\ t \in Threads /\ pc[t] \in {"sendcopy", "urgentcopy", "recvcopy"}
      /\ held' = [held EXCEPT ![t] = NoSlot] /\ ReturnAndWake(t, suspend_thread)
      /\ entry' = entry + 1 /\ entry \in Nat
      /\ suspend_thread' = Rest(suspend_thread)
      /\ UNCHANGED <<msg_queue_free, suspend_sender_thread, error>>
  BY DEF Link, Threads, TypeOK
<1>2. CASE suspend_thread = <<>>
  <2>1. pc'[t] = "idle" /\ \A u \in Threads : u # t => pc'[u] = pc[u]
    BY <1>1, <1>2, WakeReceiver
  <2>2. S' = S
    BY <1>1, <2>1 DEF WokenThreads
  <2>3. suspend_thread' = <<>>
    BY <1>1, <1>2 DEF Rest
  <2> QED
    BY <1>1, <2>2, <2>3 DEF NoLostWakeup
<1>3. CASE suspend_thread # <<>>
  <2>1. /\ first \in Receivers /\ pc[first] = "recvwait"
        /\ pc'[first] = "recvwoken" /\ first # t /\ pc'[t] = "idle"
        /\ \A u \in Threads \ {t, first} : pc'[u] = pc[u]
    BY <1>1, <1>3, WakeReceiver
  <2>2. first \in Threads /\ error[first] = "OK"
    BY <2>1 DEF Placed, Threads
  <2> HIDE DEF first
  <2>3. S' = S
    BY <1>1, <2>1, <2>2 DEF WokenThreads
  <2>4. R' = R \cup {first} /\ first \notin R
    BY <1>1, <2>1, <2>2 DEF WokenThreads
  <2>5. Cardinality(R') = Cardinality(R) + 1 /\ Cardinality(R) \in Nat
    <3>1. R \in SUBSET Threads
      BY DEF WokenThreads
    <3> HIDE DEF R
    <3> QED
      BY <2>4, <3>1, CountThreads
  <2>6. entry' <= Cardinality(R')
    <3>1. entry <= Cardinality(R)
      BY <1>3 DEF NoLostWakeup
    <3> HIDE DEF R
    <3> QED
      BY <1>1, <2>5, <3>1
  <2> QED
    BY <1>1, <2>3, <2>6 DEF NoLostWakeup
<1> QED
  BY <1>2, <1>3

LEMMA ReceiveWakes ==
    ASSUME QueueAssumption, TypeOK, Placed, NoLostWakeup, NEW t \in Receivers,
           Receive(t) \/ ReceiveResumed(t)
    PROVE  NoLostWakeup'
<1> DEFINE R == WokenThreads("recvwoken")
           S == WokenThreads("sendwoken")
<1>1. /\ t \in Threads /\ pc[t] # "sendwoken"
      /\ \A u \in Threads : u # t => pc'[u] = pc[u] /\ error'[u] = error[u]
      /\ pc'[t] \in {"recvcopy", "idle", "recvwait"}
      /\ msg_queue_free' = msg_queue_free /\ suspend_sender_thread' = suspend_sender_thread
  BY DEF Receive, ReceiveResumed, TryReceive, TypeOK, Threads, waits
<1>2. S' = S
  BY <1>1 DEF WokenThreads
<1>3. R' = R \ {t}
  BY <1>1 DEF WokenThreads
<1>4. \/ entry' = entry /\ t \notin R /\ suspend_thread' = suspend_thread
      \/ entry' = 0
      \/ entry > 0 /\ entry' = entry - 1 /\ suspend_thread' = suspend_thread
  BY DEF Receive, ReceiveResumed, TryReceive, WokenThreads, waits
<1>5. /\ Cardinality(R) \in Nat /\ Cardinality(R') \in Nat
      /\ Cardinality(R') = Cardinality(R) - 1 \/ Cardinality(R') = Cardinality(R)
      /\ t \notin R => Cardinality(R') = Cardinality(R)
  <2>1. R \in SUBSET Threads /\ (t \notin R => R' = R)
    BY <1>3 DEF WokenThreads
  <2> HIDE DEF R
  <2> QED
    BY <1>3, <2>1, CountThreads
<1>6. suspend_thread' # <<>> => entry' <= Cardinality(R')
  <2>1. entry \in Nat
    BY DEF TypeOK
  <2>2. suspend_thread # <<>> => entry <= Cardinality(R)
    BY DEF NoLostWakeup
  <2> HIDE DEF R
  <2> QED
    BY <1>4, <1>5, <2>1, <2>2
<1> QED
  BY <1>1, <1>2, <1>6 DEF NoLostWakeup

LEMMA ReleaseWakes ==
    ASSUME QueueAssumption, TypeOK, Placed, NoLostWakeup, NEW t \in Receivers, Release(t)
    PROVE  NoLostWakeup'
<1> DEFINE R == WokenThreads("recvwoken")
           S == WokenThreads("sendwoken")
           first == Head(suspend_sender_thread)
           slot == held[t]
<1>1. /\ t \in Threads /\ pc[t] \in {"sendcopy", "urgentcopy", "recvcopy"}
      /\ held' = [held EXCEPT ![t] = NoSlot] /\ ReturnAndWake(t, suspend_sender_thread)
      /\ msg_queue_free' = <<slot>> \o msg_queue_free
      /\ suspend_sender_thread' = Rest(suspend_sender_thread)
      /\ UNCHANGED <<entry, suspend_thread, error>>
  BY DEF Release, Threads, TypeOK
<1>2. Len(msg_queue_free') = Len(msg_queue_free) + 1 /\ Len(msg_queue_free) \in Nat
  <2>1. slot \in Slots
    BY <1>1 DEF TypeOK
  <2> HIDE DEF slot
  <2> QED
    BY <1>1, <2>1 DEF TypeOK
<1>3. CASE suspend_sender_thread = <<>>
  <2>1. pc'[t] = "idle" /\ \A u \in Threads : u # t => pc'[u] = pc[u]
    BY <1>1, <1>3, WakeSender
  <2>2. R' = R
    BY <1>1, <2>1 DEF WokenThreads
  <2>3. suspend_sender_thread' = <<>>
    BY <1>1, <1>3 DEF Rest
  <2> QED
    BY <1>1, <2>2, <2>3 DEF NoLostWakeup
<1>4. CASE suspend_sender_thread # <<>>
  <2>1. /\ first \in Senders /\ pc[first] = "sendwait"
        /\ pc'[first] = "sendwoken" /\ first # t /\ pc'[t] = "idle"
        /\ \A u \in Threads \ {t, first} : pc'[u] = pc[u]
    BY <1>1, <1>4, WakeSender
  <2>2. first \in Threads /\ error[first] = "OK"
    BY <2>1 DEF Placed, Threads
  <2> HIDE DEF first
  <2>3. R' = R
    BY <1>1, <2>1, <2>2 DEF WokenThreads
  <2>4. S' = S \cup {first} /\ first \notin S
    BY <1>1, <2>1, <2>2 DEF WokenThreads
  <2>5. Cardinality(S') = Cardinality(S) + 1 /\ Cardinality(S) \in Nat
    <3>1. S \in SUBSET Threads
      BY DEF WokenThreads
    <3> HIDE DEF S
    <3> QED
      BY <2>4, <3>1, CountThreads
  <2>6. Len(msg_queue_free') <= Cardinality(S')
    <3>1. Len(msg_queue_free) <= Cardinality(S)
      BY <1>4 DEF NoLostWakeup
    <3> HIDE DEF S
    <3> QED
      BY <1>2, <2>5, <3>1
  <2> QED
    BY <1>1, <2>3, <2>6 DEF NoLostWakeup
<1> QED
  BY <1>3, <1>4

LEMMA TimeOutWakes ==
    ASSUME QueueAssumption, TypeOK, Placed, NoLostWakeup, NEW t \in Threads, TimeOut(t)
    PROVE  NoLostWakeup'
<1>1. /\ pc[t] \in {"sendwait", "recvwait"} /\ error' = [error EXCEPT ![t] = "TIMEOUT"]
      /\ suspend_thread' = RemoveFirst(suspend_thread, t)
      /\ suspend_sender_thread' = RemoveFirst(suspend_sender_thread, t)
      /\ pc' = [pc EXCEPT ![t] = Woken(pc[t])]
      /\ UNCHANGED <<msg_queue_free, entry>>
  BY DEF TimeOut, Without, lists
<1>2. suspend_thread = <<>> => suspend_thread' = <<>>
  <2>1. suspend_thread \in Seq(Receivers) /\ IsInjective(suspend_thread)
    BY DEF TypeOK
  <2>2. suspend_thread' \in Seq(Receivers) /\ ToSet(suspend_thread') = ToSet(suspend_thread) \ {t}
    BY <1>1, <2>1, RemoveLemma
  <2> QED
    BY <2>1, <2>2, NonEmptyLemma
<1>3. suspend_sender_thread = <<>> => suspend_sender_thread' = <<>>
  <2>1. suspend_sender_thread \in Seq(Senders) /\ IsInjective(suspend_sender_thread)
    BY DEF TypeOK
  <2>2. /\ suspend_sender_thread' \in Seq(Senders)
        /\ ToSet(suspend_sender_thread') = ToSet(suspend_sender_thread) \ {t}
    BY <1>1, <2>1, RemoveLemma
  <2> QED
    BY <2>1, <2>2, NonEmptyLemma
<1>4. /\ \A u \in Threads : u # t => pc'[u] = pc[u] /\ error'[u] = error[u]
      /\ error'[t] = "TIMEOUT"
  BY <1>1 DEF TypeOK
<1>5. /\ WokenThreads("recvwoken")' = WokenThreads("recvwoken")
      /\ WokenThreads("sendwoken")' = WokenThreads("sendwoken")
  BY <1>1, <1>4 DEF WokenThreads
<1> QED
  BY <1>1, <1>2, <1>3, <1>5 DEF NoLostWakeup

LEMMA NextWakes ==
    ASSUME QueueAssumption, TypeOK, Placed, NoLostWakeup, [Next]_vars
    PROVE  NoLostWakeup'
<1>1. ASSUME NEW t \in Senders, SenderStep(t) PROVE NoLostWakeup'
  BY <1>1, SendWakes, LinkWakes DEF SenderStep, SendLink, UrgentLink
<1>2. ASSUME NEW t \in Receivers, ReceiverStep(t) PROVE NoLostWakeup'
  BY <1>2, ReceiveWakes, ReleaseWakes DEF ReceiverStep
<1>3. CASE Reset
  BY <1>3 DEF Reset, NoLostWakeup
<1>4. CASE UNCHANGED vars
  BY <1>4 DEF vars, lists, waits, NoLostWakeup, WokenThreads
<1> QED
  BY <1>1, <1>2, <1>3, <1>4, TimeOutWakes DEF Next

\* THEOREM: NoLostWakeup of rt_mq_*: for any number of senders and receivers, no
\* message waits for a suspended receiver, and no free slot for a suspended
\* sender, without a woken thread on its way to it.
THEOREM WakeupsAreNotLost == Spec => []NoLostWakeup
<1>1. Init => TypeOK /\ Placed /\ NoLostWakeup
  BY InitPlaced, QueueAssumption DEF Init, NoLostWakeup
<1>2. TypeOK /\ Placed /\ NoLostWakeup /\ [Next]_vars => TypeOK' /\ Placed' /\ NoLostWakeup'
  BY NextPlaced, NextWakes, QueueAssumption
<1> QED
  BY <1>1, <1>2, PTL DEF Spec

-----------------------------------------------------------------------------
(* The order of the messages.                                              *)

\* A number and its remainder.
LEMMA DivMod ==
    ASSUME NEW n \in Nat \ {0}, NEW a \in Nat
    PROVE  \E q \in Nat, r \in 0 .. n - 1 : a = n * q + r /\ a % n = r
<1>1. a \div n \in Nat /\ a % n \in 0 .. n - 1 /\ a = (n * (a \div n)) + (a % n)
  OBVIOUS
<1> QED
  BY <1>1

LEMMA ModUnique ==
    ASSUME NEW n \in Nat \ {0}, NEW q \in Nat, NEW r \in 0 .. n - 1
    PROVE  (n * q + r) % n = r
  OBVIOUS

LEMMA ModPlus ==
    ASSUME NEW n \in Nat \ {0}, NEW a \in Nat, NEW b \in Nat
    PROVE  ((a % n) + b) % n = (a + b) % n
<1>1. PICK q \in Nat, r \in 0 .. n - 1 : a = n * q + r /\ a % n = r
  BY DivMod
<1>2. PICK p \in Nat, u \in 0 .. n - 1 : r + b = n * p + u /\ (r + b) % n = u
  BY DivMod
<1>3. a + b = n * (q + p) + u /\ q + p \in Nat
  BY <1>1, <1>2
<1>4. (n * (q + p) + u) % n = u
  BY <1>3, ModUnique
<1> QED
  BY <1>1, <1>2, <1>3, <1>4

\* Moving every place of a set by the same amount leaves as many.
LEMMA ShiftLemma ==
    ASSUME NEW A, IsFiniteSet(A), A \subseteq Int, NEW d \in Int
    PROVE  Cardinality({i + d : i \in A}) = Cardinality(A)
<1> DEFINE B == {i + d : i \in A}
           f == [i \in A |-> i + d]
<1>1. f \in [A -> B] /\ IsInjective(f) /\ \A j \in B : \E i \in A : f[i] = j
  BY DEF IsInjective
<1>2. ExistsBijection(A, B)
  BY <1>1 DEF ExistsBijection, Bijection, Injection, Surjection
<1> QED
  BY <1>2, FS_Bijection

\* What InOrder says of one sender.
OrderedFor(s) ==
    /\ made[s] = (taken[s] + Cardinality(Mine(s))) % Numbers
    /\ \A i \in Mine(s) : content[msg_queue[i]][2] = (taken[s] + Before(s, i)) % Numbers

LEMMA MineLemma ==
    ASSUME TypeOK, NEW s
    PROVE  /\ Mine(s) \subseteq 1 .. Len(msg_queue) /\ Len(msg_queue) \in Nat
           /\ \A M \in SUBSET Mine(s) : IsFiniteSet(M) /\ Cardinality(M) \in Nat
<1>1. Len(msg_queue) \in Nat /\ DOMAIN msg_queue = 1 .. Len(msg_queue)
  BY DEF TypeOK
<1>2. Mine(s) \subseteq 1 .. Len(msg_queue)
  BY <1>1 DEF Mine
<1>3. IsFiniteSet(1 .. Len(msg_queue))
  BY <1>1, FS_Interval
<1>4. ASSUME NEW M \in SUBSET Mine(s) PROVE IsFiniteSet(M) /\ Cardinality(M) \in Nat
  BY <1>2, <1>3, FS_Subset, FS_CardinalityType
<1> QED
  BY <1>1, <1>2, <1>4

\* How many places of a set are before one, and a set of places moved by d.
Rank(M, i) == Cardinality({j \in M : j < i})
Moved(M, d) == {i + d : i \in M}

LEMMA MovedLemma ==
    ASSUME NEW M, IsFiniteSet(M), M \subseteq Int, NEW d \in Int
    PROVE  /\ Cardinality(Moved(M, d)) = Cardinality(M)
           /\ \A i \in M : Rank(Moved(M, d), i + d) = Rank(M, i)
<1>1. Cardinality(Moved(M, d)) = Cardinality(M)
  BY ShiftLemma DEF Moved
<1>2. ASSUME NEW i \in M
      PROVE  Rank(Moved(M, d), i + d) = Rank(M, i)
  <2> DEFINE A == {j \in M : j < i}
  <2>1. IsFiniteSet(A) /\ A \subseteq Int
    BY FS_Subset
  <2>2. {j \in Moved(M, d) : j < i + d} = {j + d : j \in A}
    BY DEF Moved
  <2> HIDE DEF A
  <2>3. Cardinality({j + d : j \in A}) = Cardinality(A)
    BY <2>1, ShiftLemma
  <2> QED
    BY <2>2, <2>3 DEF A, Rank
<1> QED
  BY <1>1, <1>2

\* All of them move, and none is made or taken.
LEMMA KeptOrder ==
    ASSUME TypeOK, NEW s \in Senders, OrderedFor(s), NEW d \in Int,
           Mine(s)' = Moved(Mine(s), d),
           \A i \in Mine(s) : content'[msg_queue'[i + d]] = content[msg_queue[i]],
           made'[s] = made[s], taken'[s] = taken[s]
    PROVE  OrderedFor(s)'
<1>1. /\ Cardinality(Mine(s)') = Cardinality(Mine(s))
      /\ \A i \in Mine(s) : Rank(Mine(s)', i + d) = Rank(Mine(s), i)
  <2>1. Mine(s) \subseteq Int /\ IsFiniteSet(Mine(s))
    BY MineLemma
  <2> QED
    BY <2>1, MovedLemma, Zenon
<1>2. ASSUME NEW k \in Mine(s)'
      PROVE  content'[msg_queue'[k]][2] = (taken'[s] + Before(s, k)') % Numbers
  <2>1. PICK i \in Mine(s) : k = i + d
    BY DEF Moved
  <2>2. Before(s, k)' = Before(s, i)
    BY <1>1, <2>1 DEF Before, Rank
  <2> QED
    BY <2>1, <2>2 DEF OrderedFor
<1> QED
  BY <1>1, <1>2 DEF OrderedFor

\* One more is made, and linked behind the others.
LEMMA LinkedOrder ==
    ASSUME QueueAssumption, TypeOK, NEW s \in Senders, OrderedFor(s),
           NEW k \in Nat, \A i \in Mine(s) : i < k,
           Mine(s)' = Mine(s) \cup {k},
           \A i \in Mine(s) : content'[msg_queue'[i]] = content[msg_queue[i]],
           content'[msg_queue'[k]][2] = made[s],
           made'[s] = (made[s] + 1) % Numbers, taken'[s] = taken[s]
    PROVE  OrderedFor(s)'
<1>1. /\ Mine(s) \subseteq Int /\ IsFiniteSet(Mine(s)) /\ Cardinality(Mine(s)) \in Nat
      /\ k \notin Mine(s)
  BY MineLemma
<1>2. Cardinality(Mine(s)') = Cardinality(Mine(s)) + 1
  BY <1>1, FS_AddElement
<1>3. Numbers \in Nat \ {0} /\ taken[s] \in Nat
  BY DEF QueueAssumption, TypeOK
<1>4. made[s] = (taken[s] + Cardinality(Mine(s))) % Numbers
  BY DEF OrderedFor
<1>5. made'[s] = (taken'[s] + Cardinality(Mine(s)')) % Numbers
  <2>1. (made[s] + 1) % Numbers = (taken[s] + Cardinality(Mine(s)) + 1) % Numbers
    BY <1>1, <1>3, <1>4, ModPlus
  <2> QED
    BY <1>1, <1>2, <1>3, <2>1
<1>6. ASSUME NEW i \in Mine(s)'
      PROVE  content'[msg_queue'[i]][2] = (taken'[s] + Before(s, i)') % Numbers
  <2>1. Before(s, i)' = Cardinality({j \in Mine(s)' : j < i})
    BY DEF Before
  <2>2. CASE i = k
    <3>1. {j \in Mine(s)' : j < i} = Mine(s)
      BY <1>1, <2>2
    <3> QED
      BY <1>4, <2>1, <2>2, <3>1
  <2>3. CASE i # k
    <3>1. i \in Mine(s) /\ {j \in Mine(s)' : j < i} = {j \in Mine(s) : j < i}
      BY <1>1, <2>3
    <3>2. content[msg_queue[i]][2] = (taken[s] + Before(s, i)) % Numbers
      BY <3>1 DEF OrderedFor
    <3> QED
      BY <2>1, <3>1, <3>2 DEF Before
  <2> QED
    BY <2>2, <2>3
<1> QED
  BY <1>5, <1>6 DEF OrderedFor

\* The first is taken.
LEMMA TakenOrder ==
    ASSUME QueueAssumption, TypeOK, NEW s \in Senders, OrderedFor(s),
           1 \in Mine(s), Mine(s)' = Moved(Mine(s) \ {1}, -1),
           \A i \in Mine(s) \ {1} : content'[msg_queue'[i - 1]] = content[msg_queue[i]],
           made'[s] = made[s],
           taken'[s] = (content[msg_queue[1]][2] + 1) % Numbers
    PROVE  OrderedFor(s)'
<1> DEFINE M == Mine(s) \ {1}
<1>1. /\ Mine(s) \subseteq Int /\ IsFiniteSet(Mine(s)) /\ Cardinality(Mine(s)) \in Nat
      /\ \A i \in Mine(s) : i >= 1
  BY MineLemma
<1>2. /\ Cardinality(Mine(s)') = Cardinality(M)
      /\ \A i \in M : Rank(Mine(s)', i - 1) = Rank(M, i)
  <2> DEFINE d == -1
  <2>1. M \subseteq Int /\ IsFiniteSet(M) /\ d \in Int
    BY <1>1, FS_Subset
  <2>4. \A i \in M : i - 1 = i + d
    BY <2>1
  <2>2. Mine(s)' = Moved(M, d)
    OBVIOUS
  <2> HIDE DEF M, d
  <2>3. /\ Cardinality(Mine(s)') = Cardinality(M)
        /\ \A i \in M : Rank(Mine(s)', i + d) = Rank(M, i)
    BY <2>1, <2>2, MovedLemma, Zenon
  <2> QED
    BY <2>3, <2>4
<1>3. Numbers \in Nat \ {0} /\ taken[s] \in 0 .. Numbers - 1
  BY DEF QueueAssumption, TypeOK
<1>4. content[msg_queue[1]][2] = taken[s]
  <2>1. Before(s, 1) = 0
    <3>1. {j \in Mine(s) : j < 1} = {}
      BY <1>1
    <3> QED
      BY <3>1, FS_EmptySet DEF Before
  <2> QED
    BY <1>3, <2>1 DEF OrderedFor
<1>5. taken'[s] = (taken[s] + 1) % Numbers
  BY <1>4
<1>6. Cardinality(M) \in Nat /\ Cardinality(M) = Cardinality(Mine(s)) - 1
  BY <1>1, FS_RemoveElement, FS_CardinalityType
<1>7. ASSUME NEW n \in Nat
      PROVE  (taken'[s] + n) % Numbers = (taken[s] + (n + 1)) % Numbers
  <2> DEFINE a == taken[s] + 1
  <2>1. ((a % Numbers) + n) % Numbers = (a + n) % Numbers
    <3>1. a \in Nat
      BY <1>3
    <3> HIDE DEF a
    <3> QED
      BY <1>3, <3>1, ModPlus
  <2>2. (taken[s] + 1) + n = taken[s] + (n + 1)
    BY <1>3
  <2> QED
    BY <1>5, <2>1, <2>2
<1>8. made'[s] = (taken'[s] + Cardinality(Mine(s)')) % Numbers
  <2>1. made[s] = (taken[s] + Cardinality(Mine(s))) % Numbers
    BY DEF OrderedFor
  <2>2. Cardinality(Mine(s)) = Cardinality(M) + 1
    BY <1>1, <1>6
  <2> HIDE DEF M
  <2> QED
    BY <1>2, <1>6, <1>7, <2>1, <2>2
<1>9. ASSUME NEW k \in Mine(s)'
      PROVE  content'[msg_queue'[k]][2] = (taken'[s] + Before(s, k)') % Numbers
  <2>1. PICK i \in M : k = i - 1
    BY <1>1 DEF Moved
  <2> DEFINE A == {j \in M : j < i}
  <2>2. Before(s, k)' = Cardinality(A)
    BY <1>2, <2>1 DEF Before, Rank
  <2>3. {j \in Mine(s) : j < i} = A \cup {1} /\ 1 \notin A
    BY <1>1
  <2>4. IsFiniteSet(A) /\ Cardinality(A) \in Nat
    BY MineLemma, A \in SUBSET Mine(s)
  <2>5. Before(s, i) = Cardinality(A) + 1
    <3>1. Before(s, i) = Cardinality(A \cup {1})
      BY <2>3 DEF Before
    <3> HIDE DEF A
    <3> QED
      BY <2>3, <2>4, <3>1, FS_AddElement
  <2>6. content[msg_queue[i]][2] = (taken[s] + Before(s, i)) % Numbers
    BY DEF OrderedFor
  <2>7. content'[msg_queue'[k]] = content[msg_queue[i]]
    BY <2>1
  <2> HIDE DEF A, M
  <2> QED
    BY <1>7, <2>2, <2>4, <2>5, <2>6, <2>7
<1> QED
  BY <1>8, <1>9 DEF OrderedFor

LEMMA SteadyOrder ==
    ASSUME TypeOK, InOrder, UNCHANGED <<msg_queue, made, taken>>,
           \A slot \in ToSet(msg_queue) : content'[slot] = content[slot]
    PROVE  InOrder'
<1>1. \A i \in DOMAIN msg_queue : content'[msg_queue[i]] = content[msg_queue[i]]
  BY DEF ToSet
<1>2. ASSUME NEW s \in Senders PROVE OrderedFor(s)'
  <2>1. Mine(s)' = Mine(s)
    BY <1>1 DEF Mine
  <2>2. \A i \in Mine(s) : i \in DOMAIN msg_queue
    BY DEF Mine
  <2>3. OrderedFor(s)
    BY DEF InOrder, OrderedFor
  <2> QED
    BY <1>1, <2>1, <2>2, <2>3 DEF OrderedFor, Before
<1> QED
  BY <1>2 DEF InOrder, OrderedFor

LEMMA LinkOrdered ==
    ASSUME QueueAssumption, TypeOK, Placed, InOrder, NEW t \in Senders,
           NEW where \in {"sendcopy", "urgentcopy"}, Link(t, where)
    PROVE  InOrder'
<1> DEFINE slot == held[t]
           n == Len(msg_queue)
           one == <<slot>>
<1>1. /\ pc[t] = where /\ Write(t, slot, where)
      /\ msg_queue' = IF where = "urgentcopy" THEN one \o msg_queue
                                              ELSE Append(msg_queue, slot)
      /\ taken' = taken
  BY DEF Link
<1>2. slot \in Slots /\ slot \notin ToSet(msg_queue)
  BY <1>1 DEF TypeOK, Placed, Threads
<1>3. one \in Seq(Slots) /\ Len(one) = 1 /\ one[1] = slot
  BY <1>2
<1> HIDE DEF slot, one
<1>4. /\ n \in Nat /\ DOMAIN msg_queue = 1 .. n
      /\ \A i \in 1 .. n : msg_queue[i] # slot /\ msg_queue[i] \in Slots
      /\ \A s : Mine(s) \subseteq 1 .. n
  <2>1. msg_queue \in Seq(Slots)
    BY DEF TypeOK
  <2>2. n \in Nat /\ DOMAIN msg_queue = 1 .. n /\ \A i \in 1 .. n : msg_queue[i] \in Slots
    BY <2>1
  <2>3. \A i \in 1 .. n : msg_queue[i] # slot
    BY <1>2, <2>2 DEF ToSet
  <2> QED
    BY <2>2, <2>3 DEF Mine
<1>5. Numbers \in Nat \ {0} /\ made \in [Senders -> 0 .. Numbers - 1] /\ made[t] # Numbers
      /\ content \in [Slots -> {<<>>} \cup (Senders \X (0 .. Numbers))]
  BY DEF QueueAssumption, TypeOK
<1>6. /\ \A other \in Slots : other # slot => content'[other] = content[other]
      /\ content'[slot][1] = t
      /\ content'[slot][2] = IF where = "urgentcopy" THEN Numbers ELSE made[t]
      /\ made' = IF where = "urgentcopy" THEN made ELSE [made EXCEPT ![t] = (made[t] + 1) % Numbers]
  <2> DEFINE message == <<t, IF where = "urgentcopy" THEN Numbers ELSE made[t]>>
  <2>1. content' = [content EXCEPT ![slot] = message]
    BY <1>1 DEF Write
  <2>2. message[1] = t /\ message[2] = IF where = "urgentcopy" THEN Numbers ELSE made[t]
    OBVIOUS
  <2> HIDE DEF message
  <2>3. /\ \A other \in Slots : other # slot => content'[other] = content[other]
        /\ content'[slot] = message
    BY <1>2, <1>5, <2>1
  <2>4. made' = IF where = "urgentcopy" THEN made
                ELSE [made EXCEPT ![t] = (made[t] + 1) % Numbers]
    BY <1>1 DEF Write
  <2> QED
    BY <2>2, <2>3, <2>4
<1>7. CASE where = "urgentcopy"
  <2>1. msg_queue' = one \o msg_queue
    BY <1>1, <1>7
  <2>2. /\ DOMAIN msg_queue' = 1 .. n + 1 /\ msg_queue'[1] = slot
        /\ \A i \in 1 .. n : msg_queue'[i + 1] = msg_queue[i]
    <3>1. msg_queue \in Seq(Slots)
      BY DEF TypeOK
    <3> QED
      BY <1>3, <1>4, <2>1, <3>1, OneMore
  <2>3. ASSUME NEW s \in Senders PROVE OrderedFor(s)'
    <3>1. OrderedFor(s)
      BY DEF InOrder, OrderedFor
    <3>2. \A i \in 1 .. n : content'[msg_queue'[i + 1]] = content[msg_queue[i]]
      BY <1>4, <1>6, <2>2
    <3>3. Mine(s)' = Moved(Mine(s), 1)
      <4>1. ASSUME NEW k \in Mine(s)' PROVE k \in Moved(Mine(s), 1)
        <5>1. k \in 1 .. n + 1 /\ k # 1
          BY <1>6, <1>7, <2>2 DEF Mine
        <5>2. k - 1 \in 1 .. n /\ k = (k - 1) + 1
          BY <1>4, <5>1
        <5>3. k - 1 \in Mine(s)
          BY <1>4, <3>2, <5>2 DEF Mine
        <5> QED
          BY <5>2, <5>3 DEF Moved
      <4>2. ASSUME NEW i \in Mine(s) PROVE i + 1 \in Mine(s)'
        <5>1. i \in 1 .. n /\ i + 1 \in 1 .. n + 1
          BY <1>4
        <5> QED
          BY <2>2, <3>2, <5>1 DEF Mine
      <4> QED
        BY <4>1, <4>2 DEF Moved
    <3>4. made'[s] = made[s] /\ taken'[s] = taken[s]
      BY <1>1, <1>6, <1>7
    <3> QED
      BY <1>4, <3>1, <3>2, <3>3, <3>4, KeptOrder
  <2> QED
    BY <2>3 DEF InOrder, OrderedFor
<1>8. CASE where # "urgentcopy"
  <2>1. msg_queue' = Append(msg_queue, slot)
    BY <1>1, <1>8
  <2>2. /\ DOMAIN msg_queue' = 1 .. n + 1 /\ msg_queue'[n + 1] = slot
        /\ \A i \in 1 .. n : msg_queue'[i] = msg_queue[i]
    BY <1>2, <1>4, <2>1 DEF TypeOK
  <2>3. ASSUME NEW s \in Senders PROVE OrderedFor(s)'
    <3>1. OrderedFor(s)
      BY DEF InOrder, OrderedFor
    <3>2. \A i \in 1 .. n : content'[msg_queue'[i]] = content[msg_queue[i]]
      BY <1>4, <1>6, <2>2
    <3>3. \A i \in 1 .. n : i \in Mine(s)' <=> i \in Mine(s)
      BY <1>4, <2>2, <3>2 DEF Mine
    <3>4. n + 1 \in Mine(s)' <=> s = t
      BY <1>4, <1>5, <1>6, <1>8, <2>2 DEF Mine
    <3>5. Mine(s)' \subseteq 1 .. n + 1
      BY <2>2 DEF Mine
    <3>6. CASE s = t
      <4>1. Mine(s)' = Mine(s) \cup {n + 1}
        BY <1>4, <3>3, <3>4, <3>5, <3>6
      <4>2. n + 1 \in Nat /\ \A i \in Mine(s) : i < n + 1
        BY <1>4
      <4>3. content'[msg_queue'[n + 1]][2] = made[s]
        BY <1>6, <1>8, <2>2, <3>6
      <4>4. made'[s] = (made[s] + 1) % Numbers /\ taken'[s] = taken[s]
        BY <1>1, <1>5, <1>6, <1>8, <3>6
      <4>5. \A i \in Mine(s) : content'[msg_queue'[i]] = content[msg_queue[i]]
        BY <1>4, <3>2
      <4> HIDE DEF n
      <4> QED
        BY <3>1, <4>1, <4>2, <4>3, <4>4, <4>5, LinkedOrder
    <3>7. CASE s # t
      <4>1. Mine(s)' = Moved(Mine(s), 0)
        <5>1. Mine(s)' = Mine(s)
          <6>1. \A i \in 1 .. n + 1 : i = n + 1 \/ i \in 1 .. n
            BY <1>4
          <6> QED
            BY <1>4, <3>3, <3>4, <3>5, <3>7, <6>1
        <5> QED
          BY <1>4, <5>1 DEF Moved
      <4>2. \A i \in Mine(s) : content'[msg_queue'[i + 0]] = content[msg_queue[i]]
        BY <1>4, <3>2
      <4>3. made'[s] = made[s] /\ taken'[s] = taken[s]
        BY <1>1, <1>5, <1>6, <1>8, <3>7
      <4> QED
        BY <3>1, <4>1, <4>2, <4>3, KeptOrder
    <3> QED
      BY <3>6, <3>7
  <2> QED
    BY <2>3 DEF InOrder, OrderedFor
<1> QED
  BY <1>7, <1>8

LEMMA UnlinkOrdered ==
    ASSUME QueueAssumption, TypeOK, Placed, InOrder, NEW t \in Receivers,
           NEW limit, TryReceive(t, limit), entry > 0, UNCHANGED <<content, made>>
    PROVE  InOrder'
<1> DEFINE first == Head(msg_queue)
           message == content[first]
           n == Len(msg_queue)
<1>1. /\ held' = [held EXCEPT ![t] = first] /\ msg_queue' = Tail(msg_queue)
      /\ held'[t] = first
      /\ taken' = IF message[2] = Numbers THEN taken
                  ELSE [taken EXCEPT ![message[1]] = (message[2] + 1) % Numbers]
  <2>1. held' = [held EXCEPT ![t] = first] /\ msg_queue' = Tail(msg_queue)
    BY DEF TryReceive, Unlink
  <2>2. held'[t] = first
    BY <2>1 DEF TypeOK, Threads
  <2> QED
    BY <2>1, <2>2 DEF TryReceive
<1>2. /\ n \in Nat \ {0} /\ DOMAIN msg_queue = 1 .. n /\ first = msg_queue[1]
      /\ DOMAIN msg_queue' = 1 .. n - 1
      /\ \A i \in 1 .. n - 1 : msg_queue'[i] = msg_queue[i + 1]
      /\ \A s : Mine(s) \subseteq 1 .. n
  <2>1. msg_queue # <<>> /\ msg_queue \in Seq(Slots)
    BY CountLemma DEF TypeOK
  <2> QED
    BY <1>1, <2>1, MineLemma
<1>3. message \in Senders \X (0 .. Numbers)
  <2>1. first \in ToSet(msg_queue) /\ first \in Slots
    <3>1. 1 \in 1 .. n /\ 1 \in DOMAIN msg_queue /\ msg_queue \in Seq(Slots)
      BY <1>2 DEF TypeOK
    <3> HIDE DEF first, n
    <3>2. first \in ToSet(msg_queue)
      BY <1>2, <3>1 DEF ToSet
    <3>3. first \in Slots
      BY <1>2, <3>1
    <3> QED
      BY <3>2, <3>3
  <2> QED
    BY <2>1 DEF Placed, TypeOK
<1>4. /\ message[1] \in Senders /\ message[2] \in 0 .. Numbers
      /\ message = content[msg_queue[1]]
  BY <1>2, <1>3
<1> HIDE DEF message, n
<1>5. ASSUME NEW s \in Senders PROVE OrderedFor(s)'
  <2>1. OrderedFor(s)
    BY DEF InOrder, OrderedFor
  <2>2. 1 \in Mine(s) <=> message[1] = s /\ message[2] # Numbers
    BY <1>2, <1>4 DEF Mine
  <2>3. Mine(s)' = Moved(Mine(s) \ {1}, -1)
    <3>1. ASSUME NEW k \in Mine(s)' PROVE k \in Moved(Mine(s) \ {1}, -1)
      <4>1. k \in 1 .. n - 1 /\ k + 1 \in 1 .. n /\ k = (k + 1) + (-1) /\ k + 1 # 1
        BY <1>2 DEF Mine
      <4>2. k + 1 \in Mine(s)
        BY <1>2, <4>1 DEF Mine
      <4> QED
        BY <4>1, <4>2 DEF Moved
    <3>2. ASSUME NEW i \in Mine(s) \ {1} PROVE i + (-1) \in Mine(s)'
      <4>1. i \in 1 .. n /\ i + (-1) \in 1 .. n - 1 /\ i = (i + (-1)) + 1
        BY <1>2
      <4>2. msg_queue'[i + (-1)] = msg_queue[i]
        BY <1>2, <4>1
      <4> QED
        BY <1>2, <4>1, <4>2 DEF Mine
    <3> QED
      BY <3>1, <3>2 DEF Moved
  <2>4. ASSUME NEW i \in Mine(s) \ {1}
        PROVE  /\ content'[msg_queue'[i - 1]] = content[msg_queue[i]]
               /\ content'[msg_queue'[i + (-1)]] = content[msg_queue[i]]
    <3>1. i - 1 \in 1 .. n - 1 /\ i = (i - 1) + 1 /\ i + (-1) = i - 1
      BY <1>2
    <3> QED
      BY <1>2, <3>1
  <2>5. made'[s] = made[s]
    OBVIOUS
  <2>6. CASE 1 \in Mine(s)
    <3>1. taken'[s] = (content[msg_queue[1]][2] + 1) % Numbers
      BY <1>1, <1>4, <2>2, <2>6 DEF TypeOK
    <3> QED
      BY <2>1, <2>3, <2>4, <2>5, <2>6, <3>1, TakenOrder
  <2>7. CASE 1 \notin Mine(s)
    <3>1. taken'[s] = taken[s]
      BY <1>1, <1>4, <2>2, <2>7 DEF TypeOK
    <3>2. Mine(s) \ {1} = Mine(s)
      BY <2>7
    <3> QED
      BY <2>1, <2>3, <2>4, <2>5, <3>1, <3>2, KeptOrder
  <2> QED
    BY <2>6, <2>7
<1> QED
  BY <1>5 DEF InOrder, OrderedFor

LEMMA ResetOrdered ==
    ASSUME QueueAssumption, TypeOK, InOrder, Reset
    PROVE  InOrder'
<1>1. msg_queue' = <<>> /\ made' = made /\ taken' = made
  BY DEF Reset
<1>2. ASSUME NEW s \in Senders PROVE OrderedFor(s)'
  <2>1. Mine(s)' = {}
    BY <1>1 DEF Mine
  <2>2. Cardinality(Mine(s)') = 0
    BY <2>1, FS_EmptySet
  <2>3. made[s] \in 0 .. Numbers - 1 /\ Numbers \in Nat \ {0}
    BY DEF TypeOK, QueueAssumption
  <2> QED
    BY <1>1, <2>1, <2>2, <2>3 DEF OrderedFor
<1> QED
  BY <1>2 DEF InOrder, OrderedFor

LEMMA NextOrdered ==
    ASSUME QueueAssumption, TypeOK, Placed, InOrder, [Next]_vars
    PROVE  InOrder'
<1>1. ASSUME NEW t \in Senders, Send(t) \/ SendResumed(t) \/ Urgent(t) PROVE InOrder'
  BY <1>1, SteadyOrder DEF Send, SendResumed, Urgent, lists
<1>2. ASSUME NEW t \in Senders, SendLink(t) \/ UrgentLink(t) PROVE InOrder'
  BY <1>2, LinkOrdered DEF SendLink, UrgentLink
<1>3. ASSUME NEW t \in Receivers, NEW limit, TryReceive(t, limit), UNCHANGED <<content, made>>
      PROVE  InOrder'
  <2>1. CASE entry > 0
    BY <1>3, <2>1, UnlinkOrdered
  <2>2. CASE ~(entry > 0)
    BY <1>3, <2>2, SteadyOrder DEF TryReceive
  <2> QED
    BY <2>1, <2>2
<1>4. ASSUME NEW t \in Receivers, Receive(t) PROVE InOrder'
  BY <1>3, <1>4 DEF Receive
<1>5. ASSUME NEW t \in Receivers, ReceiveResumed(t) PROVE InOrder'
  <2>1. CASE error[t] # "OK"
    BY <1>5, <2>1, SteadyOrder DEF ReceiveResumed
  <2>2. CASE error[t] = "OK"
    BY <1>3, <1>5, <2>2 DEF ReceiveResumed
  <2> QED
    BY <2>1, <2>2
<1>6. ASSUME NEW t \in Receivers, Release(t) PROVE InOrder'
  <2>1. held[t] \notin ToSet(msg_queue) /\ ToSet(msg_queue) \subseteq Slots
    BY DEF Placed, TypeOK, ToSet, Threads
  <2>2. \A slot \in ToSet(msg_queue) : content'[slot] = content[slot]
    BY <1>6, <2>1 DEF Release, TypeOK
  <2> QED
    BY <1>6, <2>2, SteadyOrder DEF Release
<1>7. ASSUME NEW t \in Threads, TimeOut(t) PROVE InOrder'
  BY <1>7, SteadyOrder DEF TimeOut, lists
<1>8. CASE UNCHANGED vars
  BY <1>8, SteadyOrder DEF vars, lists
<1> QED
  BY <1>1, <1>2, <1>4, <1>5, <1>6, <1>7, <1>8, ResetOrdered DEF Next, SenderStep, ReceiverStep

\* THEOREM: InOrder of rt_mq_*: the ordinary messages of each sender are in the
\* list in the order sent with none missing, for any number of senders, urgent
\* messages and resets, and whatever number the messages are counted modulo.
THEOREM MessagesStayInOrder == Spec => []InOrder
<1>1. Init => TypeOK /\ Placed /\ InOrder
  <2> SUFFICES ASSUME Init PROVE InOrder
    BY InitPlaced, QueueAssumption
  <2>1. msg_queue = <<>> /\ \A s \in Senders : made[s] = 0 /\ taken[s] = 0
    BY DEF Init
  <2>2. ASSUME NEW s \in Senders PROVE OrderedFor(s)
    <3>1. Mine(s) = {}
      BY <2>1 DEF Mine
    <3>2. Cardinality(Mine(s)) = 0 /\ Numbers \in Nat \ {0}
      BY <3>1, FS_EmptySet, QueueAssumption DEF QueueAssumption
    <3> QED
      BY <2>1, <3>1, <3>2 DEF OrderedFor
  <2> QED
    BY <2>2 DEF InOrder, OrderedFor
<1>2. TypeOK /\ Placed /\ InOrder /\ [Next]_vars => TypeOK' /\ Placed' /\ InOrder'
  BY NextPlaced, NextOrdered, QueueAssumption
<1> QED
  BY <1>1, <1>2, PTL DEF Spec

=============================================================================
