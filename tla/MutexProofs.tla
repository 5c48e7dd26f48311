---------------------------- MODULE MutexProofs -----------------------------
(***************************************************************************)
(* What holds of the scheduler and of the mutexes on it, for any threads,  *)
(* priorities and mutexes of either kind.                                  *)
(***************************************************************************)
EXTENDS Mutex, FiniteSetTheorems, TLAPS

-----------------------------------------------------------------------------
(* Lists, element by element.                                              *)

\* The well-ordering of the naturals.
LEMMA LeastNat ==
    ASSUME NEW T, T \subseteq Nat, T # {}
    PROVE  \E x \in T : \A y \in T : x <= y
<1> DEFINE Less == {ss \in Nat \X Nat : ss[1] < ss[2]}
<1>1. IsWellFoundedOn(Less, Nat)
  BY NatLessThanWellFounded, Zenon DEF OpToRel
<1> HIDE DEF Less
<1>2. PICK x \in T : \A y \in T : <<y, x>> \notin Less
  BY <1>1, WFMin, Zenon
<1>3. ASSUME NEW y \in T PROVE x <= y
  <2>1. x \in Nat /\ y \in Nat
    OBVIOUS
  <2>2. ~(y < x)
    BY <1>2, <1>3, <2>1 DEF Less
  <2> QED
    BY <2>1, <2>2
<1> QED
  BY <1>2, <1>3

\* Only the empty list has no element.
LEMMA NonEmptyLemma ==
    ASSUME NEW S, NEW s \in Seq(S)
    PROVE  (s = <<>> <=> ToSet(s) = {}) /\ (s = <<>> <=> Len(s) = 0) /\ ToSet(s) \subseteq S
<1>1. s # <<>> => s[1] \in ToSet(s)
  BY DEF ToSet
<1> QED
  BY <1>1 DEF ToSet

\* A list of numbers of threads, or of threads, in rising order.
Rising(s, f) == \A i, j \in DOMAIN s : i < j => f[s[i]] <= f[s[j]]

\* s with one element gone, the one at `at`.
Shorter(r, s, at) ==
    /\ Len(r) = Len(s) - 1
    /\ \A i \in 1 .. Len(s) - 1 : r[i] = IF i < at THEN s[i] ELSE s[i + 1]

\* s with e put in at `at`.
Longer(r, s, at, e) ==
    /\ Len(r) = Len(s) + 1
    /\ \A i \in 1 .. Len(s) + 1 : r[i] = IF i < at THEN s[i] ELSE IF i = at THEN e ELSE s[i - 1]

LEMMA ShorterLemma ==
    ASSUME NEW S, NEW s \in Seq(S), NEW r \in Seq(S), NEW at \in 1 .. Len(s), Shorter(r, s, at)
    PROVE  /\ IsInjective(s) => IsInjective(r) /\ ToSet(r) = ToSet(s) \ {s[at]}
           /\ \A f : Rising(s, f) => Rising(r, f)
<1>1. /\ Len(s) \in Nat /\ DOMAIN s = 1 .. Len(s) /\ DOMAIN r = 1 .. Len(s) - 1
      /\ \A i \in 1 .. Len(s) - 1 : r[i] = IF i < at THEN s[i] ELSE s[i + 1]
  BY DEF Shorter
<1> DEFINE old(i) == IF i < at THEN i ELSE i + 1
<1>2. /\ \A i \in 1 .. Len(s) - 1 : old(i) \in 1 .. Len(s) \ {at} /\ r[i] = s[old(i)]
      /\ \A i, j \in 1 .. Len(s) - 1 : i < j => old(i) < old(j)
      /\ \A i, j \in 1 .. Len(s) - 1 : old(i) = old(j) => i = j
  BY <1>1
<1>3. ASSUME NEW j \in 1 .. Len(s) \ {at} PROVE \E i \in 1 .. Len(s) - 1 : old(i) = j
  <2>1. CASE j < at
    BY <1>1, <2>1
  <2>2. CASE j > at
    <3>1. j - 1 \in 1 .. Len(s) - 1 /\ old(j - 1) = j
      BY <1>1, <2>2
    <3> QED
      BY <3>1
  <2> QED
    BY <1>1, <2>1, <2>2
<1> HIDE DEF old
<1>4. ASSUME IsInjective(s) PROVE IsInjective(r) /\ ToSet(r) = ToSet(s) \ {s[at]}
  <2>1. \A i, j \in 1 .. Len(s) : s[i] = s[j] => i = j
    BY <1>1, <1>4 DEF IsInjective
  <2>2. IsInjective(r)
    <3> SUFFICES ASSUME NEW i \in 1 .. Len(s) - 1, NEW j \in 1 .. Len(s) - 1, r[i] = r[j]
                 PROVE  i = j
      BY <1>1 DEF IsInjective
    <3>1. old(i) = old(j)
      BY <1>2, <2>1
    <3> QED
      BY <1>2, <3>1
  <2>3. ToSet(r) \subseteq ToSet(s) \ {s[at]}
    BY <1>1, <1>2, <2>1 DEF ToSet
  <2>4. ASSUME NEW x \in ToSet(s), x # s[at] PROVE x \in ToSet(r)
    <3>1. PICK j \in 1 .. Len(s) : x = s[j]
      BY <1>1 DEF ToSet
    <3>2. PICK i \in 1 .. Len(s) - 1 : old(i) = j
      BY <1>3, <2>4, <3>1
    <3> QED
      BY <1>1, <1>2, <3>1, <3>2 DEF ToSet
  <2> QED
    BY <2>2, <2>3, <2>4
<1>5. ASSUME NEW f, Rising(s, f) PROVE Rising(r, f)
  <2> SUFFICES ASSUME NEW i \in 1 .. Len(s) - 1, NEW j \in 1 .. Len(s) - 1, i < j
               PROVE  f[r[i]] <= f[r[j]]
    BY <1>1 DEF Rising
  <2>1. r[i] = s[old(i)] /\ r[j] = s[old(j)] /\ old(i) < old(j)
        /\ old(i) \in DOMAIN s /\ old(j) \in DOMAIN s
    BY <1>1, <1>2
  <2> QED
    BY <1>5, <2>1 DEF Rising
<1> QED
  BY <1>4, <1>5

LEMMA LongerLemma ==
    ASSUME NEW S, NEW s \in Seq(S), NEW e \in S, NEW r \in Seq(S), NEW at \in 1 .. Len(s) + 1,
           Longer(r, s, at, e)
    PROVE  /\ ToSet(r) = ToSet(s) \cup {e}
           /\ IsInjective(s) /\ e \notin ToSet(s) => IsInjective(r)
<1>1. /\ Len(s) \in Nat /\ DOMAIN s = 1 .. Len(s) /\ DOMAIN r = 1 .. Len(s) + 1
      /\ \A i \in 1 .. Len(s) + 1 : r[i] = IF i < at THEN s[i] ELSE IF i = at THEN e ELSE s[i - 1]
  BY DEF Longer
<1> DEFINE old(i) == IF i < at THEN i ELSE i - 1
<1>2. /\ r[at] = e
      /\ \A i \in 1 .. Len(s) + 1 \ {at} : old(i) \in 1 .. Len(s) /\ r[i] = s[old(i)]
      /\ \A i, j \in 1 .. Len(s) + 1 \ {at} : old(i) = old(j) => i = j
  BY <1>1
<1>3. ASSUME NEW j \in 1 .. Len(s) PROVE \E i \in 1 .. Len(s) + 1 \ {at} : old(i) = j
  <2>1. CASE j < at
    BY <1>1, <2>1
  <2>2. CASE j >= at
    <3>1. j + 1 \in 1 .. Len(s) + 1 \ {at} /\ old(j + 1) = j
      BY <1>1, <2>2
    <3> QED
      BY <3>1
  <2> QED
    BY <1>1, <2>1, <2>2
<1> HIDE DEF old
<1>4. ToSet(r) = ToSet(s) \cup {e}
  <2>1. ToSet(r) \subseteq ToSet(s) \cup {e}
    BY <1>1, <1>2 DEF ToSet
  <2>2. ASSUME NEW j \in 1 .. Len(s) PROVE s[j] \in ToSet(r)
    BY <1>1, <1>2, <1>3, <2>2 DEF ToSet
  <2>3. e \in ToSet(r)
    BY <1>1, <1>2 DEF ToSet
  <2> QED
    BY <1>1, <2>1, <2>2, <2>3 DEF ToSet
<1>5. ASSUME IsInjective(s), e \notin ToSet(s) PROVE IsInjective(r)
  <2> SUFFICES ASSUME NEW i \in 1 .. Len(s) + 1, NEW j \in 1 .. Len(s) + 1, r[i] = r[j]
               PROVE  i = j
    BY <1>1 DEF IsInjective
  <2>1. \A n \in 1 .. Len(s) + 1 \ {at} : r[n] \in ToSet(s)
    BY <1>1, <1>2 DEF ToSet
  <2>2. CASE i # at /\ j # at
    <3>1. s[old(i)] = s[old(j)] /\ old(i) \in DOMAIN s /\ old(j) \in DOMAIN s
      BY <1>1, <1>2, <2>2
    <3> QED
      BY <1>2, <1>5, <2>2, <3>1 DEF IsInjective
  <2> QED
    BY <1>2, <1>5, <2>1, <2>2
<1> QED
  BY <1>4, <1>5

\* A list with one taken out of it, wherever it is, if it is there.
LEMMA RemoveLemma ==
    ASSUME NEW S, NEW s \in Seq(S), NEW e
    PROVE  /\ RemoveFirst(s, e) \in Seq(S)
           /\ e \notin ToSet(s) => RemoveFirst(s, e) = s
           /\ IsInjective(s) => IsInjective(RemoveFirst(s, e)) /\ ToSet(RemoveFirst(s, e)) = ToSet(s) \ {e}
           /\ \A f : Rising(s, f) => Rising(RemoveFirst(s, e), f)
<1>1. Len(s) \in Nat /\ DOMAIN s = 1 .. Len(s)
  OBVIOUS
<1>2. CASE ~ \E i \in 1 .. Len(s) : s[i] = e
  BY <1>1, <1>2 DEF RemoveFirst, ToSet
<1>3. CASE \E i \in 1 .. Len(s) : s[i] = e
  <2> DEFINE I == {i \in 1 .. Len(s) : s[i] = e}
             r == RemoveFirst(s, e)
  <2>1. \E x \in I : \A y \in I : x <= y
    BY <1>1, <1>3, LeastNat, I # {}, I \subseteq Nat
  <2>2. PICK at \in 1 .. Len(s) : at = Min(I) /\ s[at] = e
    BY <2>1 DEF Min
  <2>3. r = SubSeq(s, 1, at - 1) \o SubSeq(s, at + 1, Len(s))
    BY <1>3, <2>2 DEF RemoveFirst, RemoveAt, SelectInSeq
  <2> HIDE DEF r
  <2>4. r \in Seq(S) /\ Shorter(r, s, at)
    <3> DEFINE a == SubSeq(s, 1, at - 1)
               b == SubSeq(s, at + 1, Len(s))
    <3>1. a \in Seq(S) /\ Len(a) = at - 1 /\ \A i \in 1 .. at - 1 : a[i] = s[i]
      <4>1. at \in 1 .. Len(s) /\ Len(s) \in Nat
        BY <1>1
      <4> QED
        BY ONLY <4>1, s \in Seq(S)
    <3>2. b \in Seq(S) /\ Len(b) = Len(s) - at /\ \A i \in 1 .. Len(s) - at : b[i] = s[i + at]
      <4>1. at \in 1 .. Len(s) /\ Len(s) \in Nat
        BY <1>1
      <4> QED
        BY ONLY <4>1, s \in Seq(S)
    <3> HIDE DEF a, b
    <3>3. /\ a \o b \in Seq(S) /\ Len(a \o b) = Len(a) + Len(b)
          /\ \A i \in 1 .. Len(a) : (a \o b)[i] = a[i]
          /\ \A i \in Len(a) + 1 .. Len(a) + Len(b) : (a \o b)[i] = b[i - Len(a)]
      <4>1. a \in Seq(S) /\ b \in Seq(S)
        BY <3>1, <3>2
      <4> QED
        BY ONLY <4>1
    <3>4. Len(r) = Len(s) - 1 /\ r \in Seq(S)
      <4>1. r = a \o b
        BY <2>3, Zenon DEF a, b
      <4>2. Len(a) = at - 1 /\ Len(b) = Len(s) - at /\ Len(s) \in Nat /\ at \in Nat
        BY <1>1, <3>1, <3>2
      <4>3. Len(a \o b) = Len(s) - 1
        BY ONLY <3>3, <4>2
      <4> QED
        BY <3>3, <4>1, <4>3, Zenon
    <3>5. ASSUME NEW i \in 1 .. Len(s) - 1
          PROVE  r[i] = IF i < at THEN s[i] ELSE s[i + 1]
      <4>1. r[i] = (a \o b)[i]
        BY <2>3 DEF a, b
      <4>2. CASE i < at
        <5>1. i \in 1 .. at - 1 /\ i \in 1 .. Len(a)
          BY <1>1, <3>1, <4>2
        <5> QED
          BY <3>1, <3>3, <4>1, <4>2, <5>1
      <4>3. CASE i >= at
        <5>1. i - (at - 1) \in 1 .. Len(s) - at /\ (i - (at - 1)) + at = i + 1 /\ i - Len(a) = i - (at - 1)
              /\ i \in Len(a) + 1 .. Len(a) + Len(b)
          BY <1>1, <3>1, <3>2, <4>3
        <5>2. b[i - (at - 1)] = s[i + 1] /\ r[i] = b[i - Len(a)]
          BY <3>2, <3>3, <4>1, <5>1
        <5> QED
          BY <4>3, <5>1, <5>2
      <4> QED
        BY <1>1, <4>2, <4>3
    <3> QED
      BY <3>4, <3>5 DEF Shorter
  <2>5. e \in ToSet(s)
    BY <1>1, <1>3 DEF ToSet
  <2> QED
    BY <2>2, <2>4, <2>5, ShorterLemma DEF r
<1> QED
  BY <1>2, <1>3

\* A list without its head.
LEMMA TailLemma ==
    ASSUME NEW S, NEW s \in Seq(S), s # <<>>
    PROVE  /\ Tail(s) \in Seq(S) /\ Head(s) \in S /\ Head(s) \in ToSet(s) /\ Head(s) = s[1]
           /\ IsInjective(s) => IsInjective(Tail(s)) /\ ToSet(Tail(s)) = ToSet(s) \ {Head(s)}
           /\ \A f : Rising(s, f) => Rising(Tail(s), f)
           /\ \A f, t : Rising(s, f) /\ t \in ToSet(Tail(s)) => f[Head(s)] <= f[t]
<1>1. /\ Tail(s) \in Seq(S) /\ Len(Tail(s)) = Len(s) - 1 /\ Len(s) \in Nat \ {0}
      /\ Head(s) = s[1] /\ \A i \in 1 .. Len(s) - 1 : Tail(s)[i] = s[i + 1]
      /\ DOMAIN s = 1 .. Len(s) /\ DOMAIN Tail(s) = 1 .. Len(s) - 1
  OBVIOUS
<1>2. Shorter(Tail(s), s, 1) /\ 1 \in 1 .. Len(s)
  BY <1>1 DEF Shorter
<1>3. Head(s) \in S /\ Head(s) \in ToSet(s)
  BY <1>1 DEF ToSet
<1>4. ASSUME NEW f, NEW t, Rising(s, f), t \in ToSet(Tail(s)) PROVE f[Head(s)] <= f[t]
  <2>1. PICK i \in 1 .. Len(s) - 1 : t = Tail(s)[i]
    BY <1>1, <1>4 DEF ToSet
  <2>2. t = s[i + 1] /\ i + 1 \in DOMAIN s /\ 1 \in DOMAIN s /\ 1 < i + 1
    BY <1>1, <2>1
  <2> QED
    BY <1>1, <1>4, <2>2 DEF Rising
<1> DEFINE tail == Tail(s)
<1>5. tail \in Seq(S) /\ Shorter(tail, s, 1)
  BY <1>1, <1>2
<1> HIDE DEF tail
<1>6. /\ IsInjective(s) => IsInjective(tail) /\ ToSet(tail) = ToSet(s) \ {s[1]}
      /\ \A f : Rising(s, f) => Rising(tail, f)
  BY <1>2, <1>5, ShorterLemma, Zenon
<1> QED
  BY <1>1, <1>3, <1>4, <1>6 DEF tail

\* A list with one more at its end.
LEMMA AppendLemma ==
    ASSUME NEW S, NEW s \in Seq(S), NEW e \in S
    PROVE  /\ Append(s, e) \in Seq(S) /\ ToSet(Append(s, e)) = ToSet(s) \cup {e} /\ Append(s, e) # <<>>
           /\ IsInjective(s) /\ e \notin ToSet(s) => IsInjective(Append(s, e))
<1> DEFINE r == Append(s, e)
           at == Len(s) + 1
<1>1. r \in Seq(S) /\ r # <<>> /\ at \in 1 .. Len(s) + 1
  OBVIOUS
<1>2. Longer(r, s, at, e)
  BY DEF Longer
<1> HIDE DEF r, at
<1>3. ToSet(r) = ToSet(s) \cup {e} /\ (IsInjective(s) /\ e \notin ToSet(s) => IsInjective(r))
  BY <1>1, <1>2, LongerLemma, Zenon
<1> QED
  BY <1>1, <1>3 DEF r

-----------------------------------------------------------------------------
(* The scheduler's calls.                                                  *)

States == {"INIT", "SUSPEND", "READY", "RUNNING", "CLOSE"}

SchedStates ==
    [table : [Priorities -> Seq(All)], group : SUBSET Priorities, stat : [All -> States],
     yield : SUBSET All, prio : [All -> Priorities], current : All, nest : 0 .. MaxNest]

Ready(s) == {t \in All : s.stat[t] = "READY"}

\* The ready table holds the threads of `ready`, each on the list of its priority.
OnLists(s, ready) ==
    \A p \in Priorities :
        /\ p \in s.group <=> s.table[p] # <<>>
        /\ IsInjective(s.table[p])
        /\ ToSet(s.table[p]) = {t \in ready : s.prio[t] = p}

\* Nobody but the current thread runs, and it is not on a list.
OneRuns(s) ==
    /\ \A t \in All : s.stat[t] = "RUNNING" => t = s.current
    /\ s.stat[s.current] # "READY"

Sound(s) == s \in SchedStates /\ OnLists(s, Ready(s)) /\ OneRuns(s)

LEMMA PrioritiesLemma == Priorities \subseteq Nat /\ init_priority \in [All -> Priorities]
  BY SchedulerAssumption DEF Priorities, All

LEMMA RemoveThreadLemma ==
    ASSUME NEW s \in SchedStates, NEW ready \in SUBSET All, OnLists(s, ready), NEW t \in All
    PROVE  LET r == RemoveThread(s, t)
           IN  /\ r \in SchedStates /\ OnLists(r, ready \ {t})
               /\ r.stat = s.stat /\ r.prio = s.prio /\ r.yield = s.yield
               /\ r.current = s.current /\ r.nest = s.nest
<1> DEFINE r == RemoveThread(s, t)
           rest == [p \in Priorities |-> RemoveFirst(s.table[p], t)]
<1>1. /\ r.stat = s.stat /\ r.prio = s.prio /\ r.yield = s.yield
      /\ r.current = s.current /\ r.nest = s.nest
      /\ r.table = rest
      /\ r.group = IF rest[s.prio[t]] = <<>> THEN s.group \ {s.prio[t]} ELSE s.group
      /\ r = [table |-> r.table, group |-> r.group, stat |-> r.stat, yield |-> r.yield,
              prio |-> r.prio, current |-> r.current, nest |-> r.nest]
  <2>1. r = [s EXCEPT !.table = rest,
                      !.group = IF rest[s.prio[t]] = <<>> THEN @ \ {s.prio[t]} ELSE @]
    BY DEF RemoveThread
  <2> HIDE DEF r, rest
  <2> QED
    BY <2>1 DEF SchedStates
<1>2. /\ s.stat \in [All -> States] /\ s.prio \in [All -> Priorities] /\ s.yield \in SUBSET All
      /\ s.current \in All /\ s.nest \in 0 .. MaxNest /\ s.group \in SUBSET Priorities
      /\ \A p \in Priorities : s.table[p] \in Seq(All)
  BY DEF SchedStates
<1> HIDE DEF r
<1>3. ASSUME NEW p \in Priorities
      PROVE  /\ rest[p] \in Seq(All) /\ IsInjective(rest[p])
             /\ ToSet(rest[p]) = {u \in ready : s.prio[u] = p} \ {t}
             /\ p # s.prio[t] => rest[p] = s.table[p]
  <2> DEFINE l == s.table[p]
  <2>1. l \in Seq(All) /\ IsInjective(l) /\ ToSet(l) = {u \in ready : s.prio[u] = p}
    BY <1>2 DEF OnLists
  <2> HIDE DEF l
  <2>2. /\ RemoveFirst(l, t) \in Seq(All)
        /\ t \notin ToSet(l) => RemoveFirst(l, t) = l
        /\ IsInjective(RemoveFirst(l, t)) /\ ToSet(RemoveFirst(l, t)) = ToSet(l) \ {t}
    BY <2>1, RemoveLemma
  <2>3. rest[p] = RemoveFirst(l, t)
    BY DEF l
  <2>4. p # s.prio[t] => t \notin ToSet(l)
    BY <2>1
  <2>5. p # s.prio[t] => rest[p] = s.table[p]
    BY <2>2, <2>3, <2>4 DEF l
  <2>6. IsInjective(rest[p])
    BY <2>2, <2>3
  <2> HIDE DEF rest
  <2> QED
    BY <2>1, <2>2, <2>3, <2>5, <2>6
<1>4. rest \in [Priorities -> Seq(All)]
  BY <1>3
<1>5. ASSUME NEW p \in Priorities PROVE p \in r.group <=> rest[p] # <<>>
  <2>1. p \in s.group <=> s.table[p] # <<>>
    BY DEF OnLists
  <2>2. s.table[p] = <<>> => rest[p] = <<>>
    <3>1. s.table[p] = <<>> => {u \in ready : s.prio[u] = p} = {}
      BY NonEmptyLemma, <1>2 DEF OnLists
    <3> HIDE DEF rest
    <3> QED
      BY <1>3, <3>1, NonEmptyLemma
  <2> HIDE DEF rest
  <2> QED
    BY <1>1, <1>2, <1>3, <2>1, <2>2
<1>6. OnLists(r, ready \ {t})
  <2> HIDE DEF rest
  <2> SUFFICES ASSUME NEW p \in Priorities
               PROVE  /\ p \in r.group <=> r.table[p] # <<>>
                      /\ IsInjective(r.table[p])
                      /\ ToSet(r.table[p]) = {u \in ready \ {t} : r.prio[u] = p}
    BY DEF OnLists
  <2>1. ToSet(rest[p]) = {u \in ready \ {t} : s.prio[u] = p}
    BY <1>3
  <2>2. IsInjective(rest[p])
    BY <1>3
  <2> QED
    BY <1>1, <1>5, <2>1, <2>2
<1>7. r \in SchedStates
  <2> HIDE DEF rest
  <2>1. r.group \in SUBSET Priorities /\ r.table \in [Priorities -> Seq(All)]
    BY <1>1, <1>2, <1>4
  <2> QED
    BY <1>1, <1>2, <2>1 DEF SchedStates
<1> QED
  BY <1>1, <1>6, <1>7 DEF r

LEMMA InsertThreadLemma ==
    ASSUME NEW s \in SchedStates, NEW ready \in SUBSET All, OnLists(s, ready),
           NEW t \in All, t \notin ready
    PROVE  LET r == Insert(s, t)
           IN  /\ r \in SchedStates
               /\ OnLists(r, IF t = s.current THEN ready ELSE ready \cup {t})
               /\ r.stat = [s.stat EXCEPT ![t] = IF t = s.current THEN "RUNNING" ELSE "READY"]
               /\ r.prio = s.prio /\ r.yield = s.yield
               /\ r.current = s.current /\ r.nest = s.nest
<1> DEFINE r == Insert(s, t)
           q == s.prio[t]
<1>1. /\ s.stat \in [All -> States] /\ s.prio \in [All -> Priorities] /\ s.yield \in SUBSET All
      /\ s.current \in All /\ s.nest \in 0 .. MaxNest /\ s.group \in SUBSET Priorities
      /\ s.table \in [Priorities -> Seq(All)] /\ q \in Priorities
  BY DEF SchedStates
<1>2. CASE t = s.current
  <2>1. /\ r.stat = [s.stat EXCEPT ![t] = "RUNNING"] /\ r.prio = s.prio /\ r.yield = s.yield
        /\ r.current = s.current /\ r.nest = s.nest /\ r.table = s.table /\ r.group = s.group
        /\ r = [table |-> r.table, group |-> r.group, stat |-> r.stat, yield |-> r.yield,
                prio |-> r.prio, current |-> r.current, nest |-> r.nest]
    BY <1>2 DEF Insert, SchedStates
  <2> HIDE DEF r
  <2>2. r.stat \in [All -> States]
    BY <1>1, <2>1 DEF States
  <2>3. r \in SchedStates
    BY <1>1, <2>1, <2>2 DEF SchedStates
  <2>4. OnLists(r, ready)
    BY <2>1 DEF OnLists
  <2> QED
    BY <1>2, <2>1, <2>3, <2>4 DEF r
<1>3. CASE t # s.current
  <2>1. /\ r.stat = [s.stat EXCEPT ![t] = "READY"] /\ r.prio = s.prio /\ r.yield = s.yield
        /\ r.current = s.current /\ r.nest = s.nest
        /\ r.table = [s.table EXCEPT ![q] = Append(@, t)] /\ r.group = s.group \cup {q}
        /\ r = [table |-> r.table, group |-> r.group, stat |-> r.stat, yield |-> r.yield,
                prio |-> r.prio, current |-> r.current, nest |-> r.nest]
    BY <1>3 DEF Insert, SchedStates
  <2> HIDE DEF r, q
  <2>2. r.stat \in [All -> States]
    BY <1>1, <2>1 DEF States
  <2> DEFINE l == s.table[q]
  <2>3. l \in Seq(All) /\ IsInjective(l) /\ ToSet(l) = {u \in ready : s.prio[u] = q}
    BY <1>1 DEF OnLists
  <2>4. r.table[q] = Append(l, t) /\ \A p \in Priorities \ {q} : r.table[p] = s.table[p]
    BY <1>1, <2>1
  <2> HIDE DEF l
  <2>5. /\ Append(l, t) \in Seq(All) /\ ToSet(Append(l, t)) = ToSet(l) \cup {t}
        /\ Append(l, t) # <<>> /\ IsInjective(Append(l, t))
    BY <2>3, AppendLemma
  <2>6. r.table \in [Priorities -> Seq(All)] /\ r.group \in SUBSET Priorities
    BY <1>1, <2>1, <2>5 DEF l
  <2>7. r \in SchedStates
    BY <1>1, <2>1, <2>2, <2>6 DEF SchedStates
  <2>8. OnLists(r, ready \cup {t})
    <3> SUFFICES ASSUME NEW p \in Priorities
                 PROVE  /\ p \in r.group <=> r.table[p] # <<>>
                        /\ IsInjective(r.table[p])
                        /\ ToSet(r.table[p]) = {u \in ready \cup {t} : r.prio[u] = p}
      BY DEF OnLists
    <3>1. CASE p = q
      <4>1. ToSet(r.table[p]) = {u \in ready \cup {t} : r.prio[u] = p}
        BY <2>1, <2>3, <2>4, <2>5, <3>1 DEF q
      <4>2. IsInjective(r.table[p]) /\ r.table[p] # <<>>
        BY <2>4, <2>5, <3>1
      <4> QED
        BY <2>1, <3>1, <4>1, <4>2
    <3>2. CASE p # q
      <4>1. /\ p \in s.group <=> s.table[p] # <<>>
            /\ IsInjective(s.table[p])
            /\ ToSet(s.table[p]) = {u \in ready : s.prio[u] = p}
        BY DEF OnLists
      <4>2. {u \in ready : s.prio[u] = p} = {u \in ready \cup {t} : r.prio[u] = p}
        BY <2>1, <3>2 DEF q
      <4>3. r.table[p] = s.table[p] /\ (p \in r.group <=> p \in s.group)
        BY <2>1, <2>4, <3>2
      <4> QED
        BY <4>1, <4>2, <4>3
    <3> QED
      BY <3>1, <3>2
  <2> QED
    BY <1>3, <2>1, <2>7, <2>8 DEF r
<1> QED
  BY <1>2, <1>3

\* Which threads are on the lists does not depend on the rest of the state.
LEMMA ListsOnly ==
    ASSUME NEW s, NEW r, NEW ready, OnLists(s, ready),
           r.table = s.table, r.group = s.group, r.prio = s.prio
    PROVE  OnLists(r, ready)
  BY DEF OnLists

\* rt_schedule moves threads between READY and RUNNING and changes nothing else
\* that callers look at.
Kept(r, s) ==
    /\ r.prio = s.prio /\ r.nest = s.nest
    /\ \A t \in All : IF s.stat[t] \in {"READY", "RUNNING"} THEN r.stat[t] \in {"READY", "RUNNING"}
                      ELSE r.stat[t] = s.stat[t]

\* The thread that runs is as urgent as any that is ready.
Chosen(s) ==
    /\ s.stat[s.current] = "RUNNING"
    /\ \A t \in Ready(s) : s.prio[s.current] <= s.prio[t]

LEMMA HighestLemma ==
    ASSUME NEW s, Sound(s), s.group # {}
    PROVE  LET high == Highest(s)
               to   == Head(s.table[high])
           IN  /\ high \in Nat /\ to \in Ready(s) /\ to # s.current /\ s.prio[to] = high
               /\ \A t \in Ready(s) : high <= s.prio[t]
<1> DEFINE high == Highest(s)
           l == s.table[high]
<1>1. s.group \subseteq Priorities /\ s.group \subseteq Nat
  BY PrioritiesLemma DEF Sound, SchedStates
<1>2. \E p \in s.group : \A q \in s.group : p <= q
  BY <1>1, LeastNat
<1>3. high \in s.group /\ \A q \in s.group : high <= q
  BY <1>2 DEF Highest
<1> HIDE DEF high
<1>4. /\ l \in Seq(All) /\ l # <<>> /\ ToSet(l) = {t \in Ready(s) : s.prio[t] = high}
  <2>1. s.table \in [Priorities -> Seq(All)]
    BY DEF Sound, SchedStates
  <2> QED
    BY <1>1, <1>3, <2>1 DEF Sound, OnLists
<1> HIDE DEF l
<1>5. Head(l) \in ToSet(l)
  BY <1>4, TailLemma
<1>6. ASSUME NEW t \in Ready(s) PROVE high <= s.prio[t]
  <2>1. t \in All /\ s.prio[t] \in Priorities /\ s.table[s.prio[t]] \in Seq(All)
    BY DEF Sound, SchedStates, Ready
  <2>2. t \in ToSet(s.table[s.prio[t]]) /\ (s.prio[t] \in s.group <=> s.table[s.prio[t]] # <<>>)
    BY <2>1 DEF Sound, OnLists
  <2>3. s.table[s.prio[t]] # <<>>
    BY <2>1, <2>2, NonEmptyLemma
  <2> QED
    BY <1>3, <2>2, <2>3
<1>7. s.current \notin Ready(s)
  BY DEF Sound, OneRuns, Ready
<1> QED
  BY <1>1, <1>3, <1>4, <1>5, <1>6, <1>7 DEF high, l

LEMMA ScheduleLemma ==
    ASSUME NEW s, Sound(s)
    PROVE  LET r == Schedule(s)
           IN  /\ Sound(r) /\ Kept(r, s)
               /\ s.nest # 0 \/ s.group = {} => r = s
               /\ s.nest = 0 /\ s.group # {} => Chosen(r)
<1> DEFINE r == Schedule(s)
<1>1. CASE s.nest # 0 \/ s.group = {}
  <2>1. r = s
    BY <1>1 DEF Schedule
  <2>2. Kept(s, s)
    BY DEF Kept
  <2> HIDE DEF r
  <2> QED
    BY <1>1, <2>1, <2>2 DEF r
<1>2. CASE s.nest = 0 /\ s.group # {}
  <2> DEFINE from == s.current
             high == Highest(s)
             to   == Head(s.table[high])
             done == IF s.stat[from] = "RUNNING" THEN [s EXCEPT !.yield = @ \ {from}] ELSE s
  <2>1. r = IF Stays(s, high) THEN [RemoveThread(done, from) EXCEPT !.stat[from] = "RUNNING"]
            ELSE Switched(done, from, to)
    BY <1>2 DEF Schedule
  <2>2. /\ high \in Nat /\ to \in Ready(s) /\ to # from /\ s.prio[to] = high
        /\ \A t \in Ready(s) : high <= s.prio[t]
    BY <1>2, HighestLemma
  <2>3. /\ from \in All /\ from \notin Ready(s) /\ to \in All /\ Ready(s) \in SUBSET All
        /\ \A t \in All : s.stat[t] = "RUNNING" => t = from
        /\ s.stat \in [All -> States] /\ s.stat[to] = "READY" /\ s.prio \in [All -> Priorities]
        /\ s.prio[from] \in Nat
    BY <2>2, PrioritiesLemma DEF Sound, SchedStates, OneRuns, Ready
  <2>4. /\ done \in SchedStates /\ done.table = s.table /\ done.group = s.group
        /\ done.prio = s.prio /\ done.stat = s.stat /\ done.nest = s.nest
        /\ done.current = s.current
    BY DEF Sound, SchedStates
  <2>5. OnLists(done, Ready(s))
    BY <2>4, ListsOnly DEF Sound
  <2> HIDE DEF r, high, to, done
  <2>6. CASE Stays(s, high)
    <3> DEFINE rem == RemoveThread(done, from)
    <3>1. /\ rem \in SchedStates /\ OnLists(rem, Ready(s) \ {from})
          /\ rem.stat = s.stat /\ rem.prio = s.prio /\ rem.current = from /\ rem.nest = s.nest
      BY <2>3, <2>4, <2>5, RemoveThreadLemma
    <3>2. r = [rem EXCEPT !.stat[from] = "RUNNING"] /\ s.stat[from] = "RUNNING" /\ s.prio[from] <= high
      BY <2>1, <2>2, <2>3, <2>6 DEF Stays
    <3> HIDE DEF rem
    <3>3. r = rem
      <4>1. rem.stat = [rem.stat EXCEPT ![from] = "RUNNING"]
        BY <2>3, <3>1, <3>2
      <4> QED
        BY <3>1, <3>2, <4>1 DEF SchedStates
    <3>4. Ready(r) = Ready(s) /\ Ready(s) \ {from} = Ready(s)
      BY <2>3, <3>1, <3>3 DEF Ready
    <3>5. Sound(r)
      BY <2>3, <3>1, <3>2, <3>3, <3>4 DEF Sound, OneRuns
    <3>6. Kept(r, s)
      BY <3>1, <3>3 DEF Kept
    <3>7. Chosen(r)
      <4>1. r.current = from /\ r.prio = s.prio /\ r.stat[from] = "RUNNING"
        BY <3>1, <3>2, <3>3
      <4>2. ASSUME NEW t \in Ready(s) PROVE s.prio[from] <= s.prio[t]
        <5>1. s.prio[t] \in Nat /\ high <= s.prio[t]
          BY <2>2, <2>3, PrioritiesLemma
        <5> QED
          BY <2>2, <2>3, <3>2, <5>1
      <4> QED
        BY <3>4, <4>1, <4>2 DEF Chosen
    <3> QED
      BY <1>2, <3>5, <3>6, <3>7 DEF r
  <2>7. CASE ~Stays(s, high)
    <3> DEFINE moved == [done EXCEPT !.current = to]
               kept  == IF done.stat[from] = "RUNNING" THEN Insert(moved, from) ELSE moved
               rem   == RemoveThread(kept, to)
               ready == IF s.stat[from] = "RUNNING" THEN Ready(s) \cup {from} ELSE Ready(s)
    <3>1. r = [rem EXCEPT !.stat[to] = "RUNNING"]
      BY <2>1, <2>7 DEF Switched
    <3>2. /\ moved \in SchedStates /\ moved.table = done.table /\ moved.group = done.group
          /\ moved.prio = s.prio /\ moved.stat = s.stat /\ moved.nest = s.nest /\ moved.current = to
      BY <2>3, <2>4 DEF SchedStates
    <3>3. OnLists(moved, Ready(s))
      BY <2>4, <2>5, <3>2, ListsOnly
    <3> HIDE DEF moved
    <3>4. /\ kept \in SchedStates /\ OnLists(kept, ready)
          /\ kept.stat = IF s.stat[from] = "RUNNING" THEN [s.stat EXCEPT ![from] = "READY"] ELSE s.stat
          /\ kept.prio = s.prio /\ kept.nest = s.nest /\ kept.current = to
      <4>1. CASE s.stat[from] = "RUNNING"
        <5>1. kept = Insert(moved, from) /\ ready = Ready(s) \cup {from}
          BY <2>4, <4>1
        <5> HIDE DEF kept, ready
        <5>2. /\ moved \in SchedStates /\ Ready(s) \in SUBSET All /\ OnLists(moved, Ready(s))
              /\ from \in All /\ from \notin Ready(s) /\ from # moved.current
          BY <2>2, <2>3, <3>2, <3>3
        <5>3. LET q == Insert(moved, from)
              IN  /\ q \in SchedStates
                  /\ OnLists(q, IF from = moved.current THEN Ready(s) ELSE Ready(s) \cup {from})
                  /\ q.stat = [moved.stat EXCEPT
                                ![from] = IF from = moved.current THEN "RUNNING" ELSE "READY"]
                  /\ q.prio = moved.prio /\ q.yield = moved.yield
                  /\ q.current = moved.current /\ q.nest = moved.nest
          BY <5>2, InsertThreadLemma, Zenon
        <5> QED
          BY <3>2, <4>1, <5>1, <5>2, <5>3
      <4>2. CASE s.stat[from] # "RUNNING"
        BY <2>4, <3>2, <3>3, <4>2
      <4> QED
        BY <4>1, <4>2
    <3>5. ready \in SUBSET All /\ from \in All
      BY <2>3
    <3> HIDE DEF kept
    <3>6. /\ rem \in SchedStates /\ OnLists(rem, ready \ {to})
          /\ rem.stat = kept.stat /\ rem.prio = s.prio /\ rem.nest = s.nest /\ rem.current = to
      <4> HIDE DEF ready
      <4> QED
        BY <2>3, <3>4, <3>5, RemoveThreadLemma
    <3> HIDE DEF rem
    <3>7. /\ r \in SchedStates /\ r.table = rem.table /\ r.group = rem.group /\ r.prio = s.prio
          /\ r.nest = s.nest /\ r.current = to /\ r.stat = [kept.stat EXCEPT ![to] = "RUNNING"]
      <4>1. [rem.stat EXCEPT ![to] = "RUNNING"] \in [All -> States]
        BY <2>3, <3>6 DEF SchedStates, States
      <4> QED
        BY <3>1, <3>6, <4>1 DEF SchedStates
    <3>8. \A t \in All : r.stat[t] = IF t = to THEN "RUNNING"
                                     ELSE IF t = from /\ s.stat[from] = "RUNNING" THEN "READY"
                                     ELSE s.stat[t]
      BY <2>2, <2>3, <3>4, <3>7
    <3>9. Ready(r) = ready \ {to}
      BY <2>2, <2>3, <3>8 DEF Ready
    <3>10. OnLists(r, Ready(r))
      <4> HIDE DEF ready
      <4> QED
        BY <3>6, <3>7, <3>9, ListsOnly
    <3>11. Sound(r)
      BY <2>2, <2>3, <3>7, <3>8, <3>10 DEF Sound, OneRuns
    <3>12. Kept(r, s)
      BY <2>2, <2>3, <3>7, <3>8 DEF Kept
    <3>13. Chosen(r)
      <4>1. ASSUME NEW t \in ready PROVE high <= s.prio[t]
        <5>1. CASE t \in Ready(s)
          BY <2>2, <5>1
        <5>2. CASE t = from /\ s.stat[from] = "RUNNING"
          BY <2>2, <2>3, <2>7, <5>2 DEF Stays
        <5> QED
          BY <4>1, <5>1, <5>2
      <4> QED
        BY <2>2, <2>3, <3>7, <3>8, <3>9, <4>1 DEF Chosen
    <3> QED
      BY <1>2, <3>11, <3>12, <3>13 DEF r
  <2> QED
    BY <2>6, <2>7
<1> QED
  BY <1>1, <1>2

\* The functions callers chain, on a sound state of the scheduler.
LEMMA InsertSound ==
    ASSUME NEW s, Sound(s), NEW t \in All, s.stat[t] # "READY"
    PROVE  LET r == Insert(s, t)
           IN  /\ Sound(r)
               /\ r.stat = [s.stat EXCEPT ![t] = IF t = s.current THEN "RUNNING" ELSE "READY"]
               /\ r.prio = s.prio /\ r.current = s.current /\ r.nest = s.nest
<1> DEFINE r == Insert(s, t)
           ready == IF t = s.current THEN Ready(s) ELSE Ready(s) \cup {t}
<1>1. s \in SchedStates /\ Ready(s) \in SUBSET All /\ OnLists(s, Ready(s)) /\ t \notin Ready(s)
  BY DEF Sound, Ready
<1>2. /\ r \in SchedStates /\ OnLists(r, ready)
      /\ r.stat = [s.stat EXCEPT ![t] = IF t = s.current THEN "RUNNING" ELSE "READY"]
      /\ r.prio = s.prio /\ r.current = s.current /\ r.nest = s.nest
  BY <1>1, InsertThreadLemma
<1> HIDE DEF r
<1>3. Ready(r) = ready /\ OneRuns(r)
  BY <1>2 DEF Sound, SchedStates, Ready, OneRuns
<1> QED
  BY <1>2, <1>3 DEF Sound, r

LEMMA TakenOff ==
    ASSUME NEW s, Sound(s), NEW t \in All, NEW r \in SchedStates, NEW x \in {"SUSPEND", "CLOSE"},
           r.table = RemoveThread(s, t).table, r.group = RemoveThread(s, t).group,
           r.prio = s.prio, r.current = s.current, r.stat = [s.stat EXCEPT ![t] = x]
    PROVE  Sound(r)
<1> DEFINE rem == RemoveThread(s, t)
<1>1. s \in SchedStates /\ Ready(s) \in SUBSET All /\ OnLists(s, Ready(s))
  BY DEF Sound, Ready
<1>2. OnLists(rem, Ready(s) \ {t}) /\ rem.prio = s.prio
  BY <1>1, RemoveThreadLemma
<1> HIDE DEF rem
<1>3. OnLists(r, Ready(s) \ {t})
  BY <1>2, ListsOnly DEF rem
<1>4. Ready(r) = Ready(s) \ {t} /\ OneRuns(r)
  BY <1>1 DEF Sound, SchedStates, Ready, OneRuns
<1> QED
  BY <1>3, <1>4 DEF Sound

LEMMA SuspendedLemma ==
    ASSUME NEW s, Sound(s), NEW t \in All
    PROVE  LET r == Suspended(s, t)
           IN  /\ Sound(r) /\ r.stat = [s.stat EXCEPT ![t] = "SUSPEND"]
               /\ r.prio = s.prio /\ r.current = s.current /\ r.nest = s.nest
<1> DEFINE r == Suspended(s, t)
           rem == RemoveThread(s, t)
<1>1. s \in SchedStates /\ Ready(s) \in SUBSET All /\ OnLists(s, Ready(s))
  BY DEF Sound, Ready
<1>2. /\ rem \in SchedStates /\ rem.stat = s.stat /\ rem.prio = s.prio
      /\ rem.current = s.current /\ rem.nest = s.nest
  BY <1>1, RemoveThreadLemma
<1>3. r = [rem EXCEPT !.stat[t] = "SUSPEND"]
  BY DEF Suspended
<1> HIDE DEF r, rem
<1>4. [s.stat EXCEPT ![t] = "SUSPEND"] \in [All -> States]
  BY <1>1 DEF SchedStates, States
<1>5. /\ r \in SchedStates /\ r.table = rem.table /\ r.group = rem.group /\ r.prio = s.prio
      /\ r.current = s.current /\ r.nest = s.nest /\ r.stat = [s.stat EXCEPT ![t] = "SUSPEND"]
  BY <1>2, <1>3, <1>4 DEF SchedStates
<1>6. Sound(r)
  BY <1>5, TakenOff DEF rem
<1> QED
  BY <1>5, <1>6 DEF r

\* What rt_thread_exit schedules from.
Closed(s, t) == [RemoveThread(s, t) EXCEPT !.stat[t] = "CLOSE", !.yield = @ \ {t}]

LEMMA ClosedLemma ==
    ASSUME NEW s, Sound(s), NEW t \in All
    PROVE  LET r == Closed(s, t)
           IN  /\ Sound(r) /\ r.stat = [s.stat EXCEPT ![t] = "CLOSE"]
               /\ r.prio = s.prio /\ r.current = s.current /\ r.nest = s.nest
<1> DEFINE r == Closed(s, t)
           rem == RemoveThread(s, t)
<1>1. s \in SchedStates /\ Ready(s) \in SUBSET All /\ OnLists(s, Ready(s))
  BY DEF Sound, Ready
<1>2. /\ rem \in SchedStates /\ rem.stat = s.stat /\ rem.prio = s.prio
      /\ rem.current = s.current /\ rem.nest = s.nest
  BY <1>1, RemoveThreadLemma
<1>3. r = [rem EXCEPT !.stat[t] = "CLOSE", !.yield = @ \ {t}]
  BY DEF Closed
<1> HIDE DEF r, rem
<1>4. [s.stat EXCEPT ![t] = "CLOSE"] \in [All -> States]
  BY <1>1 DEF SchedStates, States
<1>5. /\ r \in SchedStates /\ r.table = rem.table /\ r.group = rem.group /\ r.prio = s.prio
      /\ r.current = s.current /\ r.nest = s.nest /\ r.stat = [s.stat EXCEPT ![t] = "CLOSE"]
  BY <1>2, <1>3, <1>4 DEF SchedStates
<1>6. Sound(r)
  BY <1>5, TakenOff DEF rem
<1> QED
  BY <1>5, <1>6 DEF r

LEMMA ReprioritizedLemma ==
    ASSUME NEW s, Sound(s), NEW t \in All, NEW p \in Priorities
    PROVE  LET r == Reprioritized(s, t, p)
           IN  /\ Sound(r) /\ r.stat = s.stat /\ r.prio = [s.prio EXCEPT ![t] = p]
               /\ r.current = s.current /\ r.nest = s.nest
<1> DEFINE r == Reprioritized(s, t, p)
           rem == RemoveThread(s, t)
           new == [rem EXCEPT !.prio[t] = p]
<1>1. /\ s \in SchedStates /\ Ready(s) \in SUBSET All /\ OnLists(s, Ready(s)) /\ s.current \notin Ready(s)
      /\ s.prio \in [All -> Priorities] /\ s.stat \in [All -> States]
      /\ [s.prio EXCEPT ![t] = p] \in [All -> Priorities]
  BY DEF Sound, Ready, OneRuns, SchedStates
<1>2. CASE s.stat[t] = "READY"
  <2>1. /\ rem \in SchedStates /\ OnLists(rem, Ready(s) \ {t}) /\ rem.stat = s.stat /\ rem.prio = s.prio
        /\ rem.current = s.current /\ rem.nest = s.nest
    BY <1>1, RemoveThreadLemma
  <2>2. r = Insert(new, t)
    BY <1>2 DEF Reprioritized
  <2> HIDE DEF rem, r
  <2>3. /\ new \in SchedStates /\ new.table = rem.table /\ new.group = rem.group /\ new.stat = s.stat
        /\ new.prio = [s.prio EXCEPT ![t] = p] /\ new.current = s.current /\ new.nest = s.nest
    BY <1>1, <2>1 DEF SchedStates
  <2> HIDE DEF new
  <2>4. OnLists(new, Ready(s) \ {t})
    <3>1. \A u \in Ready(s) \ {t} : new.prio[u] = rem.prio[u]
      BY <1>1, <2>1, <2>3
    <3>2. \A q \in Priorities : {u \in Ready(s) \ {t} : new.prio[u] = q}
                                  = {u \in Ready(s) \ {t} : rem.prio[u] = q}
      BY <3>1
    <3> QED
      BY <2>1, <2>3, <3>2 DEF OnLists
  <2>5. t # s.current /\ Ready(s) \ {t} \in SUBSET All /\ t \notin Ready(s) \ {t} /\ t \in Ready(s)
    BY <1>1, <1>2 DEF Ready
  <2>6. /\ r \in SchedStates /\ OnLists(r, (Ready(s) \ {t}) \cup {t})
        /\ r.stat = [s.stat EXCEPT ![t] = "READY"] /\ r.prio = new.prio
        /\ r.current = s.current /\ r.nest = s.nest
    BY <2>2, <2>3, <2>4, <2>5, InsertThreadLemma
  <2>7. r.stat = s.stat /\ (Ready(s) \ {t}) \cup {t} = Ready(s)
    BY <1>1, <1>2, <2>5, <2>6
  <2>8. Ready(r) = Ready(s) /\ OneRuns(r)
    BY <2>6, <2>7 DEF Sound, Ready, OneRuns
  <2> QED
    BY <2>3, <2>6, <2>7, <2>8 DEF Sound, r
<1>3. CASE s.stat[t] # "READY"
  <2>1. r = [s EXCEPT !.prio[t] = p]
    BY <1>3 DEF Reprioritized
  <2> HIDE DEF r
  <2>2. /\ r \in SchedStates /\ r.table = s.table /\ r.group = s.group /\ r.stat = s.stat
        /\ r.prio = [s.prio EXCEPT ![t] = p] /\ r.current = s.current /\ r.nest = s.nest
    BY <1>1, <2>1 DEF SchedStates
  <2>3. Ready(r) = Ready(s) /\ OneRuns(r) /\ t \notin Ready(s)
    BY <1>3, <2>2 DEF Sound, Ready, OneRuns
  <2>4. OnLists(r, Ready(s))
    <3>1. \A u \in Ready(s) : r.prio[u] = s.prio[u]
      BY <1>1, <2>2, <2>3
    <3>2. \A q \in Priorities : {u \in Ready(s) : r.prio[u] = q} = {u \in Ready(s) : s.prio[u] = q}
      BY <3>1
    <3> QED
      BY <1>1, <2>2, <3>2 DEF OnLists
  <2> QED
    BY <2>2, <2>3, <2>4 DEF Sound, r
<1> QED
  BY <1>2, <1>3

\* Fields that say nothing about who is on a list.
LEMMA AsideSound ==
    ASSUME NEW s, Sound(s), NEW r \in SchedStates,
           r.table = s.table, r.group = s.group, r.stat = s.stat, r.prio = s.prio, r.current = s.current
    PROVE  Sound(r)
<1>1. Ready(r) = Ready(s) /\ OneRuns(r)
  BY DEF Sound, Ready, OneRuns
<1>2. OnLists(r, Ready(s))
  BY ListsOnly DEF Sound
<1> QED
  BY <1>1, <1>2 DEF Sound

\* rt_schedule from a state in which the idle thread can run, and the current
\* one can run or may be left.
Leaving(s) ==
    /\ Sound(s) /\ s.stat[Idle] \in {"READY", "RUNNING"}
    /\ s.stat[s.current] = "RUNNING" \/ s.nest = 0

LEMMA LeavingLemma ==
    ASSUME NEW s, Leaving(s)
    PROVE  LET r == Schedule(s)
           IN  /\ Sound(r) /\ Kept(r, s) /\ r.stat[Idle] \in {"READY", "RUNNING"}
               /\ r.stat[r.current] = "RUNNING" /\ (s.nest = 0 => Chosen(r))
<1> DEFINE r == Schedule(s)
<1>1. /\ Sound(r) /\ Kept(r, s)
      /\ s.nest # 0 \/ s.group = {} => r = s
      /\ s.nest = 0 /\ s.group # {} => Chosen(r)
  BY ScheduleLemma DEF Leaving
<1> HIDE DEF r
<1>2. r.stat[Idle] \in {"READY", "RUNNING"}
  BY <1>1 DEF Kept, Leaving, All
<1>3. ASSUME s.group = {} PROVE Ready(s) = {} /\ s.stat[s.current] = "RUNNING"
  <2>1. ASSUME NEW t \in Ready(s) PROVE FALSE
    <3>1. t \in All /\ s.prio[t] \in Priorities /\ s.table[s.prio[t]] \in Seq(All)
      BY DEF Leaving, Sound, SchedStates, Ready
    <3>2. t \in ToSet(s.table[s.prio[t]]) /\ s.table[s.prio[t]] = <<>>
      BY <1>3, <3>1 DEF Leaving, Sound, OnLists
    <3> QED
      BY <3>1, <3>2, NonEmptyLemma
  <2>2. s.stat[Idle] = "RUNNING" /\ Idle \in All
    BY <2>1 DEF Leaving, Ready, All
  <2>3. s.current = Idle
    BY <2>2 DEF Leaving, Sound, OneRuns
  <2> QED
    BY <2>1, <2>2, <2>3
<1>4. CASE s.nest # 0 \/ s.group = {}
  <2>1. r = s /\ s.stat[s.current] = "RUNNING"
    BY <1>1, <1>3, <1>4 DEF Leaving
  <2>2. s.nest = 0 => Chosen(s)
    BY <1>3, <1>4, <2>1 DEF Chosen
  <2> QED
    BY <1>1, <1>2, <2>1, <2>2 DEF r
<1>5. CASE s.nest = 0 /\ s.group # {}
  BY <1>1, <1>2, <1>5 DEF Chosen, r
<1> QED
  BY <1>4, <1>5

-----------------------------------------------------------------------------
(* The invariant.                                                          *)

\* The scheduler, and where its threads are: the current one runs, or is about
\* to call rt_schedule because it has been suspended.
Scheduled ==
    /\ Sound(k) /\ k.stat[Idle] \in {"READY", "RUNNING"}
    /\ \/ k.stat[k.current] = "RUNNING"
       \/ /\ k.stat[k.current] = "SUSPEND" /\ k.nest = 0
          /\ k.current \in Threads /\ pc[k.current] = "schedule"
    /\ pc \in [Threads -> {"run", "schedule", "back"}]
    /\ error \in [Threads -> {"OK", "TIMEOUT"}]
    /\ timed \subseteq {t \in Threads : k.stat[t] = "SUSPEND"}

\* MostUrgentRuns, also for a thread that is back from rt_schedule.
Urgent ==
    k.nest = 0 /\ ~unscheduled /\ (k.current \in Threads => pc[k.current] # "schedule")
      => \A t \in Ready(k) : k.prio[k.current] <= k.prio[t]

MutexTypes ==
    /\ value \in [Mutexes -> {0, 1}] /\ hold \in [Mutexes -> 0 .. MaxTakes]
    /\ owner \in [Mutexes -> Threads \cup {NoThread}]
    /\ original_priority \in [Mutexes -> Priorities]
    /\ suspend_thread \in [Mutexes -> Seq(Threads)]
    /\ wants \in [Threads -> Mutexes \cup {0}] /\ has \in [Threads -> Seq(Mutexes)]
    /\ missed \subseteq Mutexes /\ unscheduled \in BOOLEAN

\* The first three conjuncts of OneOwner.
Held ==
    \A m \in Mutexes :
        /\ value[m] = 1 <=> owner[m] = NoThread
        /\ hold[m] = 0 <=> owner[m] = NoThread
        /\ \A t \in Threads : TakesOf(t, m) = IF owner[m] = t THEN hold[m] ELSE 0

\* The other two; nobody waits for a free mutex.
Listed ==
    \A m \in Mutexes :
        /\ IsInjective(suspend_thread[m])
        /\ ToSet(suspend_thread[m]) = {t \in Threads : wants[t] = m /\ k.stat[t] = "SUSPEND"}
        /\ owner[m] = NoThread => suspend_thread[m] = <<>>

\* A thread that asks for a mutex is in a call, and has only mutexes before it.
Asking ==
    \A t \in Threads : wants[t] # 0 =>
        /\ pc[t] # "run"
        /\ \A i \in DOMAIN has[t] : has[t][i] < wants[t]
        /\ k.stat[t] = "SUSPEND" => error[t] = "OK"

TakenInOrder ==
    \A t \in Threads : \A i, j \in DOMAIN has[t] : i < j => has[t][i] <= has[t][j]

\* The first mutex a thread has taken remembers the thread's own priority.
FirstRemembers ==
    \A t \in Threads, m \in Mutexes :
        owner[m] = t /\ (\A n \in Mutexes : owner[n] = t => m <= n)
          => original_priority[m] = init_priority[t]

\* The list of a mutex that is not in order of arrival is in order of priority.
Sorted == \A m \in Mutexes \ (missed \cup Fifo) : Rising(suspend_thread[m], k.prio)

\* What the mutexes keep true.
Owned ==
    /\ MutexTypes /\ Held /\ Listed /\ Asking /\ TakenInOrder
    /\ BaseRestored /\ FirstRemembers /\ InheritsPriority /\ Sorted

MInv == Scheduled /\ Urgent /\ Owned

\* A step of the scheduler that the mutexes do not see.
Unseen ==
    /\ UNCHANGED <<mutexVars, wants, has, missed>> /\ unscheduled' \in BOOLEAN
    /\ k'.prio = k.prio
    /\ \A t \in Threads : wants[t] # 0 =>
         /\ k'.stat[t] = "SUSPEND" <=> k.stat[t] = "SUSPEND"
         /\ error'[t] = error[t] /\ pc'[t] # "run"

LEMMA UnseenKeeps == ASSUME Owned, Unseen PROVE Owned'
<1> USE DEF Owned, Unseen, mutexVars
<1>0. 0 \notin Mutexes
  BY MutexAssumption
<1>1. MutexTypes'
  BY DEF MutexTypes
<1>2. Held'
  <2>1. ASSUME NEW t \in Threads, NEW m \in Mutexes PROVE TakesOf(t, m)' = TakesOf(t, m)
    <3>1. wants[t] = m /\ k.stat[t] # "SUSPEND" /\ error[t] = "OK"
          <=> wants'[t] = m /\ k'.stat[t] # "SUSPEND" /\ error'[t] = "OK"
      BY <1>0
    <3> QED
      BY <3>1 DEF TakesOf
  <2>2. \A t \in Threads, m \in Mutexes : TakesOf(t, m)' = TakesOf(t, m)
    BY <2>1
  <2> QED
    BY <2>2 DEF Held
<1>3. Listed'
  <2> SUFFICES ASSUME NEW m \in Mutexes
               PROVE  /\ IsInjective(suspend_thread'[m])
                      /\ ToSet(suspend_thread'[m])
                           = {t \in Threads : wants'[t] = m /\ k'.stat[t] = "SUSPEND"}
                      /\ owner'[m] = NoThread => suspend_thread'[m] = <<>>
    BY DEF Listed
  <2>1. {t \in Threads : wants'[t] = m /\ k'.stat[t] = "SUSPEND"}
          = {t \in Threads : wants[t] = m /\ k.stat[t] = "SUSPEND"}
    BY <1>0
  <2> QED
    BY <2>1 DEF Listed
<1>4. Asking' /\ TakenInOrder'
  BY DEF Asking, TakenInOrder
<1>5. BaseRestored' /\ FirstRemembers'
  BY DEF BaseRestored, FirstRemembers
<1>6. InheritsPriority' /\ Sorted'
  BY DEF InheritsPriority, Sorted, Rising
<1> QED
  BY <1>1, <1>2, <1>3, <1>4, <1>5, <1>6

\* After rt_schedule the thread that runs is the right one.
LEMMA Rescheduled ==
    ASSUME Scheduled, NEW s, Leaving(s), k' = Schedule(s), s.nest = k.nest,
           unscheduled' = (unscheduled /\ k.nest # 0)
    PROVE  /\ Sound(k') /\ Kept(k', s) /\ k'.stat[Idle] \in {"READY", "RUNNING"}
           /\ k'.stat[k'.current] = "RUNNING" /\ Urgent'
<1>1. /\ Sound(k') /\ Kept(k', s) /\ k'.stat[Idle] \in {"READY", "RUNNING"}
      /\ k'.stat[k'.current] = "RUNNING" /\ (s.nest = 0 => Chosen(k'))
  BY LeavingLemma
<1>2. Urgent'
  BY <1>1 DEF Urgent, Kept, Chosen, Ready
<1> QED
  BY <1>1, <1>2

\* Scheduled is there at a call, and the caller can be told from the idle thread.
LEMMA ScheduledLemma ==
    ASSUME Scheduled
    PROVE  /\ k \in SchedStates /\ Leaving(k) /\ Threads \subseteq All /\ Idle \in All /\ Idle \notin Threads
           /\ k.stat \in [All -> States] /\ k.prio \in [All -> Priorities] /\ k.current \in All
           /\ k.nest \in 0 .. MaxNest /\ Priorities \subseteq Nat
           /\ \A t \in Threads : Runs(t) => k.stat[t] = "RUNNING" /\ t = k.current
  BY SchedulerAssumption, PrioritiesLemma DEF Scheduled, Sound, SchedStates, Leaving, All, Runs

-----------------------------------------------------------------------------
(* The calls that are not a mutex's.                                       *)

LEMMA StartupKeeps ==
    ASSUME MInv, NEW t \in Threads, NEW u \in Threads, Quiet(Startup(t, u))
    PROVE  Scheduled' /\ Urgent' /\ Unseen
<1> DEFINE s == [k EXCEPT !.stat[u] = "SUSPEND"]
<1>1. /\ Scheduled /\ Runs(t) /\ k.stat[u] = "INIT" /\ k' = Insert(s, u)
      /\ pc' = [pc EXCEPT ![t] = "schedule"] /\ UNCHANGED <<timed, error>>
      /\ UNCHANGED <<mutexVars, wants, history>>
  BY DEF MInv, Quiet, Startup
<1>2. /\ k \in SchedStates /\ t \in All /\ u \in All /\ u # Idle /\ Sound(k) /\ Threads \subseteq All
      /\ Idle \in All /\ k.stat \in [All -> States] /\ k.stat[t] = "RUNNING" /\ t = k.current
  BY <1>1, ScheduledLemma DEF Scheduled
<1>3. /\ s \in SchedStates /\ s.table = k.table /\ s.group = k.group /\ s.prio = k.prio
      /\ s.current = k.current /\ s.nest = k.nest /\ s.stat = [k.stat EXCEPT ![u] = "SUSPEND"]
  <2>1. [k.stat EXCEPT ![u] = "SUSPEND"] \in [All -> States]
    BY <1>2 DEF States
  <2> QED
    BY <1>2, <2>1 DEF SchedStates
<1> HIDE DEF s
<1>4. Sound(s)
  <2>1. Ready(s) = Ready(k) /\ OneRuns(s)
    BY <1>1, <1>2, <1>3 DEF Sound, Ready, OneRuns
  <2>2. OnLists(s, Ready(k))
    BY <1>2, <1>3, ListsOnly DEF Sound
  <2> QED
    BY <1>3, <2>1, <2>2 DEF Sound
<1>5. /\ Sound(k') /\ k'.prio = k.prio /\ k'.current = k.current /\ k'.nest = k.nest
      /\ k'.stat = [k.stat EXCEPT ![u] = "READY"]
  <2>1. s.stat[u] # "READY" /\ u # s.current
    BY <1>1, <1>2, <1>3
  <2>2. /\ Sound(k') /\ k'.prio = s.prio /\ k'.current = s.current /\ k'.nest = s.nest
        /\ k'.stat = [s.stat EXCEPT ![u] = "READY"]
    BY <1>1, <1>2, <1>4, <2>1, InsertSound
  <2> QED
    BY <1>2, <1>3, <2>2
<1>6. Scheduled'
  BY <1>1, <1>2, <1>5 DEF Scheduled
<1>7. Urgent'
  BY <1>1, <1>2, <1>5 DEF Urgent, Scheduled
<1>8. Unseen
  BY <1>1, <1>2, <1>5 DEF Unseen, history, MInv, Owned, Asking, MutexTypes, Scheduled
<1> QED
  BY <1>6, <1>7, <1>8

LEMMA SleepKeeps ==
    ASSUME MInv, NEW t \in Threads, Quiet(Sleep(t))
    PROVE  Scheduled' /\ Urgent' /\ Unseen
<1>1. /\ Scheduled /\ Runs(t) /\ k.nest = 0 /\ k' = Suspended(k, t) /\ timed' = timed \cup {t}
      /\ pc' = [pc EXCEPT ![t] = "schedule"] /\ UNCHANGED error
      /\ UNCHANGED <<mutexVars, wants, history>>
  BY DEF MInv, Quiet, Sleep
<1>2. /\ t \in All /\ t # Idle /\ Sound(k) /\ Threads \subseteq All /\ Idle \in All
      /\ k.stat \in [All -> States] /\ k.stat[t] = "RUNNING" /\ t = k.current
  BY <1>1, ScheduledLemma DEF Scheduled
<1>3. /\ Sound(k') /\ k'.prio = k.prio /\ k'.current = k.current /\ k'.nest = k.nest
      /\ k'.stat = [k.stat EXCEPT ![t] = "SUSPEND"]
  BY <1>1, <1>2, SuspendedLemma
<1>4. Scheduled'
  BY <1>1, <1>2, <1>3 DEF Scheduled
<1>5. Urgent'
  BY <1>1, <1>2, <1>3 DEF Urgent, Scheduled
<1>6. Unseen
  BY <1>1, <1>2, <1>3 DEF Unseen, history, MInv, Owned, Asking, MutexTypes, Scheduled, Runs
<1> QED
  BY <1>4, <1>5, <1>6

LEMMA EnterCriticalKeeps ==
    ASSUME MInv, NEW t \in Threads, Quiet(EnterCritical(t))
    PROVE  Scheduled' /\ Urgent' /\ Unseen
<1>1. /\ Scheduled /\ Runs(t) /\ k.nest < MaxNest /\ k' = [k EXCEPT !.nest = @ + 1]
      /\ UNCHANGED <<timed, error, pc>> /\ UNCHANGED <<mutexVars, wants, history>>
  BY DEF MInv, Quiet, EnterCritical
<1>2. /\ k \in SchedStates /\ Sound(k) /\ k.stat[t] = "RUNNING" /\ t = k.current /\ k.nest \in 0 .. MaxNest
  BY <1>1, ScheduledLemma DEF Scheduled
<1>3. /\ k' \in SchedStates /\ k'.table = k.table /\ k'.group = k.group /\ k'.stat = k.stat
      /\ k'.prio = k.prio /\ k'.current = k.current /\ k'.nest = k.nest + 1
  <2>1. k.nest + 1 \in 0 .. MaxNest
    BY <1>1, <1>2, SchedulerAssumption
  <2> QED
    BY <1>1, <1>2, <2>1 DEF SchedStates
<1>4. Sound(k')
  BY <1>2, <1>3, AsideSound
<1>5. Scheduled'
  BY <1>1, <1>2, <1>3, <1>4 DEF Scheduled
<1>6. Urgent'
  BY <1>2, <1>3 DEF Urgent
<1>7. Unseen
  BY <1>1, <1>3 DEF Unseen, history, MInv, Owned, Asking, MutexTypes
<1> QED
  BY <1>5, <1>6, <1>7

LEMMA ExitCriticalKeeps ==
    ASSUME MInv, NEW t \in Threads, Quiet(ExitCritical(t))
    PROVE  Scheduled' /\ Urgent' /\ Unseen
<1>1. /\ Scheduled /\ Runs(t) /\ k.nest > 0 /\ k' = [k EXCEPT !.nest = @ - 1]
      /\ pc' = [pc EXCEPT ![t] = IF k.nest = 1 THEN "schedule" ELSE "run"]
      /\ UNCHANGED <<timed, error>> /\ UNCHANGED <<mutexVars, wants, history>>
  BY DEF MInv, Quiet, ExitCritical
<1>2. /\ k \in SchedStates /\ Sound(k) /\ k.stat[t] = "RUNNING" /\ t = k.current /\ k.nest \in 0 .. MaxNest
  BY <1>1, ScheduledLemma DEF Scheduled
<1>3. /\ k' \in SchedStates /\ k'.table = k.table /\ k'.group = k.group /\ k'.stat = k.stat
      /\ k'.prio = k.prio /\ k'.current = k.current /\ k'.nest = k.nest - 1
  <2>1. k.nest - 1 \in 0 .. MaxNest
    BY <1>1, <1>2, SchedulerAssumption
  <2> QED
    BY <1>1, <1>2, <2>1 DEF SchedStates
<1>4. Sound(k')
  BY <1>2, <1>3, AsideSound
<1>5. Scheduled'
  BY <1>1, <1>2, <1>3, <1>4 DEF Scheduled
<1>6. Urgent'
  <2>1. k'.nest = 0 => pc'[t] = "schedule"
    BY <1>1, <1>2, <1>3 DEF Scheduled
  <2> QED
    BY <1>2, <1>3, <2>1 DEF Urgent
<1>7. Unseen
  BY <1>1, <1>3 DEF Unseen, history, MInv, Owned, Asking, MutexTypes, Scheduled, Runs
<1> QED
  BY <1>5, <1>6, <1>7

\* The thread that gives way is marked, which the lists do not show.
LEMMA YieldingLemma ==
    ASSUME Scheduled, NEW t \in All
    PROVE  LET s == [k EXCEPT !.yield = @ \cup {t}]
           IN  Leaving(s) /\ s.stat = k.stat /\ s.prio = k.prio /\ s.nest = k.nest
<1> DEFINE s == [k EXCEPT !.yield = @ \cup {t}]
<1>1. k \in SchedStates /\ Sound(k) /\ Leaving(k)
  BY ScheduledLemma DEF Scheduled
<1>2. /\ s \in SchedStates /\ s.table = k.table /\ s.group = k.group /\ s.stat = k.stat
      /\ s.prio = k.prio /\ s.current = k.current /\ s.nest = k.nest
  BY <1>1 DEF SchedStates
<1> HIDE DEF s
<1>3. Sound(s)
  BY <1>1, <1>2, AsideSound
<1> QED
  BY <1>1, <1>2, <1>3 DEF Leaving, s

\* What is left to show of a step that ends in rt_schedule.
LEMMA SchedulingKeeps ==
    ASSUME MInv, NEW s, Leaving(s), k' = Schedule(s), s.nest = k.nest, s.prio = k.prio,
           \A u \in Threads : wants[u] # 0 =>
               /\ s.stat[u] = "SUSPEND" <=> k.stat[u] = "SUSPEND"
               /\ error'[u] = error[u] /\ pc'[u] # "run",
           unscheduled' = (unscheduled /\ k.nest # 0),
           UNCHANGED <<mutexVars, wants, has, missed>>,
           pc' \in [Threads -> {"run", "schedule", "back"}], error' \in [Threads -> {"OK", "TIMEOUT"}],
           timed' \subseteq {u \in Threads : s.stat[u] = "SUSPEND"}
    PROVE  Scheduled' /\ Urgent' /\ Unseen
<1>1. Scheduled /\ Threads \subseteq All
  BY DEF MInv, All
<1>2. /\ Sound(k') /\ Kept(k', s) /\ k'.stat[Idle] \in {"READY", "RUNNING"}
      /\ k'.stat[k'.current] = "RUNNING" /\ Urgent'
  BY <1>1, Rescheduled
<1>3. \A u \in Threads : s.stat[u] = "SUSPEND" <=> k'.stat[u] = "SUSPEND"
  BY <1>1, <1>2 DEF Kept
<1>4. Scheduled'
  BY <1>1, <1>2, <1>3 DEF Scheduled
<1>5. Unseen
  BY <1>2, <1>3 DEF Unseen, Kept, MInv, Owned, MutexTypes
<1> QED
  BY <1>2, <1>4, <1>5

LEMMA YieldKeeps ==
    ASSUME MInv, NEW t \in Threads, Scheduling(Yield(t))
    PROVE  Scheduled' /\ Urgent' /\ Unseen
<1> DEFINE s == [k EXCEPT !.yield = @ \cup {t}]
<1>1. /\ Scheduled /\ k' = Schedule(s) /\ UNCHANGED <<timed, error, pc>>
      /\ unscheduled' = (unscheduled /\ k.nest # 0) /\ UNCHANGED <<mutexVars, wants, has, missed>>
  BY DEF MInv, Scheduling, Yield
<1>2. Leaving(s) /\ s.stat = k.stat /\ s.prio = k.prio /\ s.nest = k.nest
  BY <1>1, YieldingLemma DEF All
<1> HIDE DEF s
<1>3. /\ pc' \in [Threads -> {"run", "schedule", "back"}] /\ error' \in [Threads -> {"OK", "TIMEOUT"}]
      /\ timed' \subseteq {u \in Threads : s.stat[u] = "SUSPEND"}
      /\ \A u \in Threads : wants[u] # 0 => pc'[u] # "run"
  BY <1>1, <1>2 DEF Scheduled, MInv, Owned, Asking
<1> QED
  BY <1>1, <1>2, <1>3, SchedulingKeeps

LEMMA TimeSliceKeeps ==
    ASSUME MInv, Scheduling(TimeSlice)
    PROVE  Scheduled' /\ Urgent' /\ Unseen
<1> DEFINE s == [k EXCEPT !.yield = @ \cup {k.current}]
<1>1. /\ Scheduled /\ k' = Schedule(s) /\ UNCHANGED <<timed, error, pc>>
      /\ unscheduled' = (unscheduled /\ k.nest # 0) /\ UNCHANGED <<mutexVars, wants, has, missed>>
  BY DEF MInv, Scheduling, TimeSlice
<1>2. Leaving(s) /\ s.stat = k.stat /\ s.prio = k.prio /\ s.nest = k.nest
  BY <1>1, YieldingLemma, ScheduledLemma
<1> HIDE DEF s
<1>3. /\ pc' \in [Threads -> {"run", "schedule", "back"}] /\ error' \in [Threads -> {"OK", "TIMEOUT"}]
      /\ timed' \subseteq {u \in Threads : s.stat[u] = "SUSPEND"}
      /\ \A u \in Threads : wants[u] # 0 => pc'[u] # "run"
  BY <1>1, <1>2 DEF Scheduled, MInv, Owned, Asking
<1> QED
  BY <1>1, <1>2, <1>3, SchedulingKeeps

LEMMA CallScheduleKeeps ==
    ASSUME MInv, NEW t \in Threads, Scheduling(CallSchedule(t))
    PROVE  Scheduled' /\ Urgent' /\ Unseen
<1>1. /\ Scheduled /\ k' = Schedule(k) /\ UNCHANGED <<timed, error>> /\ pc' = [pc EXCEPT ![t] = "back"]
      /\ unscheduled' = (unscheduled /\ k.nest # 0) /\ UNCHANGED <<mutexVars, wants, has, missed>>
  BY DEF MInv, Scheduling, CallSchedule
<1>2. Leaving(k)
  BY <1>1, ScheduledLemma
<1>3. /\ pc' \in [Threads -> {"run", "schedule", "back"}] /\ error' \in [Threads -> {"OK", "TIMEOUT"}]
      /\ timed' \subseteq {u \in Threads : k.stat[u] = "SUSPEND"}
      /\ \A u \in Threads : wants[u] # 0 => pc'[u] # "run"
  BY <1>1 DEF Scheduled, MInv, Owned, Asking
<1> QED
  BY <1>1, <1>2, <1>3, SchedulingKeeps

LEMMA ExitKeeps ==
    ASSUME MInv, NEW t \in Threads, Scheduling(Exit(t))
    PROVE  Scheduled' /\ Urgent' /\ Unseen
<1> DEFINE s == Closed(k, t)
<1>1. /\ Scheduled /\ Runs(t) /\ k.nest = 0 /\ k' = Schedule(s) /\ timed' = timed \ {t}
      /\ UNCHANGED <<error, pc>>
      /\ unscheduled' = (unscheduled /\ k.nest # 0) /\ UNCHANGED <<mutexVars, wants, has, missed>>
  BY DEF MInv, Scheduling, Exit, Closed
<1>2. /\ t \in All /\ t # Idle /\ Sound(k) /\ Threads \subseteq All /\ Idle \in All
      /\ k.stat \in [All -> States] /\ k.stat[t] = "RUNNING" /\ t = k.current
  BY <1>1, ScheduledLemma DEF Scheduled
<1>3. /\ Sound(s) /\ s.stat = [k.stat EXCEPT ![t] = "CLOSE"] /\ s.prio = k.prio
      /\ s.current = k.current /\ s.nest = k.nest
  BY <1>2, ClosedLemma
<1> HIDE DEF s
<1>4. Leaving(s)
  BY <1>1, <1>2, <1>3 DEF Leaving, Scheduled
<1>5. /\ pc' \in [Threads -> {"run", "schedule", "back"}] /\ error' \in [Threads -> {"OK", "TIMEOUT"}]
      /\ timed' \subseteq {u \in Threads : s.stat[u] = "SUSPEND"}
      /\ \A u \in Threads : wants[u] # 0 => pc'[u] # "run"
      /\ \A u \in Threads : s.stat[u] = "SUSPEND" <=> k.stat[u] = "SUSPEND"
  BY <1>1, <1>2, <1>3 DEF Scheduled, MInv, Owned, Asking
<1> QED
  BY <1>1, <1>3, <1>4, <1>5, SchedulingKeeps

\* A suspended thread made ready, and the scheduler called.
LEMMA WokenLemma ==
    ASSUME Scheduled, NEW t \in All, k.stat[t] = "SUSPEND"
    PROVE  LET s == Insert(k, t)
           IN  /\ Leaving(s) /\ s.prio = k.prio /\ s.nest = k.nest /\ s.current = k.current
               /\ s.stat = [k.stat EXCEPT ![t] = IF t = k.current THEN "RUNNING" ELSE "READY"]
<1> DEFINE s == Insert(k, t)
<1>1. Sound(k) /\ k.stat \in [All -> States] /\ Idle \in All /\ k.current \in All
  BY ScheduledLemma DEF Scheduled
<1>2. /\ Sound(s) /\ s.prio = k.prio /\ s.nest = k.nest /\ s.current = k.current
      /\ s.stat = [k.stat EXCEPT ![t] = IF t = k.current THEN "RUNNING" ELSE "READY"]
  BY <1>1, InsertSound
<1> HIDE DEF s
<1>3. Leaving(s)
  BY <1>1, <1>2 DEF Leaving, Scheduled
<1> QED
  BY <1>2, <1>3 DEF s

LEMMA ResumedByDeviceKeeps ==
    ASSUME MInv, NEW t \in Threads, wants[t] = 0, Scheduling(ResumedByDevice(t))
    PROVE  Scheduled' /\ Urgent' /\ Unseen
<1> DEFINE s == Insert(k, t)
<1>1. /\ Scheduled /\ k.stat[t] = "SUSPEND" /\ k' = Schedule(s) /\ timed' = timed \ {t}
      /\ UNCHANGED <<error, pc>>
      /\ unscheduled' = (unscheduled /\ k.nest # 0) /\ UNCHANGED <<mutexVars, wants, has, missed>>
  BY DEF MInv, Scheduling, ResumedByDevice
<1>2. t \in All /\ Threads \subseteq All /\ k.stat \in [All -> States]
  BY <1>1, ScheduledLemma
<1>3. /\ Leaving(s) /\ s.prio = k.prio /\ s.nest = k.nest
      /\ s.stat = [k.stat EXCEPT ![t] = IF t = k.current THEN "RUNNING" ELSE "READY"]
  BY <1>1, <1>2, WokenLemma
<1> HIDE DEF s
<1>4. /\ pc' \in [Threads -> {"run", "schedule", "back"}] /\ error' \in [Threads -> {"OK", "TIMEOUT"}]
      /\ timed' \subseteq {u \in Threads : s.stat[u] = "SUSPEND"}
      /\ \A u \in Threads : wants[u] # 0 => pc'[u] # "run"
      /\ \A u \in Threads : wants[u] # 0 => (s.stat[u] = "SUSPEND" <=> k.stat[u] = "SUSPEND")
  BY <1>1, <1>2, <1>3 DEF Scheduled, MInv, Owned, Asking
<1> QED
  BY <1>1, <1>3, <1>4, SchedulingKeeps

-----------------------------------------------------------------------------
(* Takes, counted.                                                         *)

Times(s, m) == Cardinality({i \in DOMAIN s : s[i] = m})

LEMMA TimesLemma ==
    ASSUME NEW S, NEW s \in Seq(S), NEW m
    PROVE  /\ IsFiniteSet({i \in DOMAIN s : s[i] = m})
           /\ Times(s, m) \in Nat /\ Times(s, m) <= Len(s)
           /\ Times(s, m) = 0 <=> \A i \in DOMAIN s : s[i] # m
<1> DEFINE I == {i \in DOMAIN s : s[i] = m}
<1>1. Len(s) \in Nat /\ DOMAIN s = 1 .. Len(s)
  OBVIOUS
<1>2. IsFiniteSet(1 .. Len(s)) /\ Cardinality(1 .. Len(s)) = Len(s)
  <2>1. 1 \in Int /\ Len(s) \in Int
    BY <1>1
  <2>2. /\ IsFiniteSet(1 .. Len(s))
        /\ Cardinality(1 .. Len(s)) = IF 1 > Len(s) THEN 0 ELSE Len(s) - 1 + 1
    BY <2>1, FS_Interval
  <2> QED
    BY <1>1, <2>2
<1>3. I \subseteq 1 .. Len(s)
  BY <1>1
<1>4. IsFiniteSet(I) /\ Cardinality(I) \in Nat /\ Cardinality(I) <= Len(s)
  BY <1>2, <1>3, FS_Subset, FS_CardinalityType
<1>5. Cardinality(I) = 0 <=> I = {}
  BY <1>4, FS_EmptySet
<1> QED
  BY <1>4, <1>5 DEF Times

LEMMA AppendTimes ==
    ASSUME NEW S, NEW s \in Seq(S), NEW e \in S, NEW m
    PROVE  Times(Append(s, e), m) = Times(s, m) + (IF e = m THEN 1 ELSE 0)
<1> DEFINE I == {i \in DOMAIN s : s[i] = m}
           r == Append(s, e)
           J == {i \in DOMAIN r : r[i] = m}
           n == Len(s) + 1
<1>1. /\ DOMAIN s = 1 .. Len(s) /\ Len(s) \in Nat /\ DOMAIN r = 1 .. n /\ r[n] = e
      /\ \A i \in 1 .. Len(s) : r[i] = s[i]
  OBVIOUS
<1>2. IsFiniteSet(I) /\ Cardinality(I) \in Nat
  BY TimesLemma DEF Times
<1> HIDE DEF r
<1>3. n \notin I /\ J = IF e = m THEN I \cup {n} ELSE I
  BY <1>1
<1> HIDE DEF I, J, n
<1>4. Cardinality(I \cup {n}) = Cardinality(I) + 1
  BY <1>2, <1>3, FS_AddElement
<1>5. Cardinality(J) = Cardinality(I) + (IF e = m THEN 1 ELSE 0)
  BY <1>2, <1>3, <1>4
<1> QED
  BY <1>5 DEF Times, I, J, r

LEMMA FrontTimes ==
    ASSUME NEW S, NEW s \in Seq(S), s # <<>>
    PROVE  /\ Front(s) \in Seq(S) /\ Last(s) \in S /\ Last(s) = s[Len(s)] /\ Len(s) \in DOMAIN s
           /\ \A i \in DOMAIN Front(s) : i \in DOMAIN s /\ Front(s)[i] = s[i]
           /\ \A m : Times(Front(s), m) = Times(s, m) - (IF Last(s) = m THEN 1 ELSE 0)
<1> DEFINE r == Front(s)
           n == Len(s)
<1>1. /\ DOMAIN s = 1 .. n /\ n \in Nat \ {0} /\ DOMAIN r = 1 .. n - 1 /\ r \in Seq(S) /\ Last(s) = s[n]
      /\ Last(s) \in S
      /\ \A i \in 1 .. n - 1 : r[i] = s[i]
  BY DEF Front, Last
<1> HIDE DEF r
<1>2. ASSUME NEW m PROVE Times(r, m) = Times(s, m) - (IF Last(s) = m THEN 1 ELSE 0)
  <2> DEFINE I == {i \in DOMAIN s : s[i] = m}
             J == {i \in DOMAIN r : r[i] = m}
  <2>1. IsFiniteSet(J) /\ Cardinality(J) \in Nat
    BY <1>1, TimesLemma DEF Times
  <2>2. n \notin J /\ I = IF Last(s) = m THEN J \cup {n} ELSE J
    BY <1>1
  <2> HIDE DEF I, J, n
  <2>3. Cardinality(J \cup {n}) = Cardinality(J) + 1
    BY <2>1, <2>2, FS_AddElement
  <2>4. Cardinality(J) = Cardinality(I) - (IF Last(s) = m THEN 1 ELSE 0)
    BY <2>1, <2>2, <2>3
  <2> QED
    BY <2>4 DEF Times, I, J
<1> QED
  BY <1>1, <1>2 DEF r

\* A take that is about to return.
Coming(t, m) == IF wants[t] = m /\ k.stat[t] # "SUSPEND" /\ error[t] = "OK" THEN 1 ELSE 0

\* What a thread has and what it owns.
LEMMA TakesLemma ==
    ASSUME Owned, NEW t \in Threads
    PROVE  /\ has[t] \in Seq(Mutexes)
           /\ \A m \in Mutexes :
                /\ TakesOf(t, m) = Times(has[t], m) + Coming(t, m)
                /\ Times(has[t], m) \in Nat /\ Times(has[t], m) <= Len(has[t])
                /\ Coming(t, m) \in {0, 1}
                /\ hold[m] \in Nat /\ owner[m] \in Threads \cup {NoThread}
                /\ wants[t] = 0 => Coming(t, m) = 0
                /\ owner[m] # t => Times(has[t], m) = 0 /\ Coming(t, m) = 0
                /\ owner[m] = t /\ Coming(t, m) = 0 => \E i \in DOMAIN has[t] : has[t][i] = m
<1>0. 0 \notin Mutexes /\ NoThread \notin Threads /\ MaxTakes \in Nat
  BY MutexAssumption DEF All
<1>1. has[t] \in Seq(Mutexes)
  BY DEF Owned, MutexTypes
<1>2. ASSUME NEW m \in Mutexes
      PROVE  /\ TakesOf(t, m) = Times(has[t], m) + Coming(t, m)
             /\ Times(has[t], m) \in Nat /\ Times(has[t], m) <= Len(has[t])
             /\ Coming(t, m) \in {0, 1}
             /\ hold[m] \in Nat /\ owner[m] \in Threads \cup {NoThread}
             /\ wants[t] = 0 => Coming(t, m) = 0
             /\ owner[m] # t => Times(has[t], m) = 0 /\ Coming(t, m) = 0
             /\ owner[m] = t /\ Coming(t, m) = 0 => \E i \in DOMAIN has[t] : has[t][i] = m
  <2>1. /\ Times(has[t], m) \in Nat /\ Times(has[t], m) <= Len(has[t])
        /\ Times(has[t], m) = 0 <=> \A i \in DOMAIN has[t] : has[t][i] # m
    BY <1>1, TimesLemma
  <2>2. TakesOf(t, m) = Times(has[t], m) + Coming(t, m)
    BY DEF TakesOf, Times, Coming
  <2>3. Coming(t, m) \in {0, 1} /\ (wants[t] = 0 => Coming(t, m) = 0)
    BY <1>0 DEF Coming
  <2>4. /\ hold[m] \in Nat /\ owner[m] \in Threads \cup {NoThread}
        /\ hold[m] = 0 <=> owner[m] = NoThread
        /\ TakesOf(t, m) = IF owner[m] = t THEN hold[m] ELSE 0
    BY <1>0 DEF Owned, MutexTypes, Held
  <2>5. owner[m] # t => Times(has[t], m) = 0 /\ Coming(t, m) = 0
    BY <2>1, <2>2, <2>3, <2>4
  <2>6. ASSUME owner[m] = t, Coming(t, m) = 0, Times(has[t], m) = 0 PROVE FALSE
    <3>1. TakesOf(t, m) = 0 /\ TakesOf(t, m) = hold[m]
      BY <2>2, <2>4, <2>6
    <3>2. owner[m] = NoThread
      BY <2>4, <3>1
    <3> QED
      BY <1>0, <2>6, <3>2
  <2> QED
    BY <2>1, <2>2, <2>3, <2>4, <2>5, <2>6
<1> QED
  BY <1>1, <1>2

-----------------------------------------------------------------------------
(* rt_mutex_take and rt_mutex_release, where the scheduler is not called.  *)

LEMMA RunsLemma ==
    ASSUME MInv, NEW t \in Threads, Runs(t)
    PROVE  /\ wants[t] = 0 /\ k.stat[t] = "RUNNING" /\ t = k.current
           /\ \A m \in Mutexes : Coming(t, m) = 0 /\ t \notin ToSet(suspend_thread[m])
<1>1. wants[t] = 0 /\ k.stat[t] = "RUNNING" /\ t = k.current
  BY ScheduledLemma DEF MInv, Owned, Asking, Runs
<1>2. \A m \in Mutexes : wants[t] # m /\ k.stat[t] # "SUSPEND"
  BY <1>1, MutexAssumption
<1> QED
  BY <1>1, <1>2 DEF Coming, MInv, Owned, Listed

LEMMA StillScheduled ==
    ASSUME MInv, UNCHANGED <<k, timed, pc, unscheduled>>, error' \in [Threads -> {"OK", "TIMEOUT"}]
    PROVE  Scheduled' /\ Urgent'
  BY DEF MInv, Scheduled, Urgent

LEMMA AppendInOrder ==
    ASSUME NEW l \in Seq(Mutexes), NEW m \in Mutexes, \A i \in DOMAIN l : l[i] <= m,
           \A i, j \in DOMAIN l : i < j => l[i] <= l[j]
    PROVE  \A i, j \in DOMAIN Append(l, m) : i < j => Append(l, m)[i] <= Append(l, m)[j]
<1>1. /\ DOMAIN l = 1 .. Len(l) /\ DOMAIN Append(l, m) = 1 .. Len(l) + 1 /\ Len(l) \in Nat
      /\ Append(l, m)[Len(l) + 1] = m /\ \A i \in 1 .. Len(l) : Append(l, m)[i] = l[i]
  OBVIOUS
<1> DEFINE r == Append(l, m)
<1> HIDE DEF r
<1> SUFFICES ASSUME NEW i \in 1 .. Len(l) + 1, NEW j \in 1 .. Len(l) + 1, i < j PROVE r[i] <= r[j]
  BY <1>1 DEF r
<1>2. i \in 1 .. Len(l) /\ r[i] = l[i]
  BY <1>1 DEF r
<1>3. j \in 1 .. Len(l) => r[j] = l[j]
  BY <1>1 DEF r
<1>4. j \notin 1 .. Len(l) => r[j] = m
  BY <1>1 DEF r
<1> QED
  BY <1>1, <1>2, <1>3, <1>4

LEMMA TakeAgainKeeps ==
    ASSUME MInv, NEW t \in Threads, NEW m \in Mutexes, TakeAgain(t, m)
    PROVE  Scheduled' /\ Urgent' /\ Owned'
<1>1. /\ Runs(t) /\ Len(has[t]) < MaxTakes /\ (\A i \in DOMAIN has[t] : has[t][i] <= m)
      /\ owner[m] = t /\ hold' = [hold EXCEPT ![m] = @ + 1]
      /\ error' = [error EXCEPT ![t] = "OK"] /\ has' = [has EXCEPT ![t] = Append(@, m)]
      /\ UNCHANGED <<k, timed, pc, value, owner, original_priority, suspend_thread, wants,
                     missed, unscheduled>>
  BY DEF TakeAgain, MayTake
<1>2. /\ Owned /\ wants[t] = 0 /\ (\A n \in Mutexes : Coming(t, n) = 0)
      /\ error' \in [Threads -> {"OK", "TIMEOUT"}]
  BY <1>1, RunsLemma DEF MInv, Scheduled
<1>3. Scheduled' /\ Urgent'
  BY <1>1, <1>2, StillScheduled
<1>4. /\ has[t] \in Seq(Mutexes) /\ Append(has[t], m) \in Seq(Mutexes) /\ has \in [Threads -> Seq(Mutexes)]
      /\ hold \in [Mutexes -> 0 .. MaxTakes] /\ MaxTakes \in Nat /\ NoThread \notin Threads
      /\ Mutexes \subseteq Nat
  BY <1>2, MutexAssumption DEF Owned, MutexTypes, All
<1>5. /\ hold[m] = Times(has[t], m) /\ Times(has[t], m) \in Nat /\ Times(has[t], m) <= Len(has[t])
      /\ Len(has[t]) \in Nat
  BY <1>1, <1>2, <1>4, TakesLemma DEF Owned, Held
<1>6. hold' \in [Mutexes -> 0 .. MaxTakes] /\ hold'[m] # 0
  <2>1. hold[m] + 1 \in 0 .. MaxTakes /\ hold[m] + 1 # 0
    BY <1>1, <1>4, <1>5
  <2> QED
    BY <1>1, <1>4, <2>1
<1>7. MutexTypes'
  BY <1>1, <1>2, <1>4, <1>6 DEF Owned, MutexTypes
<1>8. Held'
  <2>1. ASSUME NEW u \in Threads, NEW n \in Mutexes
        PROVE  TakesOf(u, n)' = IF owner'[n] = u THEN hold'[n] ELSE 0
    <3>1. TakesOf(u, n) = IF owner[n] = u THEN hold[n] ELSE 0
      BY <1>2 DEF Owned, Held
    <3>2. CASE u # t
      <4>1. TakesOf(u, n)' = TakesOf(u, n)
        BY <1>1, <3>2 DEF TakesOf
      <4>2. owner[n] = u => hold'[n] = hold[n]
        BY <1>1, <1>4, <3>2
      <4> QED
        BY <1>1, <3>1, <4>1, <4>2
    <3>3. CASE u = t
      <4>1. TakesOf(t, n)' = Times(Append(has[t], m), n)
        <5>1. has'[t] = Append(has[t], m) /\ wants'[t] # n
          BY <1>1, <1>2, <1>4, MutexAssumption
        <5>2. TakesOf(t, n)' = Times(has'[t], n) + 0
          BY <5>1 DEF TakesOf, Times
        <5>3. Times(has'[t], n) \in Nat
          BY <1>4, <5>1, TimesLemma
        <5> QED
          BY <5>1, <5>2, <5>3
      <4>2. Times(Append(has[t], m), n) = Times(has[t], n) + (IF m = n THEN 1 ELSE 0)
        BY <1>4, AppendTimes
      <4>3. TakesOf(t, n) = Times(has[t], n) /\ Times(has[t], n) \in Nat
        BY <1>2, TakesLemma
      <4>4. owner[n] = t => hold'[n] = hold[n] + (IF m = n THEN 1 ELSE 0)
        BY <1>1, <1>4
      <4> QED
        BY <1>1, <3>1, <3>3, <4>1, <4>2, <4>3, <4>4
    <3> QED
      BY <3>2, <3>3
  <2> QED
    BY <1>1, <1>2, <1>4, <1>6, <2>1 DEF Owned, Held
<1>9. Listed'
  BY <1>1, <1>2 DEF Owned, Listed
<1>10. Asking'
  BY <1>1, <1>2, <1>4 DEF Owned, Asking, MutexTypes
<1>11. TakenInOrder'
  <2>1. \A u \in Threads : \A i, j \in DOMAIN has[u] : i < j => has[u][i] <= has[u][j]
    BY <1>2 DEF Owned, TakenInOrder
  <2>2. \A i, j \in DOMAIN Append(has[t], m) : i < j => Append(has[t], m)[i] <= Append(has[t], m)[j]
    BY <1>1, <1>4, <2>1, AppendInOrder
  <2>3. has'[t] = Append(has[t], m) /\ \A u \in Threads \ {t} : has'[u] = has[u]
    BY <1>1, <1>4
  <2> QED
    BY <2>1, <2>2, <2>3 DEF TakenInOrder
<1>12. BaseRestored' /\ FirstRemembers' /\ InheritsPriority' /\ Sorted'
  BY <1>1, <1>2 DEF Owned, BaseRestored, FirstRemembers, InheritsPriority, Sorted, Rising
<1> QED
  BY <1>3, <1>7, <1>8, <1>9, <1>10, <1>11, <1>12 DEF Owned

LEMMA TakeFreeKeeps ==
    ASSUME MInv, NEW t \in Threads, NEW m \in Mutexes, TakeFree(t, m)
    PROVE  Scheduled' /\ Urgent' /\ Owned'
<1>1. /\ Runs(t) /\ Len(has[t]) < MaxTakes /\ (\A i \in DOMAIN has[t] : has[t][i] <= m)
      /\ owner[m] # t /\ value[m] > 0
      /\ value' = [value EXCEPT ![m] = @ - 1] /\ owner' = [owner EXCEPT ![m] = t]
      /\ original_priority' = [original_priority EXCEPT ![m] = k.prio[t]]
      /\ hold' = [hold EXCEPT ![m] = @ + 1]
      /\ error' = [error EXCEPT ![t] = "OK"] /\ has' = [has EXCEPT ![t] = Append(@, m)]
      /\ UNCHANGED <<k, timed, pc, suspend_thread, wants, missed, unscheduled>>
  BY DEF TakeFree, MayTake
<1>2. /\ Owned /\ wants[t] = 0 /\ (\A n \in Mutexes : Coming(t, n) = 0)
      /\ error' \in [Threads -> {"OK", "TIMEOUT"}] /\ k.prio[t] \in Priorities
  BY <1>1, RunsLemma, ScheduledLemma DEF MInv, Scheduled
<1>3. Scheduled' /\ Urgent'
  BY <1>1, <1>2, StillScheduled
<1>4. /\ has[t] \in Seq(Mutexes) /\ Append(has[t], m) \in Seq(Mutexes) /\ has \in [Threads -> Seq(Mutexes)]
      /\ hold \in [Mutexes -> 0 .. MaxTakes] /\ MaxTakes \in Nat /\ NoThread \notin Threads
      /\ Mutexes \subseteq Nat /\ value \in [Mutexes -> {0, 1}]
      /\ owner \in [Mutexes -> Threads \cup {NoThread}]
      /\ original_priority \in [Mutexes -> Priorities] /\ Len(has[t]) \in Nat
  BY <1>2, MutexAssumption DEF Owned, MutexTypes, All
<1>5. value[m] = 1 /\ owner[m] = NoThread /\ hold[m] = 0 /\ suspend_thread[m] = <<>>
  BY <1>1, <1>2, <1>4 DEF Owned, Held, Listed
<1>6. /\ hold' \in [Mutexes -> 0 .. MaxTakes] /\ hold'[m] = 1 /\ value' \in [Mutexes -> {0, 1}]
      /\ value'[m] = 0
  <2>1. 1 \in 0 .. MaxTakes
    BY <1>1, <1>4
  <2> QED
    BY <1>1, <1>4, <1>5, <2>1
<1>7. MutexTypes'
  BY <1>1, <1>2, <1>4, <1>6 DEF Owned, MutexTypes
<1>8. /\ owner'[m] = t /\ original_priority'[m] = k.prio[t]
      /\ \A n \in Mutexes \ {m} : /\ owner'[n] = owner[n] /\ hold'[n] = hold[n] /\ value'[n] = value[n]
                                  /\ original_priority'[n] = original_priority[n]
  BY <1>1, <1>4
<1>9. Held'
  <2>1. ASSUME NEW u \in Threads, NEW n \in Mutexes
        PROVE  TakesOf(u, n)' = IF owner'[n] = u THEN hold'[n] ELSE 0
    <3>1. TakesOf(u, n) = IF owner[n] = u THEN hold[n] ELSE 0
      BY <1>2 DEF Owned, Held
    <3>2. CASE u # t
      <4>1. TakesOf(u, n)' = TakesOf(u, n)
        BY <1>1, <3>2 DEF TakesOf
      <4> QED
        BY <1>4, <1>5, <1>8, <3>1, <3>2, <4>1
    <3>3. CASE u = t
      <4>1. TakesOf(t, n)' = Times(Append(has[t], m), n)
        <5>1. has'[t] = Append(has[t], m) /\ wants'[t] # n
          BY <1>1, <1>2, <1>4, MutexAssumption
        <5>2. TakesOf(t, n)' = Times(has'[t], n) + 0
          BY <5>1 DEF TakesOf, Times
        <5>3. Times(has'[t], n) \in Nat
          BY <1>4, <5>1, TimesLemma
        <5> QED
          BY <5>1, <5>2, <5>3
      <4>2. Times(Append(has[t], m), n) = Times(has[t], n) + (IF m = n THEN 1 ELSE 0)
        BY <1>4, AppendTimes
      <4>3. TakesOf(t, n) = Times(has[t], n) /\ Times(has[t], n) \in Nat
        BY <1>2, TakesLemma
      <4>4. CASE n = m
        BY <1>1, <1>6, <1>8, <3>1, <3>3, <4>1, <4>2, <4>3, <4>4
      <4>5. CASE n # m
        BY <1>8, <3>1, <3>3, <4>1, <4>2, <4>3, <4>5
      <4> QED
        BY <4>4, <4>5
    <3> QED
      BY <3>2, <3>3
  <2>2. \A n \in Mutexes : (value'[n] = 1 <=> owner'[n] = NoThread) /\ (hold'[n] = 0 <=> owner'[n] = NoThread)
    BY <1>2, <1>4, <1>6, <1>8 DEF Owned, Held
  <2> QED
    BY <2>1, <2>2 DEF Held
<1>10. Listed'
  BY <1>1, <1>2, <1>5, <1>8 DEF Owned, Listed
<1>11. Asking'
  BY <1>1, <1>2, <1>4 DEF Owned, Asking, MutexTypes
<1>12. TakenInOrder'
  <2>1. \A u \in Threads : \A i, j \in DOMAIN has[u] : i < j => has[u][i] <= has[u][j]
    BY <1>2 DEF Owned, TakenInOrder
  <2>2. \A i, j \in DOMAIN Append(has[t], m) : i < j => Append(has[t], m)[i] <= Append(has[t], m)[j]
    BY <1>1, <1>4, <2>1, AppendInOrder
  <2>3. has'[t] = Append(has[t], m) /\ \A u \in Threads \ {t} : has'[u] = has[u]
    BY <1>1, <1>4
  <2> QED
    BY <2>1, <2>2, <2>3 DEF TakenInOrder
<1>13. BaseRestored'
  <2> SUFFICES ASSUME NEW u \in Threads, \A n \in Mutexes : owner'[n] # u
               PROVE  k'.prio[u] = init_priority[u]
    BY DEF BaseRestored
  <2>1. \A n \in Mutexes : owner[n] # u
    <3>1. u # NoThread
      BY <1>4
    <3> QED
      BY <1>5, <1>8, <3>1
  <2> QED
    BY <1>1, <1>2, <2>1 DEF Owned, BaseRestored
<1>14. \A n \in Mutexes : owner[n] = t => n < m
  <2> SUFFICES ASSUME NEW n \in Mutexes, owner[n] = t PROVE n < m
    OBVIOUS
  <2>1. PICK i \in DOMAIN has[t] : has[t][i] = n
    BY <1>2, TakesLemma
  <2> QED
    BY <1>1, <1>4, <2>1
<1>15. FirstRemembers'
  <2> SUFFICES ASSUME NEW u \in Threads, NEW n \in Mutexes, owner'[n] = u,
                      \A o \in Mutexes : owner'[o] = u => n <= o
               PROVE  original_priority'[n] = init_priority[u]
    BY DEF FirstRemembers
  <2>1. CASE n = m
    <3>1. u = t /\ \A o \in Mutexes : owner[o] # t
      <4>1. u = t
        BY <1>8, <2>1
      <4>2. ASSUME NEW o \in Mutexes, owner[o] = t PROVE FALSE
        <5>1. o < m /\ o # m /\ owner'[o] = t /\ o \in Nat /\ m \in Nat
          BY <1>4, <1>8, <1>14, <4>2
        <5> QED
          BY <2>1, <4>1, <5>1
      <4> QED
        BY <4>1, <4>2
    <3> QED
      BY <1>2, <1>8, <2>1, <3>1 DEF Owned, BaseRestored
  <2>2. CASE n # m
    <3>1. owner[n] = u /\ \A o \in Mutexes : owner[o] = u => n <= o
      <4>1. owner[m] # u
        BY <1>4, <1>5
      <4>2. \A o \in Mutexes \ {m} : owner'[o] = owner[o]
        BY <1>8
      <4> QED
        BY <2>2, <4>1, <4>2
    <3> QED
      BY <1>2, <1>8, <2>2, <3>1 DEF Owned, FirstRemembers
  <2> QED
    BY <2>1, <2>2
<1>16. InheritsPriority' /\ Sorted'
  <2>1. ToSet(suspend_thread[m]) = {}
    BY <1>5 DEF ToSet
  <2> QED
    BY <1>1, <1>2, <1>8, <2>1 DEF Owned, InheritsPriority, Sorted, Rising
<1> QED
  BY <1>3, <1>7, <1>9, <1>10, <1>11, <1>12, <1>13, <1>15, <1>16 DEF Owned

\* The last of a thread's takes.
LEMMA MayReleaseLemma ==
    ASSUME MInv, NEW t \in Threads, NEW m \in Mutexes, MayRelease(t, m)
    PROVE  /\ Runs(t) /\ has[t] # <<>> /\ m = Last(has[t]) /\ owner[m] = t /\ wants[t] = 0
           /\ Times(has[t], m) = hold[m] /\ hold[m] \in Nat \ {0}
           /\ Front(has[t]) \in Seq(Mutexes)
           /\ \A i \in DOMAIN Front(has[t]) : i \in DOMAIN has[t] /\ Front(has[t])[i] = has[t][i]
           /\ \A n \in Mutexes : Times(Front(has[t]), n) = Times(has[t], n) - (IF m = n THEN 1 ELSE 0)
           /\ \A n \in Mutexes : owner[n] = t => n <= m
<1>1. /\ Runs(t) /\ has[t] # <<>> /\ m = Last(has[t]) /\ wants[t] = 0 /\ Owned
      /\ \A n \in Mutexes : Coming(t, n) = 0
  BY RunsLemma DEF MayRelease, MInv
<1>2. /\ has[t] \in Seq(Mutexes)
      /\ \A n \in Mutexes :
           /\ TakesOf(t, n) = Times(has[t], n) + Coming(t, n)
           /\ Times(has[t], n) \in Nat /\ hold[n] \in Nat
           /\ owner[n] # t => Times(has[t], n) = 0
           /\ owner[n] = t /\ Coming(t, n) = 0 => \E i \in DOMAIN has[t] : has[t][i] = n
  BY <1>1, TakesLemma
<1>3. /\ Front(has[t]) \in Seq(Mutexes) /\ Last(has[t]) = has[t][Len(has[t])] /\ Len(has[t]) \in DOMAIN has[t]
      /\ \A i \in DOMAIN Front(has[t]) : i \in DOMAIN has[t] /\ Front(has[t])[i] = has[t][i]
      /\ \A n \in Mutexes : Times(Front(has[t]), n) = Times(has[t], n) - (IF m = n THEN 1 ELSE 0)
  BY <1>1, <1>2, FrontTimes
<1>4. Times(has[t], m) # 0
  <2>1. Len(has[t]) \in DOMAIN has[t] /\ has[t][Len(has[t])] = m
    BY <1>1, <1>3
  <2>2. Times(has[t], m) = 0 <=> \A i \in DOMAIN has[t] : has[t][i] # m
    BY <1>2, TimesLemma
  <2> QED
    BY <2>1, <2>2
<1>5. owner[m] = t /\ Times(has[t], m) = hold[m]
  BY <1>1, <1>2, <1>4 DEF Owned, Held
<1>6. ASSUME NEW n \in Mutexes, owner[n] = t PROVE n <= m
  <2>1. PICK i \in DOMAIN has[t] : has[t][i] = n
    BY <1>1, <1>2, <1>6
  <2>2. i \in Nat /\ Len(has[t]) \in Nat /\ i <= Len(has[t]) /\ n \in Nat /\ m \in Nat
    BY <1>2, <2>1, MutexAssumption
  <2>3. i < Len(has[t]) => has[t][i] <= has[t][Len(has[t])]
    BY <1>1, <1>3, <2>1 DEF Owned, TakenInOrder
  <2>4. has[t][Len(has[t])] = m
    BY <1>1, <1>3
  <2> QED
    BY <2>1, <2>2, <2>3, <2>4
<1> QED
  BY <1>1, <1>2, <1>3, <1>4, <1>5, <1>6

LEMMA PartInOrder ==
    ASSUME NEW l, NEW part, \A i \in DOMAIN part : i \in DOMAIN l /\ part[i] = l[i],
           \A i, j \in DOMAIN l : i < j => l[i] <= l[j]
    PROVE  \A i, j \in DOMAIN part : i < j => part[i] <= part[j]
  OBVIOUS

LEMMA ReleaseOneKeeps ==
    ASSUME MInv, NEW t \in Threads, NEW m \in Mutexes, ReleaseOne(t, m)
    PROVE  Scheduled' /\ Urgent' /\ Owned'
<1>1. /\ MayRelease(t, m) /\ hold[m] > 1 /\ hold' = [hold EXCEPT ![m] = @ - 1]
      /\ has' = [has EXCEPT ![t] = Front(@)]
      /\ UNCHANGED <<k, timed, error, pc, value, owner, original_priority, suspend_thread, wants,
                     missed, unscheduled>>
  BY DEF ReleaseOne
<1>2. /\ Runs(t) /\ owner[m] = t /\ wants[t] = 0 /\ Owned
      /\ Front(has[t]) \in Seq(Mutexes)
      /\ \A i \in DOMAIN Front(has[t]) : i \in DOMAIN has[t] /\ Front(has[t])[i] = has[t][i]
      /\ \A n \in Mutexes : Times(Front(has[t]), n) = Times(has[t], n) - (IF m = n THEN 1 ELSE 0)
      /\ \A n \in Mutexes : Coming(t, n) = 0
  <2>1. /\ Runs(t) /\ owner[m] = t /\ wants[t] = 0
        /\ Front(has[t]) \in Seq(Mutexes)
        /\ \A i \in DOMAIN Front(has[t]) : i \in DOMAIN has[t] /\ Front(has[t])[i] = has[t][i]
        /\ \A n \in Mutexes : Times(Front(has[t]), n) = Times(has[t], n) - (IF m = n THEN 1 ELSE 0)
    BY <1>1, MayReleaseLemma
  <2>2. Owned /\ \A n \in Mutexes : Coming(t, n) = 0
    BY <2>1, RunsLemma DEF MInv
  <2> QED
    BY <2>1, <2>2
<1>3. Scheduled' /\ Urgent'
  BY <1>1, StillScheduled DEF MInv, Scheduled
<1>4. /\ has \in [Threads -> Seq(Mutexes)] /\ hold \in [Mutexes -> 0 .. MaxTakes] /\ MaxTakes \in Nat
      /\ NoThread \notin Threads /\ Mutexes \subseteq Nat
  BY <1>2, MutexAssumption DEF Owned, MutexTypes, All
<1>5. hold' \in [Mutexes -> 0 .. MaxTakes] /\ hold'[m] # 0
  <2>1. hold[m] - 1 \in 0 .. MaxTakes /\ hold[m] - 1 # 0
    BY <1>1, <1>4
  <2> QED
    BY <1>1, <1>4, <2>1
<1>6. MutexTypes'
  BY <1>1, <1>2, <1>4, <1>5 DEF Owned, MutexTypes
<1>7. Held'
  <2>1. ASSUME NEW u \in Threads, NEW n \in Mutexes
        PROVE  TakesOf(u, n)' = IF owner'[n] = u THEN hold'[n] ELSE 0
    <3>1. TakesOf(u, n) = IF owner[n] = u THEN hold[n] ELSE 0
      BY <1>2 DEF Owned, Held
    <3>2. CASE u # t
      <4>1. TakesOf(u, n)' = TakesOf(u, n)
        BY <1>1, <3>2 DEF TakesOf
      <4>2. owner[n] = u => hold'[n] = hold[n]
        BY <1>1, <1>2, <1>4, <3>2
      <4> QED
        BY <1>1, <3>1, <4>1, <4>2
    <3>3. CASE u = t
      <4>1. TakesOf(t, n)' = Times(Front(has[t]), n)
        <5>1. has'[t] = Front(has[t]) /\ wants'[t] # n
          BY <1>1, <1>2, <1>4, MutexAssumption
        <5>2. TakesOf(t, n)' = Times(has'[t], n) + 0
          BY <5>1 DEF TakesOf, Times
        <5>3. Times(has'[t], n) \in Nat
          <6>1. has'[t] \in Seq(Mutexes)
            BY <1>2, <5>1
          <6> QED
            BY <6>1, TimesLemma
        <5> QED
          BY <5>1, <5>2, <5>3
      <4>2. TakesOf(t, n) = Times(has[t], n) /\ Times(has[t], n) \in Nat
        BY <1>2, TakesLemma
      <4>3. owner[n] = t => hold'[n] = hold[n] - (IF m = n THEN 1 ELSE 0)
        BY <1>1, <1>4
      <4> QED
        BY <1>1, <1>2, <3>1, <3>3, <4>1, <4>2, <4>3
    <3> QED
      BY <3>2, <3>3
  <2> QED
    BY <1>1, <1>2, <1>4, <1>5, <2>1 DEF Owned, Held
<1>8. Listed'
  BY <1>1, <1>2 DEF Owned, Listed
<1>9. Asking'
  BY <1>1, <1>2, <1>4 DEF Owned, Asking, MutexTypes
<1>10. TakenInOrder'
  <2>1. \A u \in Threads : \A i, j \in DOMAIN has[u] : i < j => has[u][i] <= has[u][j]
    BY <1>2 DEF Owned, TakenInOrder
  <2>2. has'[t] = Front(has[t]) /\ \A u \in Threads \ {t} : has'[u] = has[u]
    BY <1>1, <1>2, <1>4
  <2>3. \A i \in DOMAIN has'[t] : i \in DOMAIN has[t] /\ has'[t][i] = has[t][i]
    BY <1>2, <2>2
  <2>4. \A i, j \in DOMAIN has'[t] : i < j => has'[t][i] <= has'[t][j]
    BY <2>1, <2>3, PartInOrder, Zenon
  <2> QED
    BY <2>1, <2>2, <2>4 DEF TakenInOrder
<1>11. BaseRestored' /\ FirstRemembers' /\ InheritsPriority' /\ Sorted'
  BY <1>1, <1>2 DEF Owned, BaseRestored, FirstRemembers, InheritsPriority, Sorted, Rising
<1> QED
  BY <1>3, <1>6, <1>7, <1>8, <1>9, <1>10, <1>11 DEF Owned

LEMMA BackKeeps ==
    ASSUME MInv, NEW t \in Threads, Back(t)
    PROVE  Scheduled' /\ Urgent' /\ Owned'
<1> DEFINE got == wants[t] # 0 /\ error[t] = "OK"
<1>1. /\ t = k.current /\ pc[t] = "back" /\ pc' = [pc EXCEPT ![t] = "run"]
      /\ wants' = [wants EXCEPT ![t] = 0]
      /\ has' = IF got THEN [has EXCEPT ![t] = Append(@, wants[t])] ELSE has
      /\ error' = [error EXCEPT ![t] = "OK"]
      /\ UNCHANGED <<k, timed, value, owner, original_priority, hold, suspend_thread, missed, unscheduled>>
  BY DEF Back, mutexVars
<1>2. /\ Owned /\ Scheduled /\ Urgent /\ k.stat[t] = "RUNNING" /\ 0 \notin Mutexes /\ Mutexes \subseteq Nat
      /\ NoThread \notin Threads
      /\ wants \in [Threads -> Mutexes \cup {0}] /\ has \in [Threads -> Seq(Mutexes)]
      /\ error \in [Threads -> {"OK", "TIMEOUT"}]
  BY <1>1, MutexAssumption DEF MInv, Scheduled, Owned, MutexTypes, All
<1>3. Scheduled' /\ Urgent'
  BY <1>1, <1>2 DEF Scheduled, Urgent
<1> HIDE DEF got
<1>4. has[t] \in Seq(Mutexes) /\ (got => wants[t] \in Mutexes /\ Append(has[t], wants[t]) \in Seq(Mutexes))
  BY <1>2 DEF got
<1>5. /\ has' \in [Threads -> Seq(Mutexes)] /\ wants' \in [Threads -> Mutexes \cup {0}] /\ wants'[t] = 0
      /\ got => has'[t] = Append(has[t], wants[t])
      /\ ~got => has'[t] = has[t]
      /\ \A u \in Threads \ {t} : has'[u] = has[u] /\ wants'[u] = wants[u] /\ error'[u] = error[u]
                                  /\ pc'[u] = pc[u]
  BY <1>1, <1>2, <1>4 DEF Scheduled
<1>6. MutexTypes'
  BY <1>1, <1>2, <1>5 DEF Owned, MutexTypes
<1>7. Held'
  <2>1. ASSUME NEW u \in Threads, NEW n \in Mutexes PROVE TakesOf(u, n)' = TakesOf(u, n)
    <3>1. CASE u # t
      BY <1>1, <1>5, <3>1 DEF TakesOf
    <3>2. CASE u = t
      <4>1. TakesOf(t, n)' = Times(has'[t], n)
        <5>1. TakesOf(t, n)' = Times(has'[t], n) + 0
          BY <1>2, <1>5 DEF TakesOf, Times
        <5>2. has'[t] \in Seq(Mutexes)
          BY <1>5
        <5>3. Times(has'[t], n) \in Nat
          BY <5>2, TimesLemma
        <5> QED
          BY <5>1, <5>3
      <4>2. TakesOf(t, n) = Times(has[t], n) + (IF got /\ wants[t] = n THEN 1 ELSE 0)
            /\ Times(has[t], n) \in Nat
        <5>1. TakesOf(t, n) = Times(has[t], n) + Coming(t, n) /\ Times(has[t], n) \in Nat
          BY <1>2, TakesLemma
        <5>2. Coming(t, n) = IF got /\ wants[t] = n THEN 1 ELSE 0
          BY <1>2 DEF Coming, got
        <5> QED
          BY <5>1, <5>2
      <4>3. CASE got
        <5>1. Times(Append(has[t], wants[t]), n) = Times(has[t], n) + (IF wants[t] = n THEN 1 ELSE 0)
          BY <1>4, <4>3, AppendTimes
        <5> QED
          BY <1>5, <3>2, <4>1, <4>2, <4>3, <5>1
      <4>4. CASE ~got
        BY <1>5, <3>2, <4>1, <4>2, <4>4
      <4> QED
        BY <4>3, <4>4
    <3> QED
      BY <3>1, <3>2
  <2>2. \A u \in Threads, n \in Mutexes : TakesOf(u, n)' = TakesOf(u, n)
    BY <2>1
  <2> QED
    BY <1>1, <1>2, <2>2 DEF Owned, Held
<1>8. Listed'
  <2> SUFFICES ASSUME NEW m \in Mutexes
               PROVE  /\ IsInjective(suspend_thread'[m])
                      /\ ToSet(suspend_thread'[m])
                           = {u \in Threads : wants'[u] = m /\ k'.stat[u] = "SUSPEND"}
                      /\ owner'[m] = NoThread => suspend_thread'[m] = <<>>
    BY DEF Listed
  <2>1. {u \in Threads : wants'[u] = m /\ k'.stat[u] = "SUSPEND"}
          = {u \in Threads : wants[u] = m /\ k.stat[u] = "SUSPEND"}
    BY <1>1, <1>2, <1>5
  <2> QED
    BY <1>1, <1>2, <2>1 DEF Owned, Listed
<1>9. Asking'
  <2> SUFFICES ASSUME NEW u \in Threads, wants'[u] # 0
               PROVE  /\ pc'[u] # "run" /\ (\A i \in DOMAIN has'[u] : has'[u][i] < wants'[u])
                      /\ k'.stat[u] = "SUSPEND" => error'[u] = "OK"
    BY DEF Asking
  <2>1. u # t
    BY <1>5
  <2> QED
    BY <1>1, <1>2, <1>5, <2>1 DEF Owned, Asking
<1>10. TakenInOrder'
  <2>1. ASSUME NEW i \in DOMAIN has'[t], NEW j \in DOMAIN has'[t], i < j PROVE has'[t][i] <= has'[t][j]
    <3>1. CASE ~got
      <4>1. \A n, o \in DOMAIN has[t] : n < o => has[t][n] <= has[t][o]
        BY <1>2 DEF Owned, TakenInOrder
      <4> QED
        BY <1>5, <2>1, <3>1, <4>1
    <3>2. CASE got
      <4>1. wants[t] \in Mutexes /\ has[t] \in Seq(Mutexes)
        BY <1>4, <3>2
      <4>2. \A n \in DOMAIN has[t] : has[t][n] <= wants[t]
        <5>1. \A n \in DOMAIN has[t] : has[t][n] \in Mutexes
          BY <4>1
        <5>2. \A n \in DOMAIN has[t] : has[t][n] < wants[t]
          BY <1>2, <3>2 DEF Owned, Asking, got
        <5>3. wants[t] \in Nat /\ \A n \in DOMAIN has[t] : has[t][n] \in Nat
          BY <4>1, <5>1, MutexAssumption
        <5> QED
          BY <5>2, <5>3
      <4>3. \A n, o \in DOMAIN has[t] : n < o => has[t][n] <= has[t][o]
        BY <1>2 DEF Owned, TakenInOrder
      <4>4. has'[t] = Append(has[t], wants[t])
        BY <1>5, <3>2
      <4> QED
        BY <2>1, <4>1, <4>2, <4>3, <4>4, AppendInOrder
    <3> QED
      BY <3>1, <3>2
  <2>2. ASSUME NEW u \in Threads, NEW i \in DOMAIN has'[u], NEW j \in DOMAIN has'[u], i < j
        PROVE  has'[u][i] <= has'[u][j]
    <3>1. CASE u = t
      BY <2>1, <2>2, <3>1
    <3>2. CASE u # t
      BY <1>2, <1>5, <2>2, <3>2 DEF Owned, TakenInOrder
    <3> QED
      BY <3>1, <3>2
  <2> QED
    BY <2>2 DEF TakenInOrder
<1>11. BaseRestored' /\ FirstRemembers' /\ InheritsPriority' /\ Sorted'
  BY <1>1, <1>2 DEF Owned, BaseRestored, FirstRemembers, InheritsPriority, Sorted, Rising
<1> QED
  BY <1>3, <1>6, <1>7, <1>8, <1>9, <1>10, <1>11 DEF Owned

-----------------------------------------------------------------------------
(* The timeout of a waiting thread.                                        *)

LEMMA TimeOutKeeps ==
    ASSUME MInv, NEW t \in Threads, TimeOut(t)
    PROVE  Scheduled' /\ Urgent' /\ Owned'
<1> DEFINE s == Insert(k, t)
<1>1. /\ t \in timed /\ k.stat[t] = "SUSPEND" /\ k' = Schedule(s) /\ timed' = timed \ {t}
      /\ error' = [error EXCEPT ![t] = "TIMEOUT"] /\ UNCHANGED pc
      /\ suspend_thread' = [m \in Mutexes |-> RemoveFirst(suspend_thread[m], t)]
      /\ unscheduled' = (unscheduled /\ k.nest # 0)
      /\ UNCHANGED <<value, owner, original_priority, hold, wants, has, missed>>
  BY DEF TimeOut, ThreadTimeout
<1>2. /\ t \in All /\ Threads \subseteq All /\ k.stat \in [All -> States] /\ Scheduled /\ Owned
      /\ 0 \notin Mutexes
  BY ScheduledLemma, MutexAssumption DEF MInv
<1>3. /\ Leaving(s) /\ s.prio = k.prio /\ s.nest = k.nest
      /\ s.stat = [k.stat EXCEPT ![t] = IF t = k.current THEN "RUNNING" ELSE "READY"]
  BY <1>1, <1>2, WokenLemma
<1> HIDE DEF s
<1>4. /\ Sound(k') /\ Kept(k', s) /\ k'.stat[Idle] \in {"READY", "RUNNING"}
      /\ k'.stat[k'.current] = "RUNNING" /\ Urgent'
  BY <1>1, <1>2, <1>3, Rescheduled
<1>5. k'.prio = k.prio /\ \A u \in Threads : k'.stat[u] = "SUSPEND" <=> k.stat[u] = "SUSPEND" /\ u # t
  BY <1>2, <1>3, <1>4 DEF Kept
<1>6. Scheduled'
  BY <1>1, <1>2, <1>4, <1>5 DEF Scheduled
<1>7. ASSUME NEW m \in Mutexes
      PROVE  /\ suspend_thread'[m] \in Seq(Threads) /\ IsInjective(suspend_thread'[m])
             /\ ToSet(suspend_thread'[m]) = ToSet(suspend_thread[m]) \ {t}
             /\ suspend_thread[m] = <<>> => suspend_thread'[m] = <<>>
             /\ \A f : Rising(suspend_thread[m], f) => Rising(suspend_thread'[m], f)
  <2> DEFINE l == suspend_thread[m]
             r == suspend_thread'[m]
  <2>1. l \in Seq(Threads) /\ IsInjective(l) /\ r = RemoveFirst(l, t)
    BY <1>1, <1>2 DEF Owned, MutexTypes, Listed
  <2> HIDE DEF l, r
  <2>2. /\ r \in Seq(Threads) /\ IsInjective(r) /\ ToSet(r) = ToSet(l) \ {t}
        /\ \A f : Rising(l, f) => Rising(r, f)
    BY <2>1, RemoveLemma
  <2>3. l = <<>> => r = <<>>
    <3>1. l = <<>> => ToSet(l) = {}
      BY <2>1, NonEmptyLemma
    <3>2. ToSet(r) = {} => r = <<>>
      BY <2>2, NonEmptyLemma
    <3> QED
      BY <2>2, <3>1, <3>2
  <2> QED
    BY <2>2, <2>3 DEF l, r
<1>8. MutexTypes'
  <2>1. suspend_thread' \in [Mutexes -> Seq(Threads)]
    BY <1>1, <1>7
  <2> QED
    BY <1>1, <1>2, <2>1 DEF Owned, MutexTypes
<1>9. Held'
  <2>1. ASSUME NEW u \in Threads, NEW n \in Mutexes PROVE TakesOf(u, n)' = TakesOf(u, n)
    <3>1. wants[u] = n /\ k.stat[u] # "SUSPEND" /\ error[u] = "OK"
          <=> wants'[u] = n /\ k'.stat[u] # "SUSPEND" /\ error'[u] = "OK"
      BY <1>1, <1>2, <1>5 DEF Scheduled
    <3> QED
      BY <1>1, <3>1 DEF TakesOf
  <2>2. \A u \in Threads, n \in Mutexes : TakesOf(u, n)' = TakesOf(u, n)
    BY <2>1
  <2> QED
    BY <1>1, <1>2, <2>2 DEF Owned, Held
<1>10. Listed'
  <2> SUFFICES ASSUME NEW m \in Mutexes
               PROVE  /\ IsInjective(suspend_thread'[m])
                      /\ ToSet(suspend_thread'[m])
                           = {u \in Threads : wants'[u] = m /\ k'.stat[u] = "SUSPEND"}
                      /\ owner'[m] = NoThread => suspend_thread'[m] = <<>>
    BY DEF Listed
  <2>1. {u \in Threads : wants'[u] = m /\ k'.stat[u] = "SUSPEND"}
          = {u \in Threads : wants[u] = m /\ k.stat[u] = "SUSPEND"} \ {t}
    BY <1>1, <1>5
  <2> QED
    BY <1>1, <1>2, <1>7, <2>1 DEF Owned, Listed
<1>11. Asking' /\ TakenInOrder'
  BY <1>1, <1>2, <1>5 DEF Owned, Asking, TakenInOrder, Scheduled
<1>12. BaseRestored' /\ FirstRemembers'
  <2>1. BaseRestored'
    BY <1>1, <1>2, <1>5 DEF Owned, BaseRestored
  <2>2. FirstRemembers'
    BY <1>1, <1>2 DEF Owned, FirstRemembers
  <2> QED
    BY <2>1, <2>2
<1>13. InheritsPriority'
  BY <1>1, <1>2, <1>5, <1>7 DEF Owned, InheritsPriority
<1>14. Sorted'
  BY <1>1, <1>2, <1>5, <1>7 DEF Owned, Sorted
<1> QED
  BY <1>4, <1>6, <1>8, <1>9, <1>10, <1>11, <1>12, <1>13, <1>14 DEF Owned

-----------------------------------------------------------------------------
(* A release that gives the mutex away: the owner's priority.              *)

LEMMA RisingSame ==
    ASSUME NEW s, NEW f, NEW g, Rising(s, f), \A x \in ToSet(s) : f[x] = g[x]
    PROVE  Rising(s, g)
  BY DEF Rising, ToSet

\* What the owner gets back.
LEMMA RestoredLemma ==
    ASSUME MInv, NEW t \in Threads, NEW m \in Mutexes, MayRelease(t, m)
    PROVE  LET r == Restored(t, m)
           IN  /\ Sound(r) /\ r.stat = k.stat /\ r.current = k.current /\ r.nest = k.nest
               /\ r.prio = [k.prio EXCEPT ![t] = original_priority[m]]
               /\ original_priority[m] \in Priorities
               /\ (\A n \in Mutexes \ {m} : owner[n] # t) => original_priority[m] = init_priority[t]
<1>1. /\ Sound(k) /\ t \in All /\ Mutexes \subseteq Nat
      /\ original_priority[m] \in Priorities
  BY MutexAssumption DEF MInv, Scheduled, Owned, MutexTypes, All
<1>2. ASSUME \A n \in Mutexes \ {m} : owner[n] # t PROVE original_priority[m] = init_priority[t]
  <2>1. owner[m] = t
    BY MayReleaseLemma
  <2>2. \A n \in Mutexes : owner[n] = t => m <= n
    BY <1>1, <1>2
  <2> QED
    BY <2>1, <2>2 DEF MInv, Owned, FirstRemembers
<1>3. LET r == Reprioritized(k, t, original_priority[m])
      IN  /\ Sound(r) /\ r.stat = k.stat /\ r.prio = [k.prio EXCEPT ![t] = original_priority[m]]
          /\ r.current = k.current /\ r.nest = k.nest
  BY <1>1, ReprioritizedLemma
<1> QED
  BY <1>1, <1>2, <1>3 DEF Restored

\* With a take of m given up by its owner, whatever becomes of m.
LEMMA ReleasedTakes ==
    ASSUME MInv, NEW t \in Threads, NEW m \in Mutexes, MayRelease(t, m), hold[m] = 1,
           has' = [has EXCEPT ![t] = Front(@)], UNCHANGED <<wants, error>>
    PROVE  /\ has' \in [Threads -> Seq(Mutexes)] /\ TakenInOrder'
           /\ \A u \in Threads : /\ \A i \in DOMAIN has'[u] : i \in DOMAIN has[u] /\ has'[u][i] = has[u][i]
                                 /\ u # t => has'[u] = has[u]
           /\ \A n \in Mutexes : TakesOf(t, n)' = IF n = m THEN 0 ELSE TakesOf(t, n)
<1>1. /\ owner[m] = t /\ wants[t] = 0 /\ Owned /\ Front(has[t]) \in Seq(Mutexes)
      /\ \A i \in DOMAIN Front(has[t]) : i \in DOMAIN has[t] /\ Front(has[t])[i] = has[t][i]
      /\ Times(has[t], m) = hold[m]
  BY MayReleaseLemma DEF MInv
<1>2. \A n \in Mutexes : Times(Front(has[t]), n) = Times(has[t], n) - (IF m = n THEN 1 ELSE 0)
  BY MayReleaseLemma
<1>3. has \in [Threads -> Seq(Mutexes)]
  BY <1>1 DEF Owned, MutexTypes
<1>4. /\ has' \in [Threads -> Seq(Mutexes)] /\ has'[t] = Front(has[t])
      /\ \A u \in Threads : /\ \A i \in DOMAIN has'[u] : i \in DOMAIN has[u] /\ has'[u][i] = has[u][i]
                            /\ u # t => has'[u] = has[u]
  BY <1>1, <1>3
<1>5. TakenInOrder'
  BY <1>1, <1>4 DEF Owned, TakenInOrder
<1>6. ASSUME NEW n \in Mutexes PROVE TakesOf(t, n)' = IF n = m THEN 0 ELSE TakesOf(t, n)
  <2>1. wants'[t] # n
    BY <1>1, MutexAssumption
  <2>2. TakesOf(t, n)' = Times(Front(has[t]), n) + 0
    BY <1>4, <2>1 DEF TakesOf, Times
  <2>3. Times(Front(has[t]), n) \in Nat
    BY <1>1, TimesLemma
  <2>4. TakesOf(t, n) = Times(has[t], n) + Coming(t, n) /\ Times(has[t], n) \in Nat /\ Coming(t, n) = 0
    BY <1>1, TakesLemma
  <2>5. Times(Front(has[t]), n) = Times(has[t], n) - (IF m = n THEN 1 ELSE 0)
    BY <1>2
  <2> QED
    BY <1>1, <2>2, <2>3, <2>4, <2>5
<1> QED
  BY <1>4, <1>5, <1>6

LEMMA ReleaseFreeKeeps ==
    ASSUME MInv, NEW t \in Threads, NEW m \in Mutexes, ReleaseFree(t, m)
    PROVE  Scheduled' /\ Urgent' /\ Owned'
<1>1. /\ MayRelease(t, m) /\ hold[m] = 1 /\ suspend_thread[m] = <<>> /\ k' = Restored(t, m)
      /\ hold' = [hold EXCEPT ![m] = 0] /\ value' = [value EXCEPT ![m] = @ + 1]
      /\ owner' = [owner EXCEPT ![m] = NoThread]
      /\ original_priority' = [original_priority EXCEPT ![m] = init_priority[Idle]]
      /\ has' = [has EXCEPT ![t] = Front(@)] /\ missed' = MissedAfter(t, m) \ {m}
      /\ unscheduled' = (unscheduled \/ k'.prio[t] > k.prio[t])
      /\ UNCHANGED <<timed, error, pc, suspend_thread, wants>>
  BY DEF ReleaseFree
<1>2. /\ Runs(t) /\ owner[m] = t /\ wants[t] = 0 /\ k.stat[t] = "RUNNING" /\ t = k.current
      /\ \A n \in Mutexes : t \notin ToSet(suspend_thread[n])
      /\ \A n \in Mutexes : owner[n] = t => n <= m
  BY <1>1, MayReleaseLemma, RunsLemma, Zenon
<1>3. /\ Sound(k') /\ k'.stat = k.stat /\ k'.current = k.current /\ k'.nest = k.nest
      /\ k'.prio = [k.prio EXCEPT ![t] = original_priority[m]]
      /\ original_priority[m] \in Priorities
      /\ (\A n \in Mutexes \ {m} : owner[n] # t) => original_priority[m] = init_priority[t]
  BY <1>1, RestoredLemma, Zenon
<1>4. /\ Scheduled /\ Urgent /\ Owned /\ k.prio \in [All -> Priorities] /\ Priorities \subseteq Nat
      /\ t \in All /\ Threads \subseteq All /\ NoThread \notin All /\ Mutexes \subseteq Nat
      /\ init_priority[Idle] \in Priorities
      /\ value \in [Mutexes -> {0, 1}] /\ hold \in [Mutexes -> 0 .. MaxTakes] /\ MaxTakes \in Nat
      /\ owner \in [Mutexes -> Threads \cup {NoThread}]
      /\ original_priority \in [Mutexes -> Priorities]
      /\ missed \subseteq Mutexes /\ unscheduled \in BOOLEAN
  BY PrioritiesLemma, ScheduledLemma, MutexAssumption DEF MInv, Owned, MutexTypes, All
<1>5. /\ k'.prio[t] = original_priority[m] /\ \A u \in All \ {t} : k'.prio[u] = k.prio[u]
  BY <1>3, <1>4
<1>6. Scheduled'
  BY <1>1, <1>3, <1>4 DEF Scheduled
<1>7. Urgent'
  <2> SUFFICES ASSUME k'.nest = 0, ~unscheduled', NEW u \in Ready(k)
               PROVE  k'.prio[t] <= k'.prio[u]
    BY <1>2, <1>3 DEF Urgent, Ready
  <2>1. u \in All /\ u # t
    BY <1>2 DEF Ready
  <2>2. k.prio[t] <= k.prio[u]
    BY <1>1, <1>2, <1>3, <1>4 DEF Urgent, Runs
  <2>3. ~(k'.prio[t] > k.prio[t]) /\ k.prio[t] \in Nat /\ k.prio[u] \in Nat /\ k'.prio[t] \in Nat
    BY <1>1, <1>3, <1>4, <1>5, <2>1
  <2> QED
    BY <1>5, <2>1, <2>2, <2>3
<1>8. /\ has' \in [Threads -> Seq(Mutexes)] /\ TakenInOrder'
      /\ \A u \in Threads : /\ \A i \in DOMAIN has'[u] : i \in DOMAIN has[u] /\ has'[u][i] = has[u][i]
                            /\ u # t => has'[u] = has[u]
      /\ \A n \in Mutexes : TakesOf(t, n)' = IF n = m THEN 0 ELSE TakesOf(t, n)
  BY <1>1, ReleasedTakes
<1>9. /\ value[m] = 0 /\ value'[m] = 1 /\ hold'[m] = 0 /\ owner'[m] = NoThread
      /\ \A n \in Mutexes \ {m} : /\ owner'[n] = owner[n] /\ hold'[n] = hold[n] /\ value'[n] = value[n]
                                  /\ original_priority'[n] = original_priority[n]
  BY <1>1, <1>2, <1>4 DEF Owned, Held
<1>10. MutexTypes'
  <2>1. missed' \subseteq Mutexes
    BY <1>1, <1>4 DEF MissedAfter
  <2>2. /\ value' \in [Mutexes -> {0, 1}] /\ hold' \in [Mutexes -> 0 .. MaxTakes]
        /\ owner' \in [Mutexes -> Threads \cup {NoThread}]
        /\ original_priority' \in [Mutexes -> Priorities]
    BY <1>1, <1>4, <1>9
  <2>3. unscheduled' \in BOOLEAN /\ UNCHANGED <<suspend_thread, wants>>
    BY <1>1, <1>4
  <2> QED
    BY <1>4, <1>8, <2>1, <2>2, <2>3 DEF Owned, MutexTypes
<1>11. Held'
  <2>1. ASSUME NEW u \in Threads, NEW n \in Mutexes
        PROVE  TakesOf(u, n)' = IF owner'[n] = u THEN hold'[n] ELSE 0
    <3>1. TakesOf(u, n) = IF owner[n] = u THEN hold[n] ELSE 0
      BY <1>4 DEF Owned, Held
    <3>2. u # t => TakesOf(u, n)' = TakesOf(u, n)
      BY <1>1, <1>3, <1>8 DEF TakesOf
    <3> QED
      BY <1>2, <1>4, <1>8, <1>9, <3>1, <3>2
  <2> QED
    BY <1>4, <1>9, <2>1 DEF Owned, Held
<1>12. Listed'
  BY <1>1, <1>3, <1>4, <1>9 DEF Owned, Listed
<1>13. Asking'
  BY <1>1, <1>2, <1>3, <1>4, <1>8 DEF Owned, Asking
<1>14. BaseRestored'
  <2> SUFFICES ASSUME NEW u \in Threads, \A n \in Mutexes : owner'[n] # u
               PROVE  k'.prio[u] = init_priority[u]
    BY DEF BaseRestored
  <2>1. CASE u = t
    BY <1>3, <1>5, <1>9, <2>1
  <2>2. CASE u # t
    <3>1. \A n \in Mutexes : owner[n] # u
      BY <1>2, <1>9, <2>2
    <3> QED
      BY <1>4, <1>5, <2>2, <3>1 DEF Owned, BaseRestored
  <2> QED
    BY <2>1, <2>2
<1>15. FirstRemembers'
  <2> SUFFICES ASSUME NEW u \in Threads, NEW n \in Mutexes, owner'[n] = u,
                      \A o \in Mutexes : owner'[o] = u => n <= o
               PROVE  original_priority'[n] = init_priority[u]
    BY DEF FirstRemembers
  <2>1. n # m /\ owner[n] = u
    BY <1>4, <1>9
  <2>2. \A o \in Mutexes : owner[o] = u => n <= o
    BY <1>2, <1>9, <2>1
  <2> QED
    BY <1>4, <1>9, <2>1, <2>2 DEF Owned, FirstRemembers
<1>16. InheritsPriority'
  <2> SUFFICES ASSUME NEW n \in Mutexes \ missed', NEW w \in ToSet(suspend_thread[n])
               PROVE  k'.prio[owner'[n]] <= k'.prio[w]
    BY <1>1 DEF InheritsPriority
  <2>1. n # m
    BY <1>1 DEF ToSet
  <2>2. n \notin missed /\ (owner[n] = t => original_priority[m] = k.prio[t])
    BY <1>1, <2>1 DEF MissedAfter
  <2>3. w \in Threads /\ w # t /\ owner[n] \in Threads /\ owner'[n] = owner[n]
    <3>1. suspend_thread[n] # <<>>
      BY DEF ToSet
    <3> QED
      BY <1>2, <1>4, <1>9, <2>1, <3>1 DEF Owned, Listed
  <2>4. k'.prio[w] = k.prio[w] /\ k'.prio[owner[n]] = k.prio[owner[n]]
    BY <1>4, <1>5, <2>2, <2>3
  <2> QED
    BY <1>4, <2>2, <2>3, <2>4 DEF Owned, InheritsPriority
<1>17. Sorted'
  <2> SUFFICES ASSUME NEW n \in Mutexes \ (missed' \cup Fifo)
               PROVE  Rising(suspend_thread[n], k'.prio)
    BY <1>1 DEF Sorted
  <2>1. CASE n = m
    BY <1>1, <2>1 DEF Rising
  <2>2. CASE n # m
    <3>1. Rising(suspend_thread[n], k.prio)
      BY <1>1, <1>4, <2>2 DEF Owned, Sorted, MissedAfter
    <3>2. \A w \in ToSet(suspend_thread[n]) : k.prio[w] = k'.prio[w]
      <4>1. ToSet(suspend_thread[n]) \subseteq All \ {t}
        BY <1>2, <1>4 DEF Owned, Listed
      <4> QED
        BY <1>5, <4>1
    <3> QED
      BY <3>1, <3>2, RisingSame
  <2> QED
    BY <2>1, <2>2
<1> QED
  BY <1>6, <1>7, <1>8, <1>10, <1>11, <1>12, <1>13, <1>14, <1>15, <1>16, <1>17 DEF Owned

-----------------------------------------------------------------------------
(* A take that must wait.                                                  *)

LEMMA LongerRising ==
    ASSUME NEW S, NEW s \in Seq(S), NEW e \in S, NEW r \in Seq(S), NEW at \in 1 .. Len(s) + 1,
           Longer(r, s, at, e), NEW f, Rising(s, f),
           \A i \in 1 .. Len(s) : IF i < at THEN f[s[i]] <= f[e] ELSE f[e] <= f[s[i]]
    PROVE  Rising(r, f)
<1>1. /\ Len(s) \in Nat /\ DOMAIN s = 1 .. Len(s) /\ DOMAIN r = 1 .. Len(s) + 1
      /\ \A i \in 1 .. Len(s) + 1 : r[i] = IF i < at THEN s[i] ELSE IF i = at THEN e ELSE s[i - 1]
  BY DEF Longer
<1> SUFFICES ASSUME NEW i \in 1 .. Len(s) + 1, NEW j \in 1 .. Len(s) + 1, i < j
             PROVE  f[r[i]] <= f[r[j]]
  BY <1>1 DEF Rising
<1>2. \A a, b \in 1 .. Len(s) : a < b => f[s[a]] <= f[s[b]]
  BY <1>1 DEF Rising
<1>3. CASE i = at
  <2>1. r[i] = e /\ r[j] = s[j - 1] /\ j - 1 \in 1 .. Len(s) /\ ~(j - 1 < at)
    BY <1>1, <1>3
  <2> QED
    BY <2>1
<1>4. CASE j = at
  <2>1. r[j] = e /\ r[i] = s[i] /\ i \in 1 .. Len(s) /\ i < at
    BY <1>1, <1>4
  <2> QED
    BY <2>1
<1>5. CASE i # at /\ j # at
  <2> DEFINE a == IF i < at THEN i ELSE i - 1
             b == IF j < at THEN j ELSE j - 1
  <2>1. r[i] = s[a] /\ r[j] = s[b] /\ a \in 1 .. Len(s) /\ b \in 1 .. Len(s) /\ a < b
    BY <1>1, <1>5
  <2> HIDE DEF a, b
  <2> QED
    BY <1>2, <2>1
<1> QED
  BY <1>3, <1>4, <1>5

LEMMA InsertAtLemma ==
    ASSUME NEW S, NEW s \in Seq(S), NEW e \in S, NEW at \in 1 .. Len(s)
    PROVE  InsertAt(s, at, e) \in Seq(S) /\ Longer(InsertAt(s, at, e), s, at, e)
<1> DEFINE a == SubSeq(s, 1, at - 1)
           b == SubSeq(s, at, Len(s))
           n == Len(s)
<1>1. n \in Nat /\ n = Len(s) /\ <<e>> \in Seq(S) /\ Len(<<e>>) = 1 /\ <<e>>[1] = e
  OBVIOUS
<1>2. a \in Seq(S) /\ Len(a) = at - 1 /\ \A i \in 1 .. at - 1 : a[i] = s[i]
  BY <1>1
<1>3. b \in Seq(S) /\ Len(b) = n - at + 1 /\ \A i \in 1 .. n - at + 1 : b[i] = s[at + i - 1]
  BY <1>1
<1>4. InsertAt(s, at, e) = (a \o <<e>>) \o b
  BY DEF InsertAt
<1> DEFINE m == a \o <<e>>
           r == m \o b
<1>5. /\ m \in Seq(S) /\ Len(m) = at /\ m[at] = e /\ \A i \in 1 .. at - 1 : m[i] = s[i]
  BY <1>1, <1>2
<1> HIDE DEF a, b, n, m
<1>6. /\ r \in Seq(S) /\ Len(r) = n + 1
      /\ \A i \in 1 .. at : r[i] = m[i]
      /\ \A i \in at + 1 .. n + 1 : r[i] = b[i - at]
  <2>1. /\ m \o b \in Seq(S) /\ Len(m \o b) = Len(m) + Len(b)
        /\ \A i \in 1 .. Len(m) : (m \o b)[i] = m[i]
        /\ \A i \in Len(m) + 1 .. Len(m) + Len(b) : (m \o b)[i] = b[i - Len(m)]
    <3>1. m \in Seq(S) /\ b \in Seq(S)
      BY <1>3, <1>5
    <3> QED
      BY ONLY <3>1
  <2>2. at + (n - at + 1) = n + 1 /\ at \in Nat /\ Len(m) = at /\ Len(b) = n - at + 1
    BY <1>1, <1>3, <1>5
  <2> HIDE DEF r
  <2>3. r = m \o b
    BY DEF r
  <2> QED
    BY <2>1, <2>2, <2>3
<1> HIDE DEF r
<1>7. ASSUME NEW i \in 1 .. n + 1
      PROVE  r[i] = IF i < at THEN s[i] ELSE IF i = at THEN e ELSE s[i - 1]
  <2>1. CASE i <= at
    BY <1>1, <1>5, <1>6, <2>1
  <2>2. CASE i > at
    <3>1. i - at \in 1 .. n - at + 1 /\ i \in at + 1 .. n + 1 /\ at + (i - at) - 1 = i - 1
      BY <1>1, <2>2
    <3>2. r[i] = b[i - at] /\ b[i - at] = s[at + (i - at) - 1]
      BY <1>3, <1>6, <3>1
    <3> QED
      BY <1>1, <2>2, <3>1, <3>2
  <2> QED
    BY <1>1, <2>1, <2>2
<1>8. r \in Seq(S) /\ Longer(r, s, at, e)
  BY <1>1, <1>6, <1>7 DEF Longer
<1> QED
  BY <1>4, <1>8 DEF r, m

\* The list of a mutex with one more waiter.
LEMMA EnlistedLemma ==
    ASSUME MInv, NEW t \in Threads, NEW m \in Mutexes, t \notin ToSet(suspend_thread[m])
    PROVE  /\ Enlisted(m, t) \in Seq(Threads) /\ IsInjective(Enlisted(m, t))
           /\ ToSet(Enlisted(m, t)) = ToSet(suspend_thread[m]) \cup {t}
           /\ m \notin Fifo /\ Rising(suspend_thread[m], k.prio) => Rising(Enlisted(m, t), k.prio)
<1> DEFINE list == suspend_thread[m]
           I == {i \in 1 .. Len(list) : k.prio[t] < k.prio[list[i]]}
           r == Enlisted(m, t)
<1>1. /\ list \in Seq(Threads) /\ IsInjective(list) /\ Len(list) \in Nat /\ DOMAIN list = 1 .. Len(list)
      /\ \A i \in 1 .. Len(list) : k.prio[list[i]] \in Nat
      /\ k.prio[t] \in Nat
  <2>1. k.prio \in [All -> Priorities] /\ Priorities \subseteq Nat /\ Threads \subseteq All
    BY ScheduledLemma DEF MInv
  <2>2. list \in Seq(Threads) /\ IsInjective(list)
    BY DEF MInv, Owned, MutexTypes, Listed
  <2> HIDE DEF list
  <2>3. \A u \in Threads : k.prio[u] \in Nat
    BY <2>1
  <2>4. /\ Len(list) \in Nat /\ DOMAIN list = 1 .. Len(list)
        /\ \A i \in 1 .. Len(list) : list[i] \in Threads
    BY <2>2
  <2> QED
    BY <2>2, <2>3, <2>4
<1>2. I # {} => /\ Min(I) \in I /\ \A i \in I : Min(I) <= i
  <2>1. I # {} => \E x \in I : \A y \in I : x <= y
    BY <1>1, LeastNat, I \subseteq Nat
  <2> QED
    BY <2>1 DEF Min
<1>3. r = IF m \in Fifo \/ I = {} THEN Append(list, t) ELSE InsertAt(list, Min(I), t)
  <2>1. SelectInSeq(list, LAMBDA u : k.prio[t] < k.prio[u]) = IF I # {} THEN Min(I) ELSE 0
    BY DEF SelectInSeq
  <2>2. I # {} => Min(I) # 0
    BY <1>2
  <2> QED
    BY <2>1, <2>2 DEF Enlisted
<1>4. PICK place \in 1 .. Len(list) + 1 :
        /\ r \in Seq(Threads) /\ Longer(r, list, place, t)
        /\ m \notin Fifo => /\ \A i \in 1 .. Len(list) : i < place => i \notin I
                            /\ place \in 1 .. Len(list) => place \in I
  <2>1. CASE m \in Fifo \/ I = {}
    <3>1. Append(list, t) \in Seq(Threads) /\ Longer(Append(list, t), list, Len(list) + 1, t)
      BY <1>1 DEF Longer
    <3>2. r = Append(list, t) /\ Len(list) + 1 \in 1 .. Len(list) + 1 /\ Len(list) + 1 \notin 1 .. Len(list)
      BY <1>1, <1>3, <2>1
    <3> HIDE DEF r
    <3> QED
      BY <2>1, <3>1, <3>2
  <2>2. CASE ~(m \in Fifo \/ I = {})
    <3>1. Min(I) \in I /\ Min(I) \in 1 .. Len(list) /\ Min(I) \in 1 .. Len(list) + 1
          /\ \A i \in I : Min(I) <= i
      BY <1>1, <1>2, <2>2
    <3> HIDE DEF list
    <3>2. InsertAt(list, Min(I), t) \in Seq(Threads) /\ Longer(InsertAt(list, Min(I), t), list, Min(I), t)
      BY <1>1, <3>1, InsertAtLemma
    <3>3. r = InsertAt(list, Min(I), t)
      BY <1>3, <2>2
    <3>4. \A i \in 1 .. Len(list) : i < Min(I) => i \notin I
      BY <3>1
    <3> HIDE DEF r, I
    <3> QED
      BY <3>1, <3>2, <3>3, <3>4
  <2> QED
    BY <2>1, <2>2
<1> HIDE DEF r, list
<1>5. ToSet(r) = ToSet(list) \cup {t} /\ IsInjective(r)
  <2>1. t \notin ToSet(list)
    BY DEF list
  <2> QED
    BY <1>1, <1>4, <2>1, LongerLemma
<1>6. ASSUME m \notin Fifo, Rising(list, k.prio) PROVE Rising(r, k.prio)
  <2>1. ASSUME NEW i \in 1 .. Len(list)
        PROVE  IF i < place THEN k.prio[list[i]] <= k.prio[t] ELSE k.prio[t] <= k.prio[list[i]]
    <3>1. CASE i < place
      BY <1>1, <1>4, <1>6, <3>1
    <3>2. CASE ~(i < place)
      <4>1. place \in 1 .. Len(list) /\ k.prio[t] < k.prio[list[place]]
        BY <1>1, <1>4, <1>6, <3>2
      <4>2. place < i => k.prio[list[place]] <= k.prio[list[i]]
        BY <1>1, <1>6, <4>1 DEF Rising
      <4> QED
        BY <1>1, <3>2, <4>1, <4>2
    <3> QED
      BY <3>1, <3>2
  <2> HIDE DEF I
  <2> QED
    BY <1>1, <1>4, <1>6, <2>1, LongerRising
<1> QED
  BY <1>4, <1>5, <1>6 DEF r, list

LEMMA WaitKeeps ==
    ASSUME MInv, NEW t \in Threads, NEW m \in Mutexes, Wait(t, m)
    PROVE  Scheduled' /\ Urgent' /\ Owned'
<1> DEFINE o == owner[m]
           r == Raised(t, m)
           gives == k.prio[t] < k.prio[o]
<1>1. /\ Runs(t) /\ (\A i \in DOMAIN has[t] : has[t][i] <= m) /\ k.nest = 0 /\ o # t /\ value[m] = 0
      /\ k' = Suspended(r, t)
      /\ suspend_thread' = [suspend_thread EXCEPT ![m] = Enlisted(m, t)]
      /\ timed' \subseteq timed \cup {t}
      /\ error' = [error EXCEPT ![t] = "OK"] /\ wants' = [wants EXCEPT ![t] = m]
      /\ pc' = [pc EXCEPT ![t] = "schedule"]
      /\ missed' = IF gives /\ wants[o] # 0 THEN missed \cup {wants[o]} ELSE missed
      /\ UNCHANGED <<value, owner, original_priority, hold, has, unscheduled>>
  BY DEF Wait, MayTake
<1>2. /\ wants[t] = 0 /\ k.stat[t] = "RUNNING" /\ t = k.current
      /\ \A n \in Mutexes : Coming(t, n) = 0 /\ t \notin ToSet(suspend_thread[n])
  BY <1>1, RunsLemma
<1>3. /\ Scheduled /\ Owned /\ k.prio \in [All -> Priorities] /\ Priorities \subseteq Nat
      /\ Sound(k) /\ k.stat \in [All -> States] /\ Idle \in All /\ Idle \notin Threads
      /\ t \in All /\ Threads \subseteq All /\ NoThread \notin All
      /\ Mutexes \subseteq Nat /\ 0 \notin Mutexes
  BY ScheduledLemma, MutexAssumption DEF MInv, Scheduled, All
<1>4. /\ owner \in [Mutexes -> Threads \cup {NoThread}] /\ missed \subseteq Mutexes
      /\ suspend_thread \in [Mutexes -> Seq(Threads)]
      /\ wants \in [Threads -> Mutexes \cup {0}] /\ has \in [Threads -> Seq(Mutexes)]
      /\ error \in [Threads -> {"OK", "TIMEOUT"}] /\ pc \in [Threads -> {"run", "schedule", "back"}]
  BY <1>3 DEF Owned, MutexTypes, Scheduled
<1>5. o \in Threads /\ o \in All
  <2>1. o # NoThread
    BY <1>1, <1>3 DEF Owned, Held
  <2> QED
    BY <1>3, <1>4, <2>1
<1>6. /\ Sound(r) /\ r.stat = k.stat /\ r.current = k.current /\ r.nest = k.nest
      /\ r.prio = IF gives THEN [k.prio EXCEPT ![o] = k.prio[t]] ELSE k.prio
  <2>1. CASE gives
    <3>1. r = Reprioritized(k, o, k.prio[t]) /\ k.prio[t] \in Priorities
      BY <1>3, <2>1 DEF Raised
    <3> HIDE DEF r, o, gives
    <3>2. /\ Sound(r) /\ r.stat = k.stat /\ r.current = k.current /\ r.nest = k.nest
          /\ r.prio = [k.prio EXCEPT ![o] = k.prio[t]]
      <4>1. LET q == Reprioritized(k, o, k.prio[t])
            IN  /\ Sound(q) /\ q.stat = k.stat /\ q.prio = [k.prio EXCEPT ![o] = k.prio[t]]
                /\ q.current = k.current /\ q.nest = k.nest
        <5>1. Sound(k) /\ o \in All /\ k.prio[t] \in Priorities
          BY <1>3, <1>5, <3>1
        <5> QED
          BY <5>1, ReprioritizedLemma, Zenon
      <4> QED
        BY <3>1, <4>1, Zenon
    <3> QED
      BY <2>1, <3>2
  <2>2. CASE ~gives
    <3>1. r = k
      BY <2>2 DEF Raised
    <3> HIDE DEF r, gives
    <3> QED
      BY <1>3, <2>2, <3>1
  <2> QED
    BY <2>1, <2>2
<1> HIDE DEF r
<1>7. /\ Sound(k') /\ k'.stat = [k.stat EXCEPT ![t] = "SUSPEND"] /\ k'.prio = r.prio
      /\ k'.current = k.current /\ k'.nest = k.nest
  BY <1>1, <1>3, <1>6, SuspendedLemma
<1> HIDE DEF o
<1>8. /\ \A u \in All \ {o} : k'.prio[u] = k.prio[u]
      /\ k'.prio[o] <= k.prio[o] /\ k'.prio[o] <= k.prio[t] /\ k'.prio \in [All -> Priorities]
      /\ ~gives => k'.prio[o] = k.prio[o]
  <2>1. k.prio[o] \in Nat /\ k.prio[t] \in Nat /\ k.prio[t] \in Priorities
    BY <1>3, <1>5
  <2>2. CASE gives
    <3>1. k'.prio = [k.prio EXCEPT ![o] = k.prio[t]] /\ k.prio[t] < k.prio[o]
      BY <1>6, <1>7, <2>2
    <3> QED
      BY <1>3, <1>5, <2>1, <3>1
  <2>3. CASE ~gives
    <3>1. k'.prio = k.prio /\ ~(k.prio[t] < k.prio[o])
      BY <1>6, <1>7, <2>3
    <3> QED
      BY <1>3, <1>5, <2>1, <3>1
  <2> QED
    BY <2>2, <2>3
<1>9. /\ k'.stat[t] = "SUSPEND" /\ \A u \in All \ {t} : k'.stat[u] = k.stat[u]
      /\ wants'[t] = m /\ error'[t] = "OK" /\ pc'[t] = "schedule"
      /\ \A u \in Threads \ {t} : wants'[u] = wants[u] /\ error'[u] = error[u] /\ pc'[u] = pc[u]
  BY <1>1, <1>3, <1>4, <1>7
<1>10. Scheduled'
  <2>1. pc' \in [Threads -> {"run", "schedule", "back"}] /\ error' \in [Threads -> {"OK", "TIMEOUT"}]
    BY <1>1, <1>4
  <2>2. timed' \subseteq {u \in Threads : k'.stat[u] = "SUSPEND"}
    BY <1>1, <1>3, <1>9 DEF Scheduled
  <2> QED
    BY <1>1, <1>2, <1>3, <1>7, <1>9, <2>1, <2>2 DEF Scheduled
<1>11. Urgent'
  BY <1>2, <1>7, <1>9 DEF Urgent
<1>12. /\ Enlisted(m, t) \in Seq(Threads) /\ IsInjective(Enlisted(m, t))
       /\ ToSet(Enlisted(m, t)) = ToSet(suspend_thread[m]) \cup {t}
       /\ m \notin Fifo /\ Rising(suspend_thread[m], k.prio) => Rising(Enlisted(m, t), k.prio)
  BY <1>2, EnlistedLemma
<1>13. /\ suspend_thread'[m] = Enlisted(m, t)
       /\ \A n \in Mutexes \ {m} : suspend_thread'[n] = suspend_thread[n]
  BY <1>1, <1>4
<1>14. MutexTypes'
  <2>1. suspend_thread' \in [Mutexes -> Seq(Threads)]
    BY <1>1, <1>4, <1>12
  <2>2. missed' \subseteq Mutexes /\ wants' \in [Threads -> Mutexes \cup {0}]
    BY <1>1, <1>4, <1>5
  <2> QED
    BY <1>1, <1>3, <2>1, <2>2 DEF Owned, MutexTypes
<1>15. Held'
  <2>1. ASSUME NEW u \in Threads, NEW n \in Mutexes PROVE TakesOf(u, n)' = TakesOf(u, n)
    <3>1. CASE u # t
      BY <1>1, <1>3, <1>9, <3>1 DEF TakesOf
    <3>2. CASE u = t
      <4>1. /\ ~(wants'[t] = n /\ k'.stat[t] # "SUSPEND" /\ error'[t] = "OK")
            /\ ~(wants[t] = n /\ k.stat[t] # "SUSPEND" /\ error[t] = "OK")
        BY <1>2, <1>3, <1>9
      <4> QED
        BY <1>1, <3>2, <4>1 DEF TakesOf
    <3> QED
      BY <3>1, <3>2
  <2>2. \A u \in Threads, n \in Mutexes : TakesOf(u, n)' = TakesOf(u, n)
    BY <2>1
  <2> QED
    BY <1>1, <1>3, <2>2 DEF Owned, Held
<1>16. Listed'
  <2> SUFFICES ASSUME NEW n \in Mutexes
               PROVE  /\ IsInjective(suspend_thread'[n])
                      /\ ToSet(suspend_thread'[n])
                           = {u \in Threads : wants'[u] = n /\ k'.stat[u] = "SUSPEND"}
                      /\ owner'[n] = NoThread => suspend_thread'[n] = <<>>
    BY DEF Listed
  <2>1. /\ IsInjective(suspend_thread[n])
        /\ ToSet(suspend_thread[n]) = {u \in Threads : wants[u] = n /\ k.stat[u] = "SUSPEND"}
        /\ owner[n] = NoThread => suspend_thread[n] = <<>>
    BY <1>3 DEF Owned, Listed
  <2>2. CASE n = m
    <3>1. {u \in Threads : wants'[u] = n /\ k'.stat[u] = "SUSPEND"}
            = {u \in Threads : wants[u] = n /\ k.stat[u] = "SUSPEND"} \cup {t}
      BY <1>3, <1>9, <2>2
    <3>2. owner'[n] # NoThread
      BY <1>1, <1>3, <1>5, <2>2 DEF o
    <3> QED
      BY <1>12, <1>13, <2>1, <2>2, <3>1, <3>2
  <2>3. CASE n # m
    <3>1. {u \in Threads : wants'[u] = n /\ k'.stat[u] = "SUSPEND"}
            = {u \in Threads : wants[u] = n /\ k.stat[u] = "SUSPEND"}
      BY <1>2, <1>3, <1>9, <2>3
    <3> QED
      BY <1>1, <1>13, <2>1, <2>3, <3>1
  <2> QED
    BY <2>2, <2>3
<1>17. Asking'
  <2> SUFFICES ASSUME NEW u \in Threads, wants'[u] # 0
               PROVE  /\ pc'[u] # "run" /\ (\A i \in DOMAIN has'[u] : has'[u][i] < wants'[u])
                      /\ k'.stat[u] = "SUSPEND" => error'[u] = "OK"
    BY DEF Asking
  <2>1. CASE u = t
    <3>1. \A i \in DOMAIN has[t] : has[t][i] # m
      <4>1. Times(has[t], m) = 0 /\ has[t] \in Seq(Mutexes)
        BY <1>1, <1>3, TakesLemma DEF o
      <4> QED
        BY <4>1, TimesLemma
    <3>2. \A i \in DOMAIN has[t] : has[t][i] \in Mutexes
      BY <1>4
    <3> QED
      BY <1>1, <1>3, <1>9, <2>1, <3>1, <3>2
  <2>2. CASE u # t
    BY <1>1, <1>3, <1>9, <2>2 DEF Owned, Asking
  <2> QED
    BY <2>1, <2>2
<1>18. BaseRestored' /\ TakenInOrder' /\ FirstRemembers'
  <2>1. ASSUME NEW u \in Threads, \A n \in Mutexes : owner'[n] # u PROVE k'.prio[u] = init_priority[u]
    <3>1. u # o /\ \A n \in Mutexes : owner[n] # u
      BY <1>1, <2>1 DEF o
    <3> QED
      BY <1>3, <1>8, <3>1 DEF Owned, BaseRestored
  <2> QED
    BY <1>1, <1>3, <2>1 DEF Owned, BaseRestored, TakenInOrder, FirstRemembers
<1>19. ASSUME NEW n \in Mutexes \ missed', NEW w \in ToSet(suspend_thread'[n])
       PROVE  w \in Threads /\ k'.prio[w] = k.prio[w] /\ n \notin missed
              /\ (w # t \/ n # m => w \in ToSet(suspend_thread[n]))
  <2>1. n \notin missed /\ (gives /\ wants[o] # 0 => n # wants[o])
    BY <1>1
  <2>2. CASE w \in ToSet(suspend_thread[n])
    <3>1. w \in Threads /\ wants[w] = n /\ n # 0
      <4>1. ToSet(suspend_thread[n]) = {u \in Threads : wants[u] = n /\ k.stat[u] = "SUSPEND"}
        BY <1>3 DEF Owned, Listed
      <4> QED
        BY <1>3, <2>2, <4>1
    <3>2. w = o => ~gives
      BY <2>1, <3>1
    <3> QED
      BY <1>3, <1>8, <2>1, <2>2, <3>1, <3>2
  <2>3. CASE w \notin ToSet(suspend_thread[n])
    <3>1. n = m /\ w = t
      BY <1>12, <1>13, <2>3
    <3> QED
      BY <1>1, <1>3, <1>8, <2>1, <3>1 DEF o
  <2> QED
    BY <2>2, <2>3
<1>20. InheritsPriority'
  <2> SUFFICES ASSUME NEW n \in Mutexes \ missed', NEW w \in ToSet(suspend_thread'[n])
               PROVE  k'.prio[owner[n]] <= k'.prio[w]
    BY <1>1 DEF InheritsPriority
  <2>1. /\ w \in Threads /\ k'.prio[w] = k.prio[w] /\ n \notin missed
        /\ (w # t \/ n # m => w \in ToSet(suspend_thread[n]))
    BY <1>19
  <2>2. CASE w = t /\ n = m
    BY <1>8, <2>1, <2>2 DEF o
  <2>3. CASE ~(w = t /\ n = m)
    <3>1. k.prio[owner[n]] <= k.prio[w]
      BY <1>3, <2>1, <2>3 DEF Owned, InheritsPriority
    <3>2. owner[n] \in Threads
      <4>1. suspend_thread[n] # <<>>
        BY <2>1, <2>3 DEF ToSet
      <4> QED
        BY <1>3, <1>4, <4>1 DEF Owned, Listed
    <3>3. k'.prio[owner[n]] <= k.prio[owner[n]]
      <4>1. owner[n] \in All /\ k.prio[owner[n]] \in Nat
        BY <1>3, <3>2
      <4>2. owner[n] # o => k'.prio[owner[n]] = k.prio[owner[n]]
        BY <1>8, <4>1
      <4> QED
        BY <1>8, <4>1, <4>2
    <3>4. k'.prio[owner[n]] \in Nat /\ k.prio[owner[n]] \in Nat /\ k.prio[w] \in Nat
      BY <1>3, <1>8, <2>1, <3>2
    <3> QED
      BY <2>1, <3>1, <3>3, <3>4
  <2> QED
    BY <2>2, <2>3
<1>21. Sorted'
  <2> SUFFICES ASSUME NEW n \in Mutexes \ (missed' \cup Fifo)
               PROVE  Rising(suspend_thread'[n], k'.prio)
    BY DEF Sorted
  <2>1. \A w \in ToSet(suspend_thread'[n]) : k.prio[w] = k'.prio[w]
    BY <1>19
  <2>2. Rising(suspend_thread[n], k.prio)
    BY <1>1, <1>3 DEF Owned, Sorted
  <2>3. Rising(suspend_thread'[n], k.prio)
    BY <1>12, <1>13, <2>2
  <2> QED
    BY <2>1, <2>3, RisingSame
<1> QED
  BY <1>10, <1>11, <1>14, <1>15, <1>16, <1>17, <1>18, <1>20, <1>21 DEF Owned

-----------------------------------------------------------------------------
(* A release to the first waiter.                                          *)

LEMMA MostUrgentLemma ==
    ASSUME NEW s, s.prio \in [All -> Priorities], NEW m \in Mutexes, suspend_thread[m] # <<>>,
           suspend_thread[m] \in Seq(Threads)
    PROVE  /\ MostUrgent(s, m) \in Priorities
           /\ \A u \in ToSet(suspend_thread[m]) : MostUrgent(s, m) <= s.prio[u]
<1> DEFINE list == suspend_thread[m]
           P == {s.prio[u] : u \in ToSet(list)}
<1>1. /\ ToSet(list) \subseteq Threads /\ ToSet(list) # {}
  BY NonEmptyLemma
<1> HIDE DEF list
<1>2. P \subseteq Priorities /\ P \subseteq Nat /\ P # {}
  BY <1>1, PrioritiesLemma DEF All
<1>3. \E x \in P : \A y \in P : x <= y
  BY <1>2, LeastNat
<1>4. Min(P) \in P /\ \A y \in P : Min(P) <= y
  BY <1>3 DEF Min
<1> QED
  BY <1>2, <1>4 DEF MostUrgent, list

LEMMA HandOverKeeps ==
    ASSUME MInv, NEW t \in Threads, NEW m \in Mutexes, HandOver(t, m)
    PROVE  Scheduled' /\ Urgent' /\ Owned'
<1>0. PICK next : next = Head(suspend_thread[m])
  OBVIOUS
<1> DEFINE lower == Restored(t, m)
           raised == IF m \in Fifo THEN Reprioritized(lower, next, MostUrgent(lower, m)) ELSE lower
<1>1. /\ MayRelease(t, m) /\ hold[m] = 1 /\ suspend_thread[m] # <<>>
      /\ owner' = [owner EXCEPT ![m] = next]
      /\ original_priority' = [original_priority EXCEPT ![m] = lower.prio[next]]
      /\ k' = Insert(raised, next) /\ timed' = timed \ {next}
      /\ suspend_thread' = [suspend_thread EXCEPT ![m] = Tail(@)]
      /\ has' = [has EXCEPT ![t] = Front(@)] /\ missed' = MissedAfter(t, m)
      /\ pc' = [pc EXCEPT ![t] = "schedule"]
      /\ UNCHANGED <<error, value, hold, wants, unscheduled>>
  BY <1>0 DEF HandOver
<1> DEFINE list == suspend_thread[m]
<1>2. /\ Runs(t) /\ owner[m] = t /\ wants[t] = 0 /\ k.stat[t] = "RUNNING" /\ t = k.current
      /\ \A n \in Mutexes : t \notin ToSet(suspend_thread[n])
      /\ \A n \in Mutexes : owner[n] = t => n <= m
  BY <1>1, MayReleaseLemma, RunsLemma, Zenon
<1>3. /\ Sound(lower) /\ lower.stat = k.stat /\ lower.current = k.current /\ lower.nest = k.nest
      /\ lower.prio = [k.prio EXCEPT ![t] = original_priority[m]]
      /\ original_priority[m] \in Priorities
      /\ (\A n \in Mutexes \ {m} : owner[n] # t) => original_priority[m] = init_priority[t]
  BY <1>1, RestoredLemma, Zenon
<1>4. /\ Scheduled /\ Owned /\ k.prio \in [All -> Priorities] /\ Priorities \subseteq Nat
      /\ k.stat \in [All -> States] /\ Idle \in All /\ Idle \notin Threads
      /\ t \in All /\ Threads \subseteq All /\ NoThread \notin All
      /\ Mutexes \subseteq Nat /\ 0 \notin Mutexes
  BY ScheduledLemma, MutexAssumption DEF MInv, All
<1>5. /\ owner \in [Mutexes -> Threads \cup {NoThread}] /\ missed \subseteq Mutexes
      /\ original_priority \in [Mutexes -> Priorities]
      /\ suspend_thread \in [Mutexes -> Seq(Threads)]
      /\ wants \in [Threads -> Mutexes \cup {0}]
      /\ pc \in [Threads -> {"run", "schedule", "back"}]
  BY <1>4 DEF Owned, MutexTypes, Scheduled
<1>6. \A n \in Mutexes :
        /\ IsInjective(suspend_thread[n])
        /\ ToSet(suspend_thread[n]) = {u \in Threads : wants[u] = n /\ k.stat[u] = "SUSPEND"}
        /\ owner[n] = NoThread => suspend_thread[n] = <<>>
  BY <1>4 DEF Owned, Listed
<1>7. /\ Tail(list) \in Seq(Threads) /\ next \in Threads /\ next \in ToSet(list)
      /\ IsInjective(Tail(list)) /\ ToSet(Tail(list)) = ToSet(list) \ {next}
      /\ \A f : Rising(list, f) => Rising(Tail(list), f)
      /\ \A f, u : Rising(list, f) /\ u \in ToSet(Tail(list)) => f[next] <= f[u]
  <2>1. list \in Seq(Threads) /\ list # <<>> /\ IsInjective(list) /\ next = Head(list)
    BY <1>0, <1>1, <1>5, <1>6
  <2> HIDE DEF list
  <2> QED
    BY <2>1, TailLemma, Zenon
<1>8. /\ wants[next] = m /\ k.stat[next] = "SUSPEND" /\ next # t /\ next \in All /\ error[next] = "OK"
      /\ pc[next] # "run" /\ \A i \in DOMAIN has[next] : has[next][i] < m
  <2>1. wants[next] = m /\ k.stat[next] = "SUSPEND" /\ m # 0
    BY <1>4, <1>6, <1>7
  <2> QED
    BY <1>2, <1>4, <1>7, <2>1 DEF Owned, Asking
<1>9. /\ lower.prio[t] = original_priority[m] /\ \A u \in All \ {t} : lower.prio[u] = k.prio[u]
      /\ lower.prio \in [All -> Priorities]
  BY <1>3, <1>4
<1>10. /\ Sound(raised) /\ raised.stat = k.stat /\ raised.current = k.current /\ raised.nest = k.nest
       /\ raised.prio[t] = original_priority[m]
       /\ \A u \in All \ {t, next} : raised.prio[u] = k.prio[u]
       /\ raised.prio[next] <= k.prio[next] /\ raised.prio[next] \in Nat
       /\ m \notin Fifo => raised.prio[next] = k.prio[next]
       /\ m \in Fifo => \A u \in ToSet(list) : raised.prio[next] <= k.prio[u]
  <2> DEFINE p == MostUrgent(lower, m)
  <2>1. /\ p \in Priorities /\ \A u \in ToSet(list) : p <= lower.prio[u]
    BY <1>1, <1>5, <1>9, MostUrgentLemma, Zenon
  <2>2. \A u \in ToSet(list) : p <= k.prio[u]
    BY <1>2, <1>4, <1>6, <1>9, <2>1
  <2>3. CASE m \in Fifo
    <3>1. raised = Reprioritized(lower, next, p)
      BY <2>3
    <3> HIDE DEF raised, lower, p
    <3>2. LET q == Reprioritized(lower, next, p)
          IN  /\ Sound(q) /\ q.stat = lower.stat /\ q.prio = [lower.prio EXCEPT ![next] = p]
              /\ q.current = lower.current /\ q.nest = lower.nest
      <4>1. Sound(lower) /\ next \in All /\ p \in Priorities
        BY <1>3, <1>8, <2>1
      <4> QED
        BY <4>1, ReprioritizedLemma, Zenon
    <3>3. /\ Sound(raised) /\ raised.stat = k.stat /\ raised.prio = [lower.prio EXCEPT ![next] = p]
          /\ raised.current = k.current /\ raised.nest = k.nest
      BY <1>3, <3>1, <3>2
    <3>4. raised.prio[next] = p /\ \A u \in All \ {next} : raised.prio[u] = lower.prio[u]
      BY <1>8, <1>9, <3>3
    <3> QED
      BY <1>4, <1>7, <1>8, <1>9, <2>1, <2>2, <2>3, <3>3, <3>4
  <2>4. CASE m \notin Fifo
    <3>1. raised = lower
      BY <2>4
    <3>2. k.prio[next] \in Nat
      BY <1>4, <1>8
    <3> HIDE DEF raised, lower, p
    <3> QED
      BY <1>3, <1>8, <1>9, <2>4, <3>1, <3>2
  <2> QED
    BY <2>3, <2>4
<1> HIDE DEF raised
<1>11. /\ Sound(k') /\ k'.stat = [k.stat EXCEPT ![next] = "READY"]
       /\ k'.prio = raised.prio /\ k'.current = k.current /\ k'.nest = k.nest
  <2>1. raised.stat[next] # "READY" /\ next # raised.current
    BY <1>2, <1>8, <1>10
  <2>2. /\ Sound(k')
        /\ k'.stat = [raised.stat EXCEPT ![next] = IF next = raised.current THEN "RUNNING" ELSE "READY"]
        /\ k'.prio = raised.prio /\ k'.current = raised.current /\ k'.nest = raised.nest
    <3>1. k' = Insert(raised, next) /\ Sound(raised) /\ next \in All
      BY <1>1, <1>8, <1>10
    <3>2. LET q == Insert(raised, next)
          IN  /\ Sound(q)
              /\ q.stat = [raised.stat EXCEPT ![next] = IF next = raised.current THEN "RUNNING" ELSE "READY"]
              /\ q.prio = raised.prio /\ q.current = raised.current /\ q.nest = raised.nest
      BY <2>1, <3>1, InsertSound, Zenon
    <3> QED
      BY <3>1, <3>2, Zenon
  <2> QED
    BY <1>10, <2>1, <2>2
<1>12. /\ k'.stat[next] = "READY" /\ \A u \in All \ {next} : k'.stat[u] = k.stat[u]
       /\ pc'[t] = "schedule" /\ \A u \in Threads \ {t} : pc'[u] = pc[u]
       /\ owner'[m] = next /\ original_priority'[m] = k.prio[next] /\ suspend_thread'[m] = Tail(list)
       /\ \A n \in Mutexes \ {m} : /\ owner'[n] = owner[n] /\ suspend_thread'[n] = suspend_thread[n]
                                   /\ original_priority'[n] = original_priority[n]
  BY <1>1, <1>4, <1>5, <1>8, <1>9, <1>11
<1>13. /\ has' \in [Threads -> Seq(Mutexes)] /\ TakenInOrder'
       /\ \A u \in Threads : /\ \A i \in DOMAIN has'[u] : i \in DOMAIN has[u] /\ has'[u][i] = has[u][i]
                             /\ u # t => has'[u] = has[u]
       /\ \A n \in Mutexes : TakesOf(t, n)' = IF n = m THEN 0 ELSE TakesOf(t, n)
  BY <1>1, ReleasedTakes
<1>14. Scheduled'
  <2>1. pc' \in [Threads -> {"run", "schedule", "back"}]
    BY <1>1, <1>5
  <2>2. timed' \subseteq {u \in Threads : k'.stat[u] = "SUSPEND"}
    BY <1>1, <1>4, <1>12 DEF Scheduled
  <2> QED
    BY <1>1, <1>2, <1>4, <1>7, <1>8, <1>11, <1>12, <2>1, <2>2 DEF Scheduled
<1>15. Urgent'
  BY <1>2, <1>11, <1>12 DEF Urgent
<1>16. MutexTypes'
  <2>1. suspend_thread' \in [Mutexes -> Seq(Threads)]
    BY <1>1, <1>5, <1>7
  <2>2. /\ original_priority' \in [Mutexes -> Priorities] /\ owner' \in [Mutexes -> Threads \cup {NoThread}]
        /\ missed' \subseteq Mutexes
    BY <1>1, <1>4, <1>5, <1>7, <1>8, <1>9 DEF MissedAfter
  <2> QED
    BY <1>1, <1>4, <1>13, <2>1, <2>2 DEF Owned, MutexTypes
<1>17. Held'
  <2>1. ASSUME NEW u \in Threads, NEW n \in Mutexes
        PROVE  TakesOf(u, n)' = IF owner'[n] = u THEN hold'[n] ELSE 0
    <3>1. TakesOf(u, n) = IF owner[n] = u THEN hold[n] ELSE 0
      BY <1>4 DEF Owned, Held
    <3>2. CASE u = t
      BY <1>2, <1>8, <1>12, <1>13, <1>1, <3>1, <3>2
    <3>3. CASE u = next
      <4>1. Times(has[next], n) \in Nat /\ (owner[n] # next => Times(has[next], n) = 0)
            /\ TakesOf(next, n) = Times(has[next], n) + Coming(next, n)
        BY <1>4, <1>7, TakesLemma
      <4>2. Coming(next, n) = 0
        BY <1>8 DEF Coming
      <4>3. TakesOf(next, n)' = Times(has[next], n) + (IF n = m THEN 1 ELSE 0)
        <5>1. wants'[next] = m /\ k'.stat[next] # "SUSPEND" /\ error'[next] = "OK" /\ has'[next] = has[next]
          BY <1>1, <1>7, <1>8, <1>12, <1>13
        <5> QED
          BY <5>1 DEF TakesOf, Times
      <4>4. CASE n = m
        BY <1>1, <1>2, <1>8, <1>12, <3>3, <4>1, <4>3, <4>4
      <4>5. CASE n # m
        BY <1>1, <1>12, <3>1, <3>3, <4>1, <4>2, <4>3, <4>5
      <4> QED
        BY <4>4, <4>5
    <3>4. CASE u # t /\ u # next
      <4>1. TakesOf(u, n)' = TakesOf(u, n)
        BY <1>1, <1>4, <1>12, <1>13, <3>4 DEF TakesOf
      <4> QED
        BY <1>1, <1>2, <1>12, <3>1, <3>4, <4>1
    <3> QED
      BY <3>2, <3>3, <3>4
  <2>2. ASSUME NEW n \in Mutexes
        PROVE  (value'[n] = 1 <=> owner'[n] = NoThread) /\ (hold'[n] = 0 <=> owner'[n] = NoThread)
    <3>1. (value[n] = 1 <=> owner[n] = NoThread) /\ (hold[n] = 0 <=> owner[n] = NoThread)
      BY <1>4 DEF Owned, Held
    <3>2. owner[m] # NoThread /\ owner'[m] # NoThread
      BY <1>2, <1>4, <1>8, <1>12
    <3> QED
      BY <1>1, <1>12, <3>1, <3>2
  <2> QED
    BY <2>1, <2>2 DEF Held
<1>18. Listed'
  <2> SUFFICES ASSUME NEW n \in Mutexes
               PROVE  /\ IsInjective(suspend_thread'[n])
                      /\ ToSet(suspend_thread'[n])
                           = {u \in Threads : wants'[u] = n /\ k'.stat[u] = "SUSPEND"}
                      /\ owner'[n] = NoThread => suspend_thread'[n] = <<>>
    BY DEF Listed
  <2>1. {u \in Threads : wants'[u] = n /\ k'.stat[u] = "SUSPEND"}
          = {u \in Threads : wants[u] = n /\ k.stat[u] = "SUSPEND"} \ {next}
    BY <1>1, <1>4, <1>12
  <2>2. CASE n = m
    <3>1. owner'[n] # NoThread
      BY <1>4, <1>8, <1>12, <2>2
    <3>2. ToSet(list) = {u \in Threads : wants[u] = n /\ k.stat[u] = "SUSPEND"}
      BY <1>6, <2>2
    <3> HIDE DEF list
    <3> QED
      BY <1>7, <1>12, <2>1, <2>2, <3>1, <3>2
  <2>3. CASE n # m
    <3>1. next \notin {u \in Threads : wants[u] = n /\ k.stat[u] = "SUSPEND"}
      BY <1>8, <2>3
    <3> QED
      BY <1>6, <1>12, <2>1, <2>3, <3>1
  <2> QED
    BY <2>2, <2>3
<1>19. Asking'
  <2> SUFFICES ASSUME NEW u \in Threads, wants'[u] # 0
               PROVE  /\ pc'[u] # "run" /\ (\A i \in DOMAIN has'[u] : has'[u][i] < wants'[u])
                      /\ k'.stat[u] = "SUSPEND" => error'[u] = "OK"
    BY DEF Asking
  <2>1. u # t /\ wants[u] # 0
    BY <1>1, <1>2
  <2>2. /\ pc[u] # "run" /\ (\A i \in DOMAIN has[u] : has[u][i] < wants[u])
        /\ k.stat[u] = "SUSPEND" => error[u] = "OK"
    BY <1>4, <2>1 DEF Owned, Asking
  <2>3. k'.stat[u] = "SUSPEND" => k.stat[u] = "SUSPEND"
    BY <1>4, <1>12
  <2> QED
    BY <1>1, <1>12, <1>13, <2>1, <2>2, <2>3
<1>20. BaseRestored'
  <2> SUFFICES ASSUME NEW u \in Threads, \A n \in Mutexes : owner'[n] # u
               PROVE  k'.prio[u] = init_priority[u]
    BY DEF BaseRestored
  <2>1. u # next
    BY <1>12
  <2>2. CASE u = t
    BY <1>3, <1>10, <1>11, <1>12, <2>2
  <2>3. CASE u # t
    <3>1. \A n \in Mutexes : owner[n] # u
      BY <1>2, <1>12, <2>3
    <3>2. k'.prio[u] = k.prio[u]
      BY <1>4, <1>10, <1>11, <2>1, <2>3
    <3> QED
      BY <1>4, <3>1, <3>2 DEF Owned, BaseRestored
  <2> QED
    BY <2>2, <2>3
<1>21. \A n \in Mutexes : owner[n] = next => n < m
  <2> SUFFICES ASSUME NEW n \in Mutexes, owner[n] = next PROVE n < m
    OBVIOUS
  <2>1. Coming(next, n) = 0
    BY <1>8 DEF Coming
  <2>2. PICK i \in DOMAIN has[next] : has[next][i] = n
    <3>1. owner[n] = next /\ Coming(next, n) = 0 => \E i \in DOMAIN has[next] : has[next][i] = n
      <4>1. Owned /\ next \in Threads
        BY <1>4, <1>7
      <4> QED
        BY <4>1, TakesLemma, Zenon
    <3> QED
      BY <2>1, <3>1
  <2> QED
    BY <1>8, <2>2
<1>22. FirstRemembers'
  <2> SUFFICES ASSUME NEW u \in Threads, NEW n \in Mutexes, owner'[n] = u,
                      \A o \in Mutexes : owner'[o] = u => n <= o
               PROVE  original_priority'[n] = init_priority[u]
    BY DEF FirstRemembers
  <2>1. CASE n = m
    <3>1. u = next
      BY <1>12, <2>1
    <3>2. ASSUME NEW o \in Mutexes, owner[o] = next PROVE FALSE
      <4>1. o < m /\ o # m /\ o \in Nat /\ m \in Nat
        BY <1>4, <1>21, <3>2
      <4> QED
        BY <1>12, <2>1, <3>1, <3>2, <4>1
    <3> QED
      BY <1>4, <1>7, <1>12, <2>1, <3>1, <3>2 DEF Owned, BaseRestored
  <2>2. CASE n # m
    <3>1. owner[n] = u /\ \A o \in Mutexes : owner[o] = u => n <= o
      BY <1>2, <1>12, <2>2
    <3> QED
      BY <1>4, <1>12, <2>2, <3>1 DEF Owned, FirstRemembers
  <2> QED
    BY <2>1, <2>2
<1>23. ASSUME NEW n \in Mutexes, NEW w \in ToSet(suspend_thread'[n])
       PROVE  /\ w \in ToSet(suspend_thread[n]) /\ w \in Threads /\ w # t /\ w # next
              /\ k'.prio[w] = k.prio[w] /\ owner[n] \in Threads
  <2>1. w \in ToSet(suspend_thread[n]) /\ w # next
    <3>1. CASE n = m
      BY <1>7, <1>12, <3>1
    <3>2. CASE n # m
      <4>1. next \notin ToSet(suspend_thread[n])
        BY <1>6, <1>8, <3>2
      <4> QED
        BY <1>12, <3>2, <4>1
    <3> QED
      BY <3>1, <3>2
  <2>2. w \in Threads /\ w # t
    BY <1>2, <1>6, <2>1
  <2>3. suspend_thread[n] # <<>>
    BY <2>1 DEF ToSet
  <2>4. k'.prio[w] = k.prio[w]
    BY <1>4, <1>10, <1>11, <2>1, <2>2
  <2>5. owner[n] \in Threads
    BY <1>5, <1>6, <2>3
  <2> QED
    BY <2>1, <2>2, <2>4, <2>5
<1>24. InheritsPriority'
  <2> SUFFICES ASSUME NEW n \in Mutexes \ missed', NEW w \in ToSet(suspend_thread'[n])
               PROVE  k'.prio[owner'[n]] <= k'.prio[w]
    BY DEF InheritsPriority
  <2>1. /\ w \in ToSet(suspend_thread[n]) /\ w \in Threads /\ w # t /\ w # next
        /\ k'.prio[w] = k.prio[w] /\ owner[n] \in Threads
    BY <1>23
  <2>2. n \notin missed /\ (n # m /\ owner[n] = t => original_priority[m] = k.prio[t])
    BY <1>1 DEF MissedAfter
  <2>3. k.prio[owner[n]] <= k.prio[w]
    BY <1>4, <2>1, <2>2 DEF Owned, InheritsPriority
  <2>4. CASE n = m /\ m \in Fifo
    BY <1>10, <1>11, <1>12, <2>1, <2>4
  <2>5. CASE n = m /\ m \notin Fifo
    <3>1. Rising(list, k.prio)
      BY <1>4, <2>2, <2>5 DEF Owned, Sorted
    <3>2. k.prio[next] <= k.prio[w]
      BY <1>7, <1>12, <2>5, <3>1
    <3> QED
      BY <1>10, <1>11, <1>12, <2>1, <2>5, <3>2
  <2>6. CASE n # m
    <3>1. owner'[n] = owner[n]
      BY <1>12, <2>6
    <3>2. k'.prio[owner[n]] <= k.prio[owner[n]] /\ k'.prio[owner[n]] \in Nat
      <4>1. k.prio[owner[n]] \in Nat
        BY <1>4, <2>1
      <4>2. CASE owner[n] = t
        BY <1>10, <1>11, <2>2, <2>6, <4>1, <4>2
      <4>3. CASE owner[n] = next
        BY <1>10, <1>11, <4>3
      <4>4. CASE owner[n] # t /\ owner[n] # next
        <5>1. k'.prio[owner[n]] = k.prio[owner[n]]
          BY <1>4, <1>10, <1>11, <2>1, <4>4
        <5> QED
          BY <4>1, <5>1
      <4> QED
        BY <4>2, <4>3, <4>4
    <3>3. k.prio[owner[n]] \in Nat /\ k.prio[w] \in Nat
      BY <1>4, <2>1
    <3> QED
      BY <2>1, <2>3, <3>1, <3>2, <3>3
  <2> QED
    BY <2>4, <2>5, <2>6
<1>25. Sorted'
  <2> SUFFICES ASSUME NEW n \in Mutexes \ (missed' \cup Fifo)
               PROVE  Rising(suspend_thread'[n], k'.prio)
    BY DEF Sorted
  <2>1. \A w \in ToSet(suspend_thread'[n]) : k.prio[w] = k'.prio[w]
    BY <1>23
  <2>2. Rising(suspend_thread[n], k.prio)
    BY <1>1, <1>4 DEF Owned, Sorted, MissedAfter
  <2>3. Rising(suspend_thread'[n], k.prio)
    <3>1. CASE n = m
      BY <1>7, <1>12, <2>2, <3>1
    <3>2. CASE n # m
      BY <1>12, <2>2, <3>2
    <3> QED
      BY <3>1, <3>2
  <2> QED
    BY <2>1, <2>3, RisingSame
<1> QED
  BY <1>13, <1>14, <1>15, <1>16, <1>17, <1>18, <1>19, <1>20, <1>22, <1>24, <1>25 DEF Owned

-----------------------------------------------------------------------------
(* The theorems.                                                           *)

LEMMA MutexStart == ASSUME MutexInit PROVE MInv
<1>1. /\ k.table = [p \in Priorities |-> IF p = init_priority[Idle] THEN <<Idle>> ELSE <<>>]
      /\ k.group = {init_priority[Idle]}
      /\ k.stat = [t \in All |-> IF t = Main THEN "RUNNING" ELSE IF t = Idle THEN "READY" ELSE "INIT"]
      /\ k.yield = {} /\ k.prio = init_priority /\ k.current = Main /\ k.nest = 0
      /\ k = [table |-> k.table, group |-> k.group, stat |-> k.stat, yield |-> k.yield,
              prio |-> k.prio, current |-> k.current, nest |-> k.nest]
      /\ timed = {} /\ error = [t \in Threads |-> "OK"] /\ pc = [t \in Threads |-> "run"]
  BY DEF MutexInit, Init
<1>2. /\ value = [m \in Mutexes |-> 1] /\ hold = [m \in Mutexes |-> 0]
      /\ owner = [m \in Mutexes |-> NoThread]
      /\ original_priority = [m \in Mutexes |-> init_priority[Idle]]
      /\ suspend_thread = [m \in Mutexes |-> <<>>]
      /\ wants = [t \in Threads |-> 0] /\ has = [t \in Threads |-> <<>>]
      /\ missed = {} /\ unscheduled = FALSE
  BY DEF MutexInit
<1>3. /\ Main \in Threads /\ Idle \notin Threads /\ Main \in All /\ Idle \in All /\ Main # Idle
      /\ Priorities \subseteq Nat /\ init_priority \in [All -> Priorities]
      /\ init_priority[Main] < init_priority[Idle] /\ MaxNest \in Nat
      /\ NoThread \notin Threads /\ MaxTakes \in Nat /\ 0 \notin Mutexes
  BY SchedulerAssumption, MutexAssumption, PrioritiesLemma DEF All
<1>4. Ready(k) = {Idle}
  BY <1>1, <1>3 DEF Ready
<1>5. Scheduled
  <2>1. k.stat \in [All -> States] /\ k.stat[Main] = "RUNNING" /\ k.stat[Idle] = "READY"
    BY <1>1, <1>3 DEF States
  <2>2. k.table \in [Priorities -> Seq(All)]
    BY <1>1, <1>3
  <2>3. k \in SchedStates
    <3>1. k.group \in SUBSET Priorities /\ k.nest \in 0 .. MaxNest
      BY <1>1, <1>3
    <3> QED
      BY <1>1, <1>3, <2>1, <2>2, <3>1 DEF SchedStates
  <2>4. OnLists(k, Ready(k))
    <3> SUFFICES ASSUME NEW p \in Priorities
                 PROVE  /\ p \in k.group <=> k.table[p] # <<>>
                        /\ IsInjective(k.table[p])
                        /\ ToSet(k.table[p]) = {t \in Ready(k) : k.prio[t] = p}
      BY DEF OnLists
    <3>1. CASE p = init_priority[Idle]
      <4>1. k.table[p] = <<Idle>>
        BY <1>1, <3>1
      <4>2. <<Idle>> # <<>> /\ IsInjective(<<Idle>>) /\ ToSet(<<Idle>>) = {Idle}
        BY DEF IsInjective, ToSet
      <4> QED
        BY <1>1, <1>4, <3>1, <4>1, <4>2
    <3>2. CASE p # init_priority[Idle]
      <4>1. k.table[p] = <<>>
        BY <1>1, <3>2
      <4>2. IsInjective(<<>>) /\ ToSet(<<>>) = {}
        BY DEF IsInjective, ToSet
      <4> QED
        BY <1>1, <1>4, <3>2, <4>1, <4>2
    <3> QED
      BY <3>1, <3>2
  <2>5. OneRuns(k)
    BY <1>1, <1>3, <2>1 DEF OneRuns
  <2> QED
    BY <1>1, <1>3, <2>1, <2>3, <2>4, <2>5 DEF Scheduled, Sound
<1>6. Urgent
  BY <1>1, <1>3, <1>4 DEF Urgent
<1>7. Owned
  <2>1. MutexTypes
    <3>1. value \in [Mutexes -> {0, 1}] /\ hold \in [Mutexes -> 0 .. MaxTakes]
      BY <1>2, <1>3
    <3>2. owner \in [Mutexes -> Threads \cup {NoThread}] /\ original_priority \in [Mutexes -> Priorities]
      BY <1>2, <1>3
    <3>3. suspend_thread \in [Mutexes -> Seq(Threads)] /\ has \in [Threads -> Seq(Mutexes)]
      <4>1. <<>> \in Seq(Threads) /\ <<>> \in Seq(Mutexes)
        OBVIOUS
      <4> QED
        BY <1>2, <4>1, Zenon
    <3>4. wants \in [Threads -> Mutexes \cup {0}] /\ missed \subseteq Mutexes /\ unscheduled \in BOOLEAN
      BY <1>2
    <3> QED
      BY <3>1, <3>2, <3>3, <3>4 DEF MutexTypes
  <2>2. Held
    <3>1. ASSUME NEW t \in Threads, NEW m \in Mutexes PROVE TakesOf(t, m) = 0
      <4>1. has[t] = <<>> /\ wants[t] # m /\ <<>> \in Seq(Mutexes)
        BY <1>2, <1>3
      <4>2. Times(<<>>, m) = 0
        <5>1. /\ Times(<<>>, m) = 0 <=> \A i \in DOMAIN <<>> : <<>>[i] # m
          BY <4>1, TimesLemma, Zenon
        <5> QED
          BY <5>1
      <4> QED
        BY <4>1, <4>2 DEF TakesOf, Times
    <3> QED
      BY <1>2, <1>3, <3>1 DEF Held
  <2>3. Listed
    <3>1. IsInjective(<<>>) /\ ToSet(<<>>) = {}
      BY DEF IsInjective, ToSet
    <3> QED
      BY <1>2, <1>3, <3>1 DEF Listed
  <2>4. Asking /\ TakenInOrder
    BY <1>2 DEF Asking, TakenInOrder
  <2>5. BaseRestored /\ FirstRemembers
    BY <1>1, <1>2, <1>3 DEF BaseRestored, FirstRemembers, All
  <2>6. InheritsPriority /\ Sorted
    BY <1>2 DEF InheritsPriority, Sorted, Rising, ToSet
  <2> QED
    BY <2>1, <2>2, <2>3, <2>4, <2>5, <2>6 DEF Owned
<1> QED
  BY <1>5, <1>6, <1>7 DEF MInv

LEMMA MutexStep == ASSUME MInv, [Next]_vars PROVE MInv'
<1>1. ASSUME Scheduled', Urgent', Unseen PROVE MInv'
  BY <1>1, UnseenKeeps DEF MInv
<1>2. ASSUME NEW t \in Threads, NEW u \in Threads, Quiet(Startup(t, u)) PROVE MInv'
  BY <1>1, <1>2, StartupKeeps
<1>3. ASSUME NEW t \in Threads, Quiet(Sleep(t)) PROVE MInv'
  BY <1>1, <1>3, SleepKeeps
<1>4. ASSUME NEW t \in Threads, Quiet(EnterCritical(t)) PROVE MInv'
  BY <1>1, <1>4, EnterCriticalKeeps
<1>5. ASSUME NEW t \in Threads, Quiet(ExitCritical(t)) PROVE MInv'
  BY <1>1, <1>5, ExitCriticalKeeps
<1>6. ASSUME NEW t \in Threads, Scheduling(Yield(t)) PROVE MInv'
  BY <1>1, <1>6, YieldKeeps
<1>7. ASSUME NEW t \in Threads, Scheduling(CallSchedule(t)) PROVE MInv'
  BY <1>1, <1>7, CallScheduleKeeps
<1>8. ASSUME NEW t \in Threads, Scheduling(Exit(t)) PROVE MInv'
  BY <1>1, <1>8, ExitKeeps
<1>9. ASSUME NEW t \in Threads, wants[t] = 0, Scheduling(ResumedByDevice(t)) PROVE MInv'
  BY <1>1, <1>9, ResumedByDeviceKeeps
<1>10. ASSUME NEW t \in Threads, TimeOut(t) PROVE MInv'
  BY <1>10, TimeOutKeeps DEF MInv
<1>11. ASSUME NEW t \in Threads, Back(t) PROVE MInv'
  BY <1>11, BackKeeps DEF MInv
<1>12. ASSUME NEW t \in Threads, NEW m \in Mutexes, TakeAgain(t, m) PROVE MInv'
  BY <1>12, TakeAgainKeeps DEF MInv
<1>13. ASSUME NEW t \in Threads, NEW m \in Mutexes, TakeFree(t, m) PROVE MInv'
  BY <1>13, TakeFreeKeeps DEF MInv
<1>14. ASSUME NEW t \in Threads, NEW m \in Mutexes, Wait(t, m) PROVE MInv'
  BY <1>14, WaitKeeps DEF MInv
<1>15. ASSUME NEW t \in Threads, NEW m \in Mutexes, ReleaseOne(t, m) PROVE MInv'
  BY <1>15, ReleaseOneKeeps DEF MInv
<1>16. ASSUME NEW t \in Threads, NEW m \in Mutexes, ReleaseFree(t, m) PROVE MInv'
  BY <1>16, ReleaseFreeKeeps DEF MInv
<1>17. ASSUME NEW t \in Threads, NEW m \in Mutexes, HandOver(t, m) PROVE MInv'
  BY <1>17, HandOverKeeps DEF MInv
<1>18. ASSUME Scheduling(TimeSlice) PROVE MInv'
  BY <1>1, <1>18, TimeSliceKeeps
<1>19. ASSUME UNCHANGED vars PROVE MInv'
  <2>1. Scheduled' /\ Urgent'
    <3>1. UNCHANGED <<k, timed, pc, unscheduled>> /\ error' \in [Threads -> {"OK", "TIMEOUT"}]
      BY <1>19 DEF MInv, vars, history, Scheduled
    <3> QED
      BY <3>1, StillScheduled
  <2>2. Unseen
    BY <1>19 DEF MInv, vars, history, Unseen, Owned, MutexTypes, Asking
  <2> QED
    BY <1>1, <2>1, <2>2
<1> QED
  BY <1>2, <1>3, <1>4, <1>5, <1>6, <1>7, <1>8, <1>9, <1>10, <1>11, <1>12, <1>13, <1>14, <1>15,
     <1>16, <1>17, <1>18, <1>19, Zenon DEF Next

LEMMA MutexAlways == Spec => []MInv
<1>1. MutexInit => MInv
  BY MutexStart
<1>2. MInv /\ [Next]_vars => MInv'
  BY MutexStep
<1> QED
  BY <1>1, <1>2, PTL DEF Spec

\* The ready table says who is ready, whatever changes of priority, timeouts and
\* interrupts come between a call and its rt_schedule.
THEOREM SchedulerReadyTable == Spec => []ReadyTable
<1>1. MInv => ReadyTable
  BY DEF MInv, Scheduled, Sound, OnLists, OneRuns, Ready, ReadyTable
<1> QED
  BY <1>1, MutexAlways, PTL

\* A mutex is with one thread, for as many takes as it counts; those suspended on
\* it are those that wait for it.
THEOREM MutexOneOwner == Spec => []OneOwner
<1>1. MInv => TypeOK
  BY DEF MInv, Scheduled, Sound, SchedStates, States, Owned, MutexTypes, TypeOK
<1>2. MInv => OneOwner
  BY <1>1 DEF MInv, Owned, Held, Listed, OneOwner
<1> QED
  BY <1>2, MutexAlways, PTL

\* A thread that owns no mutex has its own priority again.
THEOREM MutexBaseRestored == Spec => []BaseRestored
<1>1. MInv => BaseRestored
  BY DEF MInv, Owned
<1> QED
  BY <1>1, MutexAlways, PTL

\* No owner is less urgent than a thread that waits for it, but in the two cases
\* the code does not see.
THEOREM MutexInherits == Spec => []InheritsPriority
<1>1. MInv => InheritsPriority
  BY DEF MInv, Owned
<1> QED
  BY <1>1, MutexAlways, PTL

\* The thread that runs outside kernel calls is as urgent as any that is ready,
\* unless it has just lowered its own priority in rt_mutex_release.
THEOREM SchedulerMostUrgentRuns == Spec => []MostUrgentRuns
<1>1. MInv => MostUrgentRuns
  BY DEF MInv, Urgent, Ready, MostUrgentRuns
<1> QED
  BY <1>1, MutexAlways, PTL

=============================================================================
