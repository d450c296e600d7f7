----------------------------- MODULE ListLemmas -----------------------------
(* Facts about the Python lists the relays use as queues and buffers, seen   *)
(* as sequences: append(c), pop(0), remove(c) and the loop that selects from *)
(* a list into a new one.                                                   *)
EXTENDS Lists, Integers, SequencesExt, SequenceTheorems, NaturalsInduction, WellFoundedInduction, TLAPS

Distinct(s) == \A i, j \in 1 .. Len(s) : s[i] = s[j] => i = j

\* The members of a list are its elements by position.
LEMMA ToSetMembers ==
  ASSUME NEW S, NEW s \in Seq(S)
  PROVE  /\ ToSet(s) \subseteq S
         /\ \A x : x \in ToSet(s) <=> \E i \in 1 .. Len(s) : s[i] = x
  BY DEF ToSet

\* append(c) adds c to the members.
LEMMA AppendMembers ==
  ASSUME NEW S, NEW s \in Seq(S), NEW c \in S
  PROVE  /\ Append(s, c) \in Seq(S)
         /\ ToSet(Append(s, c)) = ToSet(s) \cup {c}
         /\ Distinct(s) /\ c \notin ToSet(s) => Distinct(Append(s, c))
<1> DEFINE t == Append(s, c)
<1>1. /\ t \in Seq(S)
      /\ Len(s) \in Nat /\ Len(t) = Len(s) + 1
      /\ \A i \in 1 .. Len(s) : t[i] = s[i]
      /\ t[Len(s) + 1] = c
  BY AppendProperties, LenProperties
<1> HIDE DEF t
<1>2. ToSet(t) = ToSet(s) \cup {c}
  BY <1>1, ToSetMembers
<1>3. Distinct(s) /\ c \notin ToSet(s) => Distinct(t)
  BY <1>1, ToSetMembers DEF Distinct
<1> QED BY <1>1, <1>2, <1>3 DEF t

\* pop(0) takes the head, which is then no longer a member.
LEMMA TailMembers ==
  ASSUME NEW S, NEW s \in Seq(S), s # <<>>
  PROVE  /\ Head(s) \in S /\ Head(s) \in ToSet(s)
         /\ Tail(s) \in Seq(S)
         /\ ToSet(Tail(s)) \subseteq ToSet(s)
         /\ Distinct(s) => Distinct(Tail(s)) /\ Head(s) \notin ToSet(Tail(s))
<1> DEFINE t == Tail(s)
<1>1. /\ Head(s) \in S
      /\ t \in Seq(S)
      /\ Len(s) \in Nat \ {0} /\ Len(t) = Len(s) - 1
      /\ \A i \in 1 .. Len(t) : t[i] = s[i + 1]
  BY HeadTailProperties, EmptySeq
<1>2. Head(s) = s[1]
  BY <1>1
<1> HIDE DEF t
<1>3. Head(s) \in ToSet(s)
  BY <1>1, <1>2, ToSetMembers
<1>4. ToSet(t) \subseteq ToSet(s)
  BY <1>1, ToSetMembers
<1>5. ASSUME Distinct(s) PROVE Distinct(t) /\ Head(s) \notin ToSet(t)
  <2>1. Distinct(t)
    <3> SUFFICES ASSUME NEW i \in 1 .. Len(t), NEW j \in 1 .. Len(t), t[i] = t[j]
                 PROVE  i = j
      BY DEF Distinct
    <3>1. i + 1 \in 1 .. Len(s) /\ j + 1 \in 1 .. Len(s) /\ s[i + 1] = s[j + 1]
      BY <1>1
    <3>2. i + 1 = j + 1
      BY <1>5, <3>1 DEF Distinct
    <3> QED BY <3>2
  <2>2. \A i \in 1 .. Len(t) : t[i] # s[1]
    BY <1>1, <1>5 DEF Distinct
  <2> QED BY <1>1, <1>2, <2>1, <2>2, ToSetMembers
<1> QED BY <1>1, <1>3, <1>4, <1>5 DEF t

\* remove(c) takes away the element at c's position, which is then no longer
\* a member.
LEMMA RemoveAtMembers ==
  ASSUME NEW S, NEW s \in Seq(S), NEW k \in 1 .. Len(s)
  PROVE  /\ RemoveAt(s, k) \in Seq(S)
         /\ ToSet(RemoveAt(s, k)) \subseteq ToSet(s)
         /\ Distinct(s) => /\ Distinct(RemoveAt(s, k))
                           /\ s[k] \notin ToSet(RemoveAt(s, k))
<1> DEFINE a == SubSeq(s, 1, k - 1)
           b == SubSeq(s, k + 1, Len(s))
           t == RemoveAt(s, k)
<1>0. Len(s) \in Nat /\ \A i \in 1 .. Len(s) : s[i] \in S
  BY LenProperties, ElementOfSeq
<1>1. /\ a \in Seq(S) /\ Len(a) = k - 1
      /\ \A i \in 1 .. k - 1 : a[i] = s[i]
  <2>1. \A i \in 1 .. k - 1 : s[i] \in S
    BY <1>0
  <2> QED BY <1>0, <2>1, SubSeqProperties
<1>2. /\ b \in Seq(S) /\ Len(b) = Len(s) - k
      /\ \A i \in 1 .. Len(s) - k : b[i] = s[k + i]
  <2>1. \A i \in k + 1 .. Len(s) : s[i] \in S
    BY <1>0
  <2> QED BY <1>0, <2>1, SubSeqProperties
<1>3. t = a \o b
  BY DEF RemoveAt
<1> HIDE DEF a, b, t
<1>4. /\ t \in Seq(S)
      /\ Len(t) = Len(a) + Len(b)
      /\ \A i \in 1 .. Len(a) + Len(b) :
           t[i] = IF i <= Len(a) THEN a[i] ELSE b[i - Len(a)]
  BY <1>1, <1>2, <1>3, ConcatProperties
<1>5. Len(t) = Len(s) - 1
  <2>1. /\ Len(t) = Len(a) + Len(b) /\ Len(a) = k - 1 /\ Len(b) = Len(s) - k
        /\ k \in Nat /\ Len(s) \in Nat
    BY <1>0, <1>1, <1>2, <1>4
  <2> QED BY <2>1
<1>6. \A i \in 1 .. Len(t) : t[i] = IF i < k THEN s[i] ELSE s[i + 1]
  <2> SUFFICES ASSUME NEW i \in 1 .. Len(t)
               PROVE  t[i] = IF i < k THEN s[i] ELSE s[i + 1]
    OBVIOUS
  <2>1. i \in 1 .. Len(s) - 1 /\ t[i] = IF i <= k - 1 THEN a[i] ELSE b[i - (k - 1)]
    BY <1>0, <1>1, <1>2, <1>4, <1>5
  <2>2. CASE i < k
    BY <1>0, <1>1, <2>1, <2>2
  <2>3. CASE ~ i < k
    <3>1. i - (k - 1) \in 1 .. Len(s) - k /\ k + (i - (k - 1)) = i + 1
      BY <1>0, <2>1, <2>3
    <3>2. b[i - (k - 1)] = s[i + 1]
      BY <1>2, <3>1
    <3> QED BY <1>0, <2>1, <2>3, <3>2
  <2> QED BY <2>2, <2>3
<1>7. ToSet(t) \subseteq ToSet(s)
  <2> SUFFICES ASSUME NEW x \in ToSet(t) PROVE x \in ToSet(s)
    OBVIOUS
  <2>1. PICK i \in 1 .. Len(t) : t[i] = x
    BY <1>4, ToSetMembers
  <2>2. \/ i \in 1 .. Len(s) /\ s[i] = x
        \/ i + 1 \in 1 .. Len(s) /\ s[i + 1] = x
    BY <1>0, <1>5, <1>6, <2>1
  <2> QED BY <2>2, ToSetMembers
<1>8. ASSUME Distinct(s) PROVE Distinct(t) /\ s[k] \notin ToSet(t)
  <2>1. Distinct(t)
    <3> SUFFICES ASSUME NEW i \in 1 .. Len(t), NEW j \in 1 .. Len(t), t[i] = t[j]
                 PROVE  i = j
      BY DEF Distinct
    <3>1. PICK x, y : x = (IF i < k THEN i ELSE i + 1) /\ y = IF j < k THEN j ELSE j + 1
      OBVIOUS
    <3>2. x \in 1 .. Len(s) /\ y \in 1 .. Len(s) /\ (x = y => i = j)
      BY <1>0, <1>5, <3>1
    <3>3. s[x] = s[y]
      BY <1>6, <3>1
    <3> QED BY <1>8, <3>2, <3>3 DEF Distinct
  <2>2. ASSUME NEW i \in 1 .. Len(t) PROVE t[i] # s[k]
    <3>1. PICK x : x = IF i < k THEN i ELSE i + 1
      OBVIOUS
    <3>2. x \in 1 .. Len(s) /\ x # k /\ t[i] = s[x]
      BY <1>0, <1>5, <1>6, <3>1
    <3> QED BY <1>8, <3>2 DEF Distinct
  <2> QED BY <1>4, <2>1, <2>2, ToSetMembers
<1> QED BY <1>4, <1>7, <1>8 DEF t

\* A beginning of a list, and the element that follows it.
LEMMA PrefixGrows ==
  ASSUME NEW S, NEW s \in Seq(S), NEW i \in 1 .. Len(s)
  PROVE  /\ SubSeq(s, 1, i - 1) \in Seq(S)
         /\ Append(SubSeq(s, 1, i - 1), s[i]) = SubSeq(s, 1, i)
<1>1. Len(s) \in Nat /\ \A k \in 1 .. Len(s) : s[k] \in S
  BY LenProperties
<1>2. SubSeq(s, 1, i - 1) \in Seq(S)
  <2>1. \A k \in 1 .. i - 1 : s[k] \in S
    BY <1>1
  <2> QED BY <1>1, <2>1, SubSeqProperties
<1>3. SubSeq(s, 1, i) = SubSeq(s, 1, i - 1) \o << s[i] >>
  <2>1. 1 \in 1 .. Len(s) /\ i \in 1 .. Len(s)
    BY <1>1
  <2> QED BY <2>1, SubSeqRecursiveSecond
<1>4. Append(SubSeq(s, 1, i - 1), s[i]) = SubSeq(s, 1, i - 1) \o << s[i] >>
  BY <1>1, <1>2, AppendIsConcat
<1> QED BY <1>2, <1>3, <1>4

\* A list becomes empty.
LEMMA EmptyToSet == ToSet(<<>>) = {}
  BY DEF ToSet

\* Two lists in a row hold what both hold.
LEMMA ConcatToSet ==
  ASSUME NEW S, NEW s \in Seq(S), NEW t \in Seq(S)
  PROVE  ToSet(s \o t) = ToSet(s) \cup ToSet(t)
<1> DEFINE u == s \o t
<1>1. /\ u \in Seq(S) /\ Len(u) = Len(s) + Len(t)
      /\ \A i \in 1 .. Len(s) + Len(t) : u[i] = IF i <= Len(s) THEN s[i] ELSE t[i - Len(s)]
  BY ConcatProperties
<1>2. Len(s) \in Nat /\ Len(t) \in Nat
  BY LenProperties
<1> HIDE DEF u
<1>3. ASSUME NEW x \in ToSet(s) PROVE x \in ToSet(u)
  BY <1>1, <1>2, <1>3, ToSetMembers
<1>4. ASSUME NEW x \in ToSet(t) PROVE x \in ToSet(u)
  <2>1. PICK i \in 1 .. Len(t) : t[i] = x
    BY ToSetMembers
  <2>2. i + Len(s) \in 1 .. Len(u) /\ ~ (i + Len(s) <= Len(s)) /\ i + Len(s) - Len(s) = i
    BY <1>1, <1>2
  <2>3. u[i + Len(s)] = x
    BY <1>1, <2>1, <2>2
  <2> QED BY <1>1, <2>2, <2>3, ToSetMembers
<1>5. ASSUME NEW x \in ToSet(u) PROVE x \in ToSet(s) \cup ToSet(t)
  <2>1. PICK i \in 1 .. Len(u) : u[i] = x
    BY <1>1, ToSetMembers
  <2>2. CASE i <= Len(s)
    BY <1>1, <1>2, <2>1, <2>2, ToSetMembers
  <2>3. CASE ~ (i <= Len(s))
    <3>1. i - Len(s) \in 1 .. Len(t) /\ t[i - Len(s)] = x
      BY <1>1, <1>2, <2>1, <2>3
    <3> QED BY <3>1, ToSetMembers
  <2> QED BY <2>2, <2>3
<1> QED BY <1>3, <1>4, <1>5 DEF u

\* Positions in two lists in a row.
LEMMA ConcatPositions ==
  ASSUME NEW S, NEW s \in Seq(S), NEW t \in Seq(S)
  PROVE  \A i \in DOMAIN (s \o t) :
           \/ i \in DOMAIN s /\ (s \o t)[i] = s[i] /\ s[i] \in ToSet(s)
           \/ \E k \in DOMAIN t : i = Len(s) + k /\ (s \o t)[i] = t[k] /\ t[k] \in ToSet(t)
<1>1. /\ Len(s) \in Nat /\ Len(t) \in Nat
      /\ DOMAIN s = 1 .. Len(s) /\ DOMAIN t = 1 .. Len(t)
  BY LenProperties
<1>2. /\ DOMAIN (s \o t) = 1 .. Len(s) + Len(t)
      /\ \A i \in 1 .. Len(s) + Len(t) :
           (s \o t)[i] = IF i <= Len(s) THEN s[i] ELSE t[i - Len(s)]
  BY ConcatProperties, LenProperties
<1>3. PICK u : u = s \o t
  OBVIOUS
<1> SUFFICES ASSUME NEW i \in DOMAIN u
             PROVE  \/ i \in DOMAIN s /\ u[i] = s[i] /\ s[i] \in ToSet(s)
                    \/ \E k \in DOMAIN t : i = Len(s) + k /\ u[i] = t[k] /\ t[k] \in ToSet(t)
  BY <1>3
<1>4. CASE i <= Len(s)
  BY <1>1, <1>2, <1>3, <1>4, ToSetMembers
<1>5. CASE ~ (i <= Len(s))
  <2>1. i - Len(s) \in DOMAIN t /\ i = Len(s) + (i - Len(s)) /\ u[i] = t[i - Len(s)]
    BY <1>1, <1>2, <1>3, <1>5
  <2> QED BY <1>1, <2>1, ToSetMembers
<1> QED BY <1>4, <1>5

-----------------------------------------------------------------------------
(* Select, defined by recursion over the list                               *)

\* A set of numbers has a least one.
LEMMA LeastNumber ==
  ASSUME NEW N \in SUBSET Nat, N # {}
  PROVE  \E n \in N : \A m \in N : n <= m
<1>1. PICK n \in N : \A m \in N : ~ (<<m, n>> \in OpToRel(<, Nat))
  BY WFMin, NatLessThanWellFounded, Zenon
<1>2. \A m \in N : ~ (m < n)
  BY <1>1, Zenon DEF OpToRel
<1> QED BY <1>2

\* The list comprehension comes to an end: the recursion has a solution.
TakenUpTo(s, S, n, f) ==
  f = [i \in 0 .. n |-> IF i = 0 THEN <<>>
                        ELSE IF s[i] \in S THEN Append(f[i - 1], s[i])
                        ELSE f[i - 1]]

\* The fold over a list has a value up to every length.
LEMMA TakenExists ==
  ASSUME NEW s, NEW S, NEW n \in Nat
  PROVE  \E f : TakenUpTo(s, S, n, f)
<1> DEFINE N == {m \in Nat : ~ \E f : TakenUpTo(s, S, m, f)}
<1> SUFFICES ASSUME N # {} PROVE FALSE
  OBVIOUS
<1>1. PICK m \in N : \A k \in N : m <= k
  BY LeastNumber
<1>2. CASE m = 0
  <2>1. TakenUpTo(s, S, 0, [i \in 0 .. 0 |-> <<>>])
    BY DEF TakenUpTo
  <2> QED BY <1>2, <2>1
<1>3. CASE m # 0
  <2>1. m - 1 \in Nat /\ m - 1 \notin N
    BY <1>1, <1>3
  <2>2. PICK f : TakenUpTo(s, S, m - 1, f)
    BY <2>1
  <2> DEFINE last == IF s[m] \in S THEN Append(f[m - 1], s[m]) ELSE f[m - 1]
             g == [i \in 0 .. m |-> IF i = m THEN last ELSE f[i]]
  <2>3. g = [i \in 0 .. m |-> IF i = 0 THEN <<>>
                              ELSE IF s[i] \in S THEN Append(g[i - 1], s[i])
                              ELSE g[i - 1]]
    <3> SUFFICES ASSUME NEW i \in 0 .. m
                 PROVE  g[i] = IF i = 0 THEN <<>>
                               ELSE IF s[i] \in S THEN Append(g[i - 1], s[i])
                               ELSE g[i - 1]
      OBVIOUS
    <3>1. CASE i = m
      <4>1. m - 1 \in 0 .. m /\ m - 1 # m
        BY <1>3
      <4> QED BY <1>3, <3>1, <4>1
    <3>2. CASE i = 0
      BY <1>3, <2>1, <2>2, <3>2 DEF TakenUpTo
    <3>3. CASE i # m /\ i # 0
      <4>1. i \in 0 .. m - 1 /\ i - 1 \in 0 .. m /\ i - 1 # m
        BY <3>3
      <4>2. g[i] = f[i] /\ g[i - 1] = f[i - 1]
        BY <3>3, <4>1
      <4>3. f[i] = IF s[i] \in S THEN Append(f[i - 1], s[i]) ELSE f[i - 1]
        BY <2>2, <3>3, <4>1 DEF TakenUpTo
      <4> HIDE DEF g
      <4> QED BY <3>3, <4>2, <4>3
    <3> QED BY <3>1, <3>2, <3>3
  <2> HIDE DEF g
  <2>4. TakenUpTo(s, S, m, g)
    BY <2>3 DEF TakenUpTo
  <2> QED BY <1>1, <2>4
<1> QED BY <1>2, <1>3

\* What a list comprehension keeps: the members it asks for, in a list with no
\* two places that are alike if it was given one.
LEMMA SelectMembers ==
  ASSUME NEW T, NEW s \in Seq(T), NEW S
  PROVE  /\ Select(s, S) \in Seq(T)
         /\ ToSet(Select(s, S)) = ToSet(s) \cap S
         /\ Distinct(s) => Distinct(Select(s, S))
<1> DEFINE n == Len(s)
           f == CHOOSE f : TakenUpTo(s, S, n, f)
           Good(m) == /\ f[m] \in Seq(T)
                      /\ \A x : x \in ToSet(f[m]) <=> x \in S /\ \E i \in 1 .. m : s[i] = x
                      /\ Distinct(s) => Distinct(f[m])
           N == {m \in 0 .. n : ~ Good(m)}
<1>1. n \in Nat /\ DOMAIN s = 1 .. n /\ \A i \in 1 .. n : s[i] \in T
  BY LenProperties
<1>2. TakenUpTo(s, S, n, f)
  BY <1>1, TakenExists
<1>3. Select(s, S) = f[n]
  BY DEF Select, TakenUpTo
<1> HIDE DEF f
<1>4. /\ f[0] = <<>>
      /\ \A i \in 1 .. n : f[i] = IF s[i] \in S THEN Append(f[i - 1], s[i]) ELSE f[i - 1]
  <2>1. 0 \in 0 .. n /\ \A i \in 1 .. n : i \in 0 .. n /\ i # 0
    BY <1>1
  <2>2. \A i \in 0 .. n : f[i] = IF i = 0 THEN <<>>
                                ELSE IF s[i] \in S THEN Append(f[i - 1], s[i])
                                ELSE f[i - 1]
    BY <1>2, Zenon DEF TakenUpTo
  <2> QED BY <2>1, <2>2
<1> HIDE DEF n
<1>5. N \subseteq Nat /\ \A m : m \in N <=> m \in 0 .. n /\ ~ Good(m)
  BY <1>1
<1> HIDE DEF N, Good
<1>6. N = {}
  <2> SUFFICES ASSUME N # {} PROVE FALSE
    OBVIOUS
  <2>1. PICK m \in N : \A k \in N : m <= k
    BY <1>5, LeastNumber
  <2>2. m \in 0 .. n /\ ~ Good(m)
    BY <1>5, <2>1
  <2>3. CASE m = 0
    <3>1. <<>> \in Seq(T) /\ ToSet(<<>>) = {} /\ Distinct(<<>>)
      BY DEF ToSet, Distinct
    <3>2. 1 .. 0 = {}
      OBVIOUS
    <3>3. Good(0)
      BY <1>4, <3>1, <3>2 DEF Good
    <3> QED BY <2>2, <2>3, <3>3
  <2>4. CASE m # 0
    <3>1. m \in 1 .. n /\ m - 1 \in 0 .. n /\ ~ (m <= m - 1)
      BY <1>1, <2>2, <2>4
    <3>2. Good(m - 1)
      BY <1>5, <2>1, <3>1
    <3>3. CASE s[m] \notin S
      <4>1. f[m] = f[m - 1]
        BY <1>4, <3>1, <3>3
      <4>2. \A x : x \in S => ((\E i \in 1 .. m : s[i] = x) <=> \E i \in 1 .. m - 1 : s[i] = x)
        BY <3>1, <3>3
      <4> QED BY <2>2, <3>2, <4>1, <4>2 DEF Good
    <3>4. CASE s[m] \in S
      <4>1. f[m] = Append(f[m - 1], s[m])
        BY <1>4, <3>1, <3>4
      <4>2. f[m - 1] \in Seq(T) /\ s[m] \in T
        BY <1>1, <3>1, <3>2 DEF Good
      <4>3. f[m] \in Seq(T) /\ ToSet(f[m]) = ToSet(f[m - 1]) \cup {s[m]}
        BY <4>1, <4>2, AppendMembers
      <4>4. \A x : (\E i \in 1 .. m : s[i] = x) <=> x = s[m] \/ \E i \in 1 .. m - 1 : s[i] = x
        BY <1>1, <3>1
      <4>5. ASSUME Distinct(s) PROVE Distinct(f[m])
        <5>1. \A i \in 1 .. m - 1 : s[i] # s[m]
          BY <1>1, <3>1, <4>5 DEF Distinct, n
        <5>2. s[m] \notin ToSet(f[m - 1])
          BY <3>2, <5>1 DEF Good
        <5> QED BY <3>2, <4>1, <4>2, <4>5, <5>2, AppendMembers DEF Good
      <4> QED BY <2>2, <3>2, <3>4, <4>3, <4>4, <4>5 DEF Good
    <3> QED BY <3>3, <3>4
  <2> QED BY <2>3, <2>4
<1>7. Good(n)
  <2>1. n \in 0 .. n
    BY <1>1
  <2> QED BY <1>5, <1>6, <2>1
<1>8. \A x : x \in ToSet(s) <=> \E i \in 1 .. n : s[i] = x
  BY <1>1, ToSetMembers DEF n
<1> QED BY <1>3, <1>7, <1>8 DEF Good
=============================================================================
