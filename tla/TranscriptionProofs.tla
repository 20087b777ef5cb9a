-------------------------- MODULE TranscriptionProofs --------------------------
(***************************************************************************)
(* From a recording to the words that are handed on.  No chunk is longer   *)
(* than the target, and the chunks cover the speech, for recordings of     *)
(* every length and every setting that the assumptions of Transcription    *)
(* allow; no word leaves the times of its segment or is lost but to a      *)
(* repetition of it, while the model does not cut what it is handed; and   *)
(* none comes twice, while the merge looks as far as pieces overlap.  A    *)
(* job corrects by the entries that stood while it read its dictionary,    *)
(* every line that is published has the numbers that were heard and the    *)
(* targets of its entries, and what the command line hands on keeps the    *)
(* marks of the agent and is of one command, for every plain glossary,     *)
(* work-order and number of commands.                                      *)
(***************************************************************************)
EXTENDS Transcription, Handoff, FiniteSetTheorems, SequenceTheorems, WellFoundedInduction, TLAPS

USE DEF Speech

-----------------------------------------------------------------------------
(* Numbers, sets of them in their order, and sequences *)

\* What induction on numbers needs: a set of numbers has a least one.
LEMMA LeastOf ==
  ASSUME NEW T \in SUBSET Nat, T # {}
  PROVE  \E m \in T : \A k \in T : m <= k
<1>1. \E m \in T : \A k \in T : <<k, m>> \notin OpToRel(<, Nat)
  BY WFMin, NatLessThanWellFounded, Zenon
<1>2. PICK m \in T : \A k \in T : <<k, m>> \notin OpToRel(<, Nat)
  BY <1>1
<1>3. \A k \in T : ~(k < m)
  BY <1>2, Zenon DEF OpToRel
<1> QED BY <1>3

\* What is known of a sequence over a smaller set.
LEMMA SeqGrows ==
  ASSUME NEW A, NEW B, A \subseteq B, NEW q \in Seq(A)
  PROVE  q \in Seq(B) /\ DOMAIN q = 1..Len(q) /\ Len(q) \in Nat /\ \A i \in 1..Len(q) : q[i] \in A
OBVIOUS

\* The entries of two sequences, one after the other.
LEMMA ConcatEntries ==
  ASSUME NEW A, NEW a \in Seq(A), NEW c \in Seq(A)
  PROVE  /\ a \o c \in Seq(A) /\ Len(a \o c) = Len(a) + Len(c)
         /\ \A p \in 1..Len(a) : (a \o c)[p] = a[p]
         /\ \A j \in 1..Len(c) : (a \o c)[Len(a) + j] = c[j]
OBVIOUS

\* A finite set of numbers in its order: all of it, each later one larger, and
\* each in the place that counts those up to it.
LEMMA InOrderIs ==
  ASSUME NEW T \in SUBSET Nat, IsFiniteSet(T)
  PROVE  /\ Cardinality(T) \in Nat
         /\ InOrder(T) \in Seq(T) /\ Len(InOrder(T)) = Cardinality(T)
         /\ \A i, j \in 1..Cardinality(T) : i < j => InOrder(T)[i] < InOrder(T)[j]
         /\ \A u \in T : \E i \in 1..Cardinality(T) : InOrder(T)[i] = u
         /\ \A i \in 1..Cardinality(T) : Cardinality({v \in T : v <= InOrder(T)[i]}) = i
<1> DEFINE Below(u) == {v \in T : v <= u}
           n == Cardinality(T)
           Ranked(i) == \E u \in T : Cardinality(Below(u)) = i
           S == {i \in 1..n : ~Ranked(i)}
           nth(i) == CHOOSE u \in T : Cardinality(Below(u)) = i
<1>1. n \in Nat /\ \A u : IsFiniteSet(Below(u)) /\ Cardinality(Below(u)) \in Nat
  BY FS_Subset, FS_CardinalityType
<1>2. S = {}
  <2> SUFFICES ASSUME S # {}
               PROVE  FALSE
    OBVIOUS
  <2>1. S \in SUBSET Nat
    BY <1>1
  <2>2. PICK i \in S : \A k \in S : i <= k
    <3> HIDE DEF S
    <3> QED BY <2>1, LeastOf
  <2>3. i \in 1..n /\ ~Ranked(i)
    OBVIOUS
  <2>4. \A k \in 1..n : k < i => Ranked(k)
    BY <2>2, <2>3, <1>1
  <2> HIDE DEF S
  <2>5. PICK w \in T : i = Cardinality(Below(w))
    <3>1. CASE i = 1
      <4>1. T # {}
        BY <2>3, <3>1, FS_EmptySet
      <4>2. PICK m \in T : \A k \in T : m <= k
        BY <4>1, LeastOf
      <4>3. Below(m) = {m}
        <5>1. m \in Nat /\ m \in Below(m)
          OBVIOUS
        <5>2. \A k \in Below(m) : k \in Nat /\ m <= k /\ k <= m
          BY <4>2
        <5>3. \A k \in Below(m) : k = m
          BY <5>1, <5>2
        <5> HIDE DEF Below
        <5> QED BY <5>1, <5>3
      <4>4. Cardinality({m}) = 1
        BY FS_Singleton
      <4> QED BY <3>1, <4>3, <4>4
    <3>2. CASE i # 1
      <4>1. i - 1 \in 1..n /\ i - 1 < i
        BY <1>1, <2>3, <3>2
      <4>2. PICK u \in T : Cardinality(Below(u)) = i - 1
        BY <2>4, <4>1
      <4> DEFINE rest == T \ Below(u)
      <4>3. rest # {}
        <5>1. i - 1 # n
          BY <1>1, <2>3
        <5>2. Below(u) # T
          BY <4>2, <5>1
        <5> QED BY <5>2
      <4>4. PICK w \in rest : \A k \in rest : w <= k
        <5>1. rest \in SUBSET Nat
          OBVIOUS
        <5> HIDE DEF rest
        <5> QED BY <4>3, <5>1, LeastOf
      <4>5. w \in T /\ w \notin Below(u) /\ ~(w <= u)
        BY <4>4
      <4>6. Below(w) = Below(u) \cup {w}
        <5>1. \A v \in Below(u) : v \in T /\ v <= w
          BY <4>5
        <5>2. \A v \in T : v <= w => v \in Below(u) \/ v = w
          <6> SUFFICES ASSUME NEW v \in T, v <= w, v \notin Below(u)
                       PROVE  v = w
            OBVIOUS
          <6>1. v \in rest
            OBVIOUS
          <6>2. w <= v
            BY <4>4, <6>1
          <6> QED BY <4>5, <6>2
        <5>3. w \in Below(w)
          BY <4>5
        <5>4. \A v \in Below(u) : v \in Below(w)
          BY <5>1
        <5>5. \A v \in Below(w) : v \in Below(u) \/ v = w
          BY <5>2
        <5> HIDE DEF Below
        <5> QED BY <5>3, <5>4, <5>5
      <4> HIDE DEF Below, rest
      <4>7. Cardinality(Below(u) \cup {w}) = (i - 1) + 1
        BY <1>1, <4>2, <4>5, FS_AddElement
      <4> QED BY <2>3, <4>5, <4>6, <4>7
    <3> QED BY <3>1, <3>2
  <2> QED BY <2>3, <2>5
<1>3. \A i \in 1..n : nth(i) \in T /\ Cardinality(Below(nth(i))) = i
  <2> TAKE i \in 1..n
  <2>1. Ranked(i)
    BY <1>2
  <2> HIDE DEF Below
  <2> QED BY <2>1
<1>4. InOrder(T) = [i \in 1..n |-> nth(i)]
  BY DEF InOrder
<1> HIDE DEF nth, n
<1>5. ASSUME NEW i \in 1..n, NEW j \in 1..n, i < j
      PROVE  nth(i) < nth(j)
  <2> SUFFICES ASSUME ~(nth(i) < nth(j))
               PROVE  FALSE
    OBVIOUS
  <2>1. nth(i) \in Nat /\ nth(j) \in Nat
    BY <1>3
  <2>2. Below(nth(j)) \subseteq Below(nth(i))
    <3> DEFINE a == nth(i)
               b == nth(j)
    <3>1. a \in Nat /\ b \in Nat /\ b <= a
      BY <2>1
    <3> HIDE DEF a, b
    <3>2. \A v \in T : v <= b => v <= a
      BY <3>1
    <3>3. Below(b) \subseteq Below(a)
      BY <3>2
    <3> QED BY <3>3 DEF a, b
  <2> HIDE DEF Below
  <2>3. Cardinality(Below(nth(j))) <= Cardinality(Below(nth(i)))
    BY <1>1, <2>2, FS_Subset
  <2> QED BY <1>1, <1>3, <1>5, <2>3
<1>6. InOrder(T) \in Seq(T) /\ Len(InOrder(T)) = n
  <2>1. \A i \in 1..n : nth(i) \in T
    BY <1>3
  <2> QED BY ONLY <1>1, <1>4, <2>1
<1>7. ASSUME NEW u \in T
      PROVE  \E i \in 1..n : nth(i) = u
  <2> DEFINE i == Cardinality(Below(u))
             v == nth(i)
  <2>1. u \in Below(u) /\ Below(u) \subseteq T /\ u \in Nat
    OBVIOUS
  <2>2. i \in 1..n
    <3> HIDE DEF Below
    <3>1. Below(u) # {} /\ i \in Nat /\ IsFiniteSet(Below(u))
      BY <1>1, <2>1
    <3>2. i # 0
      BY <3>1, FS_EmptySet
    <3>3. i <= n
      BY <2>1, FS_Subset DEF n
    <3> HIDE DEF i
    <3> QED BY <1>1, <3>1, <3>2, <3>3
  <2>3. v \in T /\ Cardinality(Below(v)) = Cardinality(Below(u))
    BY <1>3, <2>2
  <2> HIDE DEF i, v
  <2>4. v \in Below(v) /\ v \in Nat
    BY <2>3
  <2>5. v = u
    <3>1. CASE v <= u
      <4>1. \A x \in T : x <= v => x <= u
        BY <2>1, <2>4, <3>1
      <4>2. Below(v) \subseteq Below(u)
        BY <4>1
      <4> HIDE DEF Below
      <4>3. Below(u) = Below(v)
        BY <1>1, <2>3, <4>2, FS_Subset
      <4>4. u \in Below(v)
        BY <2>1, <4>3
      <4>5. u <= v
        BY <4>4 DEF Below
      <4> QED BY <2>1, <2>4, <3>1, <4>5
    <3>2. CASE u <= v
      <4>1. \A x \in T : x <= u => x <= v
        BY <2>1, <2>4, <3>2
      <4>2. Below(u) \subseteq Below(v)
        BY <4>1
      <4> HIDE DEF Below
      <4>3. Below(u) = Below(v)
        BY <1>1, <2>3, <4>2, FS_Subset
      <4>4. v \in Below(u)
        BY <2>4, <4>3
      <4>5. v <= u
        BY <4>4 DEF Below
      <4> QED BY <2>1, <2>4, <3>2, <4>5
    <3> QED BY <2>1, <2>4, <3>1, <3>2
  <2> QED BY <2>2, <2>5 DEF v
<1>8. \A i \in 1..n : Cardinality({v \in T : v <= InOrder(T)[i]}) = i
  <2> TAKE i \in 1..n
  <2>1. InOrder(T)[i] = nth(i) /\ Cardinality(Below(nth(i))) = i
    BY <1>3, <1>4
  <2> QED BY <2>1
<1> QED BY <1>1, <1>4, <1>5, <1>6, <1>7, <1>8 DEF n

\* FlattenSeq is what its recursion says.
LEMMA FlattenUnfolds ==
  ASSUME NEW A, NEW s \in Seq(Seq(A)), s # <<>>
  PROVE  \E f : /\ f = [i \in 1..Len(s) |-> IF i = 1 THEN s[i] ELSE f[i - 1] \o s[i]]
                /\ FlattenSeq(s) = f[Len(s)]
<1> DEFINE Unfolds(f, n) == f = [i \in 1..n |-> IF i = 1 THEN s[i] ELSE f[i - 1] \o s[i]]
           T == {n \in Nat : ~\E f : Unfolds(f, n)}
<1>1. T = {}
  <2> SUFFICES ASSUME T # {}
               PROVE  FALSE
    OBVIOUS
  <2>1. PICK n \in T : \A m \in T : n <= m
    <3>1. T \in SUBSET Nat
      OBVIOUS
    <3> HIDE DEF T
    <3> QED BY <3>1, LeastOf
  <2>2. n # 0
    <3>1. Unfolds([i \in 1..0 |-> i], 0)
      OBVIOUS
    <3> QED BY <3>1
  <2>3. n - 1 \in Nat /\ n - 1 \notin T
    <3>1. n \in Nat
      OBVIOUS
    <3> HIDE DEF T
    <3> QED BY <2>1, <2>2, <3>1
  <2>4. PICK f : Unfolds(f, n - 1)
    BY <2>3
  <2> DEFINE g == [i \in 1..n |-> IF i = 1 THEN s[i] ELSE f[i - 1] \o s[i]]
  <2>5. \A i \in 1..(n - 1) : g[i] = f[i]
    <3>1. \A i \in 1..(n - 1) : f[i] = IF i = 1 THEN s[i] ELSE f[i - 1] \o s[i]
      BY <2>4, Zenon
    <3>2. \A i \in 1..(n - 1) : i \in 1..n
      BY <2>2
    <3> QED BY <3>1, <3>2
  <2>6. \A i \in 1..n : i # 1 => i - 1 \in 1..(n - 1)
    BY <2>2
  <2>7. g = [i \in 1..n |-> IF i = 1 THEN s[i] ELSE g[i - 1] \o s[i]]
    BY <2>5, <2>6
  <2> HIDE DEF g
  <2>8. Unfolds(g, n)
    BY <2>7
  <2> QED BY <2>1, <2>8
<1>2. Len(s) \in Nat /\ Len(s) # 0
  OBVIOUS
<1>3. PICK f : Unfolds(f, Len(s))
  BY <1>1, <1>2
<1> DEFINE h == CHOOSE f1 : f1 = [i \in 1..Len(s) |-> IF i = 1 THEN s[i] ELSE f1[i - 1] \o s[i]]
<1>4. h = [i \in 1..Len(s) |-> IF i = 1 THEN s[i] ELSE h[i - 1] \o s[i]]
  BY <1>3
<1>5. FlattenSeq(s) = h[Len(s)]
  BY <1>2 DEF FlattenSeq
<1> QED BY <1>4, <1>5

\* Parts that are sequences over a set make one.
LEMMA FlattenFits ==
  ASSUME NEW A, NEW s \in Seq(Seq(A))
  PROVE  FlattenSeq(s) \in Seq(A)
<1>1. CASE s = <<>>
  BY <1>1 DEF FlattenSeq
<1>2. CASE s # <<>>
  <2>1. PICK f : /\ f = [i \in 1..Len(s) |-> IF i = 1 THEN s[i] ELSE f[i - 1] \o s[i]]
                 /\ FlattenSeq(s) = f[Len(s)]
    BY <1>2, FlattenUnfolds
  <2>2. \A i \in 1..Len(s) : f[i] = IF i = 1 THEN s[i] ELSE f[i - 1] \o s[i]
    BY <2>1, Zenon
  <2>3. Len(s) \in Nat \ {0} /\ \A i \in 1..Len(s) : s[i] \in Seq(A)
    BY <1>2
  <2> DEFINE T == {n \in 1..Len(s) : f[n] \notin Seq(A)}
  <2>4. T = {}
    <3> SUFFICES ASSUME T # {}
                 PROVE  FALSE
      OBVIOUS
    <3>1. PICK n \in T : \A m \in T : n <= m
      <4>1. T \in SUBSET Nat
        BY <2>3
      <4> HIDE DEF T
      <4> QED BY <4>1, LeastOf
    <3>2. n \in 1..Len(s) /\ f[n] \notin Seq(A)
      OBVIOUS
    <3>3. n # 1
      BY <2>2, <2>3, <3>2
    <3>4. n - 1 \in 1..Len(s) /\ n - 1 \notin T
      <4>1. n - 1 \in 1..Len(s) /\ n - 1 < n
        BY <2>3, <3>2, <3>3
      <4>2. n \in Nat
        BY <2>3, <3>2
      <4> HIDE DEF T
      <4> QED BY <3>1, <4>1, <4>2
    <3>5. f[n - 1] \in Seq(A) /\ s[n] \in Seq(A) /\ f[n] = f[n - 1] \o s[n]
      BY <2>2, <2>3, <3>2, <3>3, <3>4
    <3> DEFINE a == f[n - 1]
               b == s[n]
    <3>6. a \in Seq(A) /\ b \in Seq(A) /\ f[n] = a \o b
      BY <3>5
    <3> HIDE DEF a, b, T
    <3>7. f[n] \in Seq(A)
      BY ONLY <3>6
    <3> QED BY <3>2, <3>7
  <2>5. Len(s) \in 1..Len(s)
    BY <2>3
  <2> QED BY <2>1, <2>4, <2>5
<1> QED BY <1>1, <1>2

\* Every entry of a part is one of the whole.
LEMMA FlattenHolds ==
  ASSUME NEW A, NEW s \in Seq(Seq(A)), NEW a \in 1..Len(s), NEW b \in 1..Len(s[a])
  PROVE  \E m \in DOMAIN FlattenSeq(s) : FlattenSeq(s)[m] = s[a][b]
<1>0. s # <<>> /\ Len(s) \in Nat \ {0} /\ \A i \in 1..Len(s) : s[i] \in Seq(A)
  OBVIOUS
<1>1. PICK f : /\ f = [i \in 1..Len(s) |-> IF i = 1 THEN s[i] ELSE f[i - 1] \o s[i]]
               /\ FlattenSeq(s) = f[Len(s)]
  BY <1>0, FlattenUnfolds
<1>2. \A i \in 1..Len(s) : f[i] = IF i = 1 THEN s[i] ELSE f[i - 1] \o s[i]
  BY <1>1, Zenon
<1> DEFINE n == Len(s)
           x == s[a][b]
           Good(i) == f[i] \in Seq(A) /\ (a <= i => \E m \in DOMAIN f[i] : f[i][m] = x)
           T == {i \in 1..n : ~Good(i)}
<1>3. T = {}
  <2> SUFFICES ASSUME T # {}
               PROVE  FALSE
    OBVIOUS
  <2>1. PICK i \in T : \A m \in T : i <= m
    <3>1. T \in SUBSET Nat
      BY <1>0
    <3> HIDE DEF T
    <3> QED BY <3>1, LeastOf
  <2>2. i \in 1..n /\ ~Good(i)
    OBVIOUS
  <2>3. i # 1 => i - 1 \in 1..n /\ Good(i - 1)
    <3> SUFFICES ASSUME i # 1
                 PROVE  i - 1 \in 1..n /\ i - 1 \notin T
      OBVIOUS
    <3>1. i - 1 \in 1..n /\ i - 1 < i /\ i \in Int
      BY <1>0, <2>2
    <3> HIDE DEF T
    <3>2. i - 1 \in T => i <= i - 1
      BY <2>1
    <3> QED BY <3>1, <3>2
  <2> HIDE DEF T
  <2>4. CASE i = 1
    <3>1. f[i] = s[i] /\ f[i] \in Seq(A)
      BY <1>0, <1>2, <2>2, <2>4
    <3>2. a <= i => a = i
      BY <2>4, <1>0
    <3>3. a = i => b \in DOMAIN f[i] /\ f[i][b] = x
      BY <3>1
    <3> QED BY <2>2, <3>1, <3>2, <3>3
  <2>5. CASE i # 1
    <3> DEFINE p == f[i - 1]
               q == s[i]
               r == f[i]
    <3>1. p \in Seq(A) /\ q \in Seq(A) /\ r = p \o q /\ (a <= i - 1 => \E m \in DOMAIN p : p[m] = x)
      BY <1>0, <1>2, <2>2, <2>3, <2>5
    <3>2. a = i => b \in 1..Len(q) /\ q[b] = x
      OBVIOUS
    <3> HIDE DEF p, q, x
    <3>3. /\ p \o q \in Seq(A) /\ Len(p \o q) = Len(p) + Len(q)
          /\ \A m \in 1..Len(p) : (p \o q)[m] = p[m]
          /\ \A j \in 1..Len(q) : (p \o q)[Len(p) + j] = q[j]
      BY ONLY <3>1, ConcatEntries
    <3>4. r \in Seq(A) /\ DOMAIN r = 1..(Len(p) + Len(q)) /\ Len(p) \in Nat /\ Len(q) \in Nat /\ DOMAIN p = 1..Len(p)
      BY ONLY <3>1, <3>3
    <3>5. CASE a <= i - 1
      <4>1. PICK m \in DOMAIN p : p[m] = x
        BY <3>1, <3>5
      <4>2. m \in DOMAIN r /\ r[m] = x
        BY <3>1, <3>3, <3>4, <4>1
      <4> QED BY <2>2, <3>4, <4>2
    <3>6. CASE a = i
      <4>1. Len(p) + b \in DOMAIN r /\ r[Len(p) + b] = x
        BY <3>1, <3>2, <3>3, <3>4, <3>6
      <4> QED BY <2>2, <3>4, <4>1
    <3>7. a <= i => a <= i - 1 \/ a = i
      BY <1>0, <2>2
    <3> QED BY <2>2, <3>4, <3>5, <3>6, <3>7
  <2> QED BY <2>4, <2>5
<1>4. n \in 1..n /\ a <= n
  BY <1>0
<1>5. Good(n)
  BY <1>3, <1>4
<1> QED BY <1>1, <1>4, <1>5

\* And every entry of the whole is one of a part.
LEMMA FlattenFrom ==
  ASSUME NEW A, NEW s \in Seq(Seq(A)), NEW m \in DOMAIN FlattenSeq(s)
  PROVE  \E a \in 1..Len(s) : \E b \in 1..Len(s[a]) : FlattenSeq(s)[m] = s[a][b]
<1> DEFINE Row(a) == {s[a][b] : b \in 1..Len(s[a])}
           B == UNION {Row(a) : a \in 1..Len(s)}
<1>1. s \in Seq(Seq(B))
  <2>1. Len(s) \in Nat /\ s = [a \in 1..Len(s) |-> s[a]] /\ \A a \in 1..Len(s) : s[a] \in Seq(A)
    <3> HIDE DEF B
    <3>1. s \in Seq(Seq(A))
      OBVIOUS
    <3>2. Len(s) \in Nat /\ \A a \in 1..Len(s) : s[a] \in Seq(A)
      BY ONLY <3>1
    <3>3. s = [a \in 1..Len(s) |-> s[a]]
      BY ONLY <3>1
    <3> QED BY <3>2, <3>3
  <2>2. \A a \in 1..Len(s) : s[a] \in Seq(B)
    <3> TAKE a \in 1..Len(s)
    <3>1. \A b \in 1..Len(s[a]) : s[a][b] \in B
      <4>1. \A b \in 1..Len(s[a]) : s[a][b] \in Row(a)
        OBVIOUS
      <4> HIDE DEF Row
      <4>2. Row(a) \subseteq B
        OBVIOUS
      <4> QED BY <4>1, <4>2
    <3> DEFINE t == s[a]
    <3>2. t \in Seq(A) /\ \A b \in 1..Len(t) : t[b] \in B
      <4> HIDE DEF B
      <4> QED BY <2>1, <3>1
    <3> HIDE DEF t, B
    <3>3. t \in Seq(B)
      BY ONLY <3>2
    <3> QED BY <3>3 DEF t
  <2> HIDE DEF B
  <2> QED BY ONLY <2>1, <2>2
<1> HIDE DEF B
<1>2. FlattenSeq(s) \in Seq(B)
  BY ONLY <1>1, FlattenFits
<1> DEFINE whole == FlattenSeq(s)
<1>3. whole[m] \in B
  <2>1. whole \in Seq(B) /\ m \in DOMAIN whole
    BY <1>2
  <2> HIDE DEF whole
  <2> QED BY ONLY <2>1
<1> QED BY <1>3 DEF B

\* Parts of one entry each make the sequence of the entries.
LEMMA FlattenSingles ==
  ASSUME NEW n \in Nat, NEW h
  PROVE  FlattenSeq([k \in 1..n |-> <<h[k]>>]) = [k \in 1..n |-> h[k]]
<1> DEFINE s == [k \in 1..n |-> <<h[k]>>]
           A == {h[k] : k \in 1..n}
<1>0. \A k \in 1..n : h[k] \in A
  OBVIOUS
<1> HIDE DEF A
<1>1. s \in Seq(Seq(A)) /\ Len(s) = n
  <2>1. \A k \in 1..n : <<h[k]>> \in Seq(A)
    BY <1>0
  <2> QED BY <2>1
<1>2. CASE n = 0
  BY <1>2 DEF FlattenSeq
<1>3. CASE n # 0
  <2>1. s # <<>>
    BY <1>1, <1>3
  <2>2. \A k \in 1..n : s[k] = <<h[k]>>
    OBVIOUS
  <2> HIDE DEF s
  <2>3. PICK f : /\ f = [i \in 1..n |-> IF i = 1 THEN s[i] ELSE f[i - 1] \o s[i]]
                 /\ FlattenSeq(s) = f[n]
    BY <1>1, <2>1, FlattenUnfolds
  <2>4. \A i \in 1..n : f[i] = IF i = 1 THEN s[i] ELSE f[i - 1] \o s[i]
    BY <2>3, Zenon
  <2> DEFINE Upto(m) == [k \in 1..m |-> h[k]]
             T == {m \in 1..n : f[m] # Upto(m)}
  <2>5. T = {}
    <3> SUFFICES ASSUME T # {}
                 PROVE  FALSE
      OBVIOUS
    <3>1. PICK m \in T : \A j \in T : m <= j
      <4>1. T \in SUBSET Nat
        OBVIOUS
      <4> HIDE DEF T
      <4> QED BY <4>1, LeastOf
    <3>2. m \in 1..n /\ f[m] # Upto(m)
      OBVIOUS
    <3>3. CASE m = 1
      <4>1. f[m] = <<h[1]>>
        BY <2>2, <2>4, <3>2, <3>3
      <4>2. Upto(1) = <<h[1]>>
        OBVIOUS
      <4> QED BY <3>2, <3>3, <4>1, <4>2
    <3>4. CASE m # 1
      <4>1. m - 1 \in 1..n /\ m - 1 \notin T
        <5>1. m - 1 \in 1..n /\ m - 1 < m /\ m \in Int
          BY <3>2, <3>4
        <5> HIDE DEF T
        <5>2. m - 1 \in T => m <= m - 1
          BY <3>1
        <5> QED BY <5>1, <5>2
      <4>2. f[m - 1] = Upto(m - 1)
        BY <4>1
      <4> HIDE DEF T
      <4>3. f[m] = Upto(m - 1) \o <<h[m]>>
        BY <2>2, <2>4, <3>2, <3>4, <4>2
      <4>4. Upto(m - 1) \o <<h[m]>> = Upto(m)
        <5>1. m - 1 \in Nat /\ m \in Nat /\ m - 1 < m
          BY <3>2, <3>4
        <5>2. /\ Upto(m - 1) \in Seq(A) /\ Len(Upto(m - 1)) = m - 1
              /\ <<h[m]>> \in Seq(A) /\ Upto(m) \in Seq(A) /\ Len(Upto(m)) = m
          <6>1. \A k \in 1..m : h[k] \in A
            BY <1>0, <3>2
          <6>2. \A k \in 1..(m - 1) : h[k] \in A
            BY <1>0, <3>2
          <6> QED BY <5>1, <6>1, <6>2
        <5>3. \A k \in 1..(m - 1) : Upto(m - 1)[k] = h[k]
          OBVIOUS
        <5>4. \A k \in 1..m : Upto(m)[k] = h[k]
          OBVIOUS
        <5> DEFINE u == Upto(m - 1)
                   w == Upto(m)
                   v == <<h[m]>>
        <5>5. u \in Seq(A) /\ v \in Seq(A) /\ w \in Seq(A) /\ Len(u) = m - 1 /\ Len(v) = 1 /\ Len(w) = m
              /\ v[1] = h[m] /\ (\A k \in 1..(m - 1) : u[k] = h[k]) /\ (\A k \in 1..m : w[k] = h[k])
          BY <5>2, <5>3, <5>4
        <5> HIDE DEF u, v, w
        <5>6. /\ u \o v \in Seq(A) /\ Len(u \o v) = Len(u) + Len(v)
              /\ \A k \in 1..Len(u) : (u \o v)[k] = u[k]
              /\ \A k \in 1..Len(v) : (u \o v)[Len(u) + k] = v[k]
          <6>1. u \in Seq(A) /\ v \in Seq(A)
            BY <5>5
          <6> QED BY ONLY <6>1, ConcatEntries
        <5>9. Len(u \o v) = m
          BY <5>1, <5>5, <5>6
        <5>7. \A k \in 1..m : (u \o v)[k] = w[k]
          <6> TAKE k \in 1..m
          <6>1. CASE k <= m - 1
            <7>1. k \in 1..(m - 1) /\ k \in 1..Len(u)
              BY <5>1, <5>5, <6>1
            <7>2. (u \o v)[k] = u[k] /\ u[k] = h[k] /\ w[k] = h[k]
              BY ONLY <5>5, <5>6, <7>1, k \in 1..m
            <7> QED BY <7>2
          <6>2. CASE ~(k <= m - 1)
            <7>1. k = m /\ Len(u) + 1 = m /\ 1 \in 1..Len(v)
              BY <5>1, <5>5, <6>2
            <7>2. (u \o v)[Len(u) + 1] = v[1]
              BY <5>6, <7>1
            <7> QED BY <5>5, <7>1, <7>2
          <6> QED BY <6>1, <6>2
        <5>8. u \o v = w
          <6> DEFINE x == u \o v
          <6>0. x \in Seq(A) /\ Len(x) = m /\ w \in Seq(A) /\ Len(w) = m
            BY <5>5, <5>6, <5>9
          <6>2. \A k \in 1..m : x[k] = w[k]
            BY <5>7
          <6> HIDE DEF x
          <6>1. x = [k \in 1..m |-> x[k]] /\ w = [k \in 1..m |-> w[k]]
            BY ONLY <6>0
          <6>3. x = w
            BY <6>1, <6>2, Zenon
          <6> QED BY <6>3 DEF x
        <5> QED BY <5>8 DEF u, v, w
      <4> QED BY <3>2, <4>3, <4>4
    <3> QED BY <3>3, <3>4
  <2>6. n \in 1..n
    BY <1>3
  <2>7. f[n] = Upto(n)
    BY <2>5, <2>6
  <2> QED BY <2>3, <2>7 DEF s
<1> QED BY <1>2, <1>3

-----------------------------------------------------------------------------
(* Arithmetic of the hard split                                            *)

\* A quotient rounded down, times its divisor.
LEMMA Quotient ==
  ASSUME NEW x \in Nat, NEW d \in Nat \ {0}
  PROVE /\ x \div d \in Nat
        /\ (x \div d) * d <= x
        /\ x < (x \div d) * d + d
  BY SMT

\* A multiple that is smaller has the smaller factor.
LEMMA SmallerFactor ==
  ASSUME NEW q \in Nat, NEW n \in Nat, NEW d \in Nat \ {0}, q * d < n * d
  PROVE q < n
<1> SUFFICES ASSUME n <= q PROVE FALSE
  OBVIOUS
<1>1. q - n \in Nat /\ q * d = n * d + (q - n) * d
  OBVIOUS
<1>2. (q - n) * d \in Nat
  BY <1>1
<1> QED BY <1>1, <1>2

\* A quotient rounded up covers what is divided.
LEMMA RoundedUp ==
  ASSUME NEW a \in Nat, NEW b \in Nat \ {0}
  PROVE CeilDiv(a, b) \in Nat /\ a <= CeilDiv(a, b) * b
<1>1. a + b - 1 \in Nat
  OBVIOUS
<1>2. /\ (a + b - 1) \div b \in Nat
      /\ a + b - 1 < ((a + b - 1) \div b) * b + b
  BY <1>1, Quotient
<1>3. ((a + b - 1) \div b) * b \in Nat
  BY <1>2
<1> QED BY <1>2, <1>3 DEF CeilDiv

\* Something divided is something.
LEMMA CeilPositive ==
  ASSUME NEW a \in Nat \ {0}, NEW b \in Nat \ {0}
  PROVE CeilDiv(a, b) \in Nat \ {0}
<1> DEFINE q == CeilDiv(a, b)
<1>1. q \in Nat /\ a <= q * b
  BY RoundedUp
<1> HIDE DEF q
<1>2. q # 0
  <2> SUFFICES ASSUME q = 0
               PROVE  FALSE
    OBVIOUS
  <2>1. q * b = 0
    OBVIOUS
  <2> QED BY <1>1, <2>1
<1> QED BY <1>1, <1>2 DEF q

-----------------------------------------------------------------------------
(* Spans of the grouping                                                   *)

Stretch == [s : Int, e : Int]
Span(t) == {c \in [lo : Int, hi : Int, seam : BOOLEAN] : c.hi - c.lo <= t}

\* A hard split makes pieces that fit and leave no frame out.
LEMMA PiecesFitAndCover ==
  ASSUME NEW t \in Nat \ {0}, NEW overlap \in Nat, overlap < t,
         NEW r \in Stretch, r.e - r.s > t
  PROVE /\ Pieces(r, t, overlap) \in Seq(Span(t))
        /\ \A p \in Speech(r) : \E k \in DOMAIN Pieces(r, t, overlap) :
             Inside(p, Pieces(r, t, overlap)[k])
<1> DEFINE step == t - overlap
           n == CeilDiv(r.e - r.s - t, step)
           From(k) == r.s + (k - 1) * step
           piece(k) == [lo |-> From(k), hi |-> MinOf(From(k) + t, r.e), seam |-> k > 1]
<1>1. step \in Nat \ {0} /\ t \in Nat /\ step <= t
  OBVIOUS
<1>2. r.s \in Int /\ r.e \in Int /\ r.e - r.s - t \in Nat
  BY <1>1 DEF Stretch
<1>3. n \in Nat /\ r.e - r.s - t <= n * step
  BY <1>1, <1>2, RoundedUp
<1>4. Pieces(r, t, overlap) = [k \in 1..(n + 1) |-> piece(k)]
  BY DEF Pieces
<1>5. ASSUME NEW k \in 1..(n + 1)
      PROVE piece(k) \in Span(t)
  <2>1. (k - 1) * step \in Int
    BY <1>1, <1>3
  <2>2. From(k) \in Int /\ From(k) + t \in Int
    BY <2>1, <1>1, <1>2
  <2> HIDE DEF From
  <2> QED BY <2>2, <1>1, <1>2 DEF Span, MinOf
<1>6. ASSUME NEW p \in Speech(r)
      PROVE \E k \in 1..(n + 1) : Inside(p, piece(k))
  <2>1. p \in Int /\ r.s <= p /\ p < r.e /\ p - r.s \in Nat
    BY <1>2
  <2>2. n * step \in Nat
    BY <1>1, <1>3
  <2>3. CASE p - r.s < n * step
    <3> DEFINE q == (p - r.s) \div step
    <3>1. q \in Nat /\ q * step <= p - r.s /\ p - r.s < q * step + step
      BY <1>1, <2>1, Quotient
    <3>2. q * step \in Nat
      BY <3>1, <1>1
    <3>3. q * step < n * step
      BY <2>2, <2>3, <3>1, <3>2, <2>1
    <3> HIDE DEF q, step, n
    <3>4. q < n
      BY <3>1, <3>3, <1>1, <1>3, SmallerFactor
    <3>5. q + 1 \in 1..(n + 1) /\ From(q + 1) = r.s + q * step
      BY <3>1, <3>4, <1>3
    <3>6. Inside(p, piece(q + 1))
      BY <3>1, <3>2, <3>5, <2>1, <1>1, <1>2 DEF Inside, MinOf
    <3> QED BY <3>5, <3>6
  <2>4. CASE p - r.s >= n * step
    <3> HIDE DEF step, n
    <3>1. n + 1 \in 1..(n + 1) /\ From(n + 1) = r.s + n * step
      BY <1>3
    <3> DEFINE x == n * step
               last == piece(n + 1)
    <3>2. last.lo = r.s + x /\ last.hi = MinOf(r.s + x + t, r.e) /\ x \in Nat /\ r.e - r.s - t <= x
      BY <3>1, <2>2, <1>3
    <3> HIDE DEF x, last
    <3>3. p - r.s >= x
      BY <2>4 DEF x
    <3>4. last.lo <= p /\ p < last.hi
      BY ONLY <3>2, <3>3, <2>1, <1>2, t \in Nat \ {0} DEF MinOf
    <3>5. Inside(p, piece(n + 1))
      BY <3>4 DEF Inside, last
    <3> QED BY <3>1, <3>5
  <2>5. p - r.s < n * step \/ p - r.s >= n * step
    <3> DEFINE x == n * step
    <3> HIDE DEF x
    <3>1. x \in Nat
      BY <2>2 DEF x
    <3>2. p - r.s < x \/ p - r.s >= x
      BY ONLY <2>1, <3>1
    <3> QED BY <3>2 DEF x
  <2> HIDE DEF n, step, piece
  <2> QED BY ONLY <2>3, <2>4, <2>5
<1> HIDE DEF n, piece
<1> QED BY <1>3, <1>4, <1>5, <1>6

-----------------------------------------------------------------------------
(* Speech regions                                                          *)

LEMMA BoundsAreNumbers ==
  /\ Target \in Nat \ {0} /\ SegOverlap \in Nat /\ SegPad \in Nat /\ MinSilence \in Nat
  /\ SegPad <= MinSilence /\ Length \in Nat \ {0} /\ MinSpeech \in Nat \ {0} /\ VadPad \in Nat
  BY TargetAssumption, PadAssumption, CountAssumption

LEMMA OverlapIsLess == SegOverlap < Target
  BY TargetAssumption

\* A run starts and ends with a voiced frame.
LEMMA RunEnds ==
  ASSUME NEW voiced, NEW n \in Nat, voiced \subseteq 0..(n - 1), NEW x \in Runs(Joined(voiced, n), n)
  PROVE  /\ x.s \in 0..(n - 1) /\ x.e \in 1..n /\ x.s < x.e
         /\ x.s \in voiced /\ x.e - 1 \in voiced
<1> DEFINE joined == Joined(voiced, n)
<1>1. /\ x \in [s : 0..(n - 1), e : 1..n]
      /\ x.s < x.e /\ x.s .. (x.e - 1) \subseteq joined
      /\ (x.s - 1) \notin joined /\ x.e \notin joined
  BY DEF Runs
<1>2. \A p \in joined : /\ p \in 0..(n - 1)
                        /\ \E a, b \in voiced : a <= p /\ p <= b /\ (a = b \/ b - a - 1 <= MinSilence)
  BY DEF Joined
<1>3. \A a, b \in voiced : \A p \in 0..(n - 1) :
        a <= p /\ p <= b /\ (a = b \/ b - a - 1 <= MinSilence) => p \in joined
  BY DEF Joined
<1> HIDE DEF joined
<1>4. x.s \in 0..(n - 1) /\ x.e \in 1..n
  BY <1>1
<1>5. x.e - 1 \in voiced
  <2>1. x.e - 1 \in x.s .. (x.e - 1)
    BY <1>1, <1>4
  <2>2. PICK a \in voiced, b \in voiced :
          a <= x.e - 1 /\ x.e - 1 <= b /\ (a = b \/ b - a - 1 <= MinSilence)
    BY <1>1, <1>2, <2>1
  <2>3. a \in 0..(n - 1) /\ b \in 0..(n - 1)
    OBVIOUS
  <2>4. CASE b # x.e - 1
    <3>1. x.e <= b /\ a <= x.e /\ x.e \in 0..(n - 1)
      BY <1>4, <2>2, <2>3, <2>4
    <3> QED BY <1>1, <1>3, <2>2, <3>1
  <2> QED BY <2>4
<1>6. x.s \in voiced
  <2>1. x.s \in x.s .. (x.e - 1)
    BY <1>1, <1>4
  <2>2. PICK a \in voiced, b \in voiced :
          a <= x.s /\ x.s <= b /\ (a = b \/ b - a - 1 <= MinSilence)
    BY <1>1, <1>2, <2>1
  <2>3. a \in 0..(n - 1) /\ b \in 0..(n - 1)
    OBVIOUS
  <2>4. CASE a # x.s
    <3>1. a <= x.s - 1 /\ x.s - 1 <= b /\ x.s - 1 \in 0..(n - 1)
      BY <1>4, <2>2, <2>3, <2>4
    <3> QED BY <1>1, <1>3, <2>2, <3>1
  <2> QED BY <2>4
<1> QED BY <1>1, <1>4, <1>5, <1>6

\* Two runs of the joined frames are the same or more than MinSilence apart:
\* the frame after a run and the one before the next are not joined, so the
\* frames at their ends are voiced, and a short silence would have joined them.
LEMMA RunsApart ==
  ASSUME NEW voiced, NEW n \in Nat, voiced \subseteq 0..(n - 1),
         NEW q \in Runs(Joined(voiced, n), n), NEW r \in Runs(Joined(voiced, n), n)
  PROVE q = r \/ q.e + MinSilence < r.s \/ r.e + MinSilence < q.s
<1> DEFINE joined == Joined(voiced, n)
           R == Runs(joined, n)
<1>1. \A x \in R : /\ x \in [s : 0..(n - 1), e : 1..n]
                   /\ x.s < x.e /\ x.s .. (x.e - 1) \subseteq joined
                   /\ (x.s - 1) \notin joined /\ x.e \notin joined
  BY DEF Runs
<1>2. \A x \in R : x.s \in voiced /\ x.e - 1 \in voiced
  BY RunEnds
<1>3. \A a, b \in voiced : \A p \in 0..(n - 1) :
        a <= p /\ p <= b /\ (a = b \/ b - a - 1 <= MinSilence) => p \in joined
  BY DEF Joined
<1>4. MinSilence \in Nat
  BY BoundsAreNumbers
<1> HIDE DEF joined, R
<1>5. ASSUME NEW x \in R, NEW y \in R, x.s < y.s
      PROVE x.e + MinSilence < y.s
  <2>1. x.s \in 0..(n - 1) /\ y.s \in 0..(n - 1) /\ x.e \in 1..n /\ y.e \in 1..n
    BY <1>1
  <2>2. x.e < y.s
    <3>1. SUFFICES ASSUME y.s <= x.e PROVE FALSE
      BY <2>1
    <3>2. y.s - 1 \in x.s .. (x.e - 1)
      BY <1>5, <2>1, <3>1
    <3> QED BY <1>1, <3>2
  <2>3. x.e - 1 \in voiced /\ y.s \in voiced
    BY <1>2
  <2>4. SUFFICES ASSUME y.s <= x.e + MinSilence PROVE FALSE
    BY <2>1, <1>4
  <2>5. x.e - 1 <= x.e /\ x.e <= y.s /\ y.s - (x.e - 1) - 1 <= MinSilence /\ x.e \in 0..(n - 1)
    BY <2>1, <2>2, <2>4, <1>4
  <2>6. x.e \in joined
    BY <1>3, <2>3, <2>5
  <2> QED BY <1>1, <2>6
<1>6. ASSUME NEW x \in R, NEW y \in R, x.s = y.s, x.e < y.e
      PROVE FALSE
  <2>1. x.s \in 0..(n - 1) /\ x.e \in 1..n /\ y.e \in 1..n
    BY <1>1
  <2>2. x.e \in y.s .. (y.e - 1)
    BY <1>1, <1>6, <2>1
  <2> QED BY <1>1, <2>2
<1>7. q \in R /\ r \in R
  BY DEF R, joined
<1>8. /\ q.s \in 0..(n - 1) /\ r.s \in 0..(n - 1) /\ q.e \in 1..n /\ r.e \in 1..n
      /\ (q.s = r.s /\ q.e = r.e => q = r)
  BY <1>1, <1>7
<1>9. q.s < r.s \/ r.s < q.s \/ (q.s = r.s /\ (q.e < r.e \/ r.e < q.e \/ q.e = r.e))
  BY <1>8
<1> QED BY <1>5, <1>6, <1>7, <1>8, <1>9

\* A voiced frame that a run does not hold is more than MinSilence away of it.
LEMMA RunsQuiet ==
  ASSUME NEW voiced, NEW n \in Nat, voiced \subseteq 0..(n - 1),
         NEW x \in Runs(Joined(voiced, n), n), NEW p \in voiced
  PROVE  (x.s <= p /\ p < x.e) \/ x.e + MinSilence < p \/ p + MinSilence < x.s
<1> DEFINE joined == Joined(voiced, n)
<1>1. (x.s - 1) \notin joined /\ x.e \notin joined
  BY DEF Runs
<1>2. \A a, b \in voiced : \A t \in 0..(n - 1) :
        a <= t /\ t <= b /\ (a = b \/ b - a - 1 <= MinSilence) => t \in joined
  BY DEF Joined
<1>3. /\ x.s \in 0..(n - 1) /\ x.e \in 1..n /\ x.s < x.e
      /\ x.s \in voiced /\ x.e - 1 \in voiced
  BY RunEnds
<1>4. p \in 0..(n - 1) /\ MinSilence \in Nat
  BY BoundsAreNumbers
<1> HIDE DEF joined
<1>5. CASE x.e <= p /\ p <= x.e + MinSilence
  <2>1. x.e - 1 <= x.e /\ x.e <= p /\ p - (x.e - 1) - 1 <= MinSilence /\ x.e \in 0..(n - 1)
    BY <1>3, <1>4, <1>5
  <2> QED BY <1>1, <1>2, <1>3, <2>1
<1>6. CASE p < x.s /\ x.s <= p + MinSilence
  <2>1. p <= x.s - 1 /\ x.s - 1 <= x.s /\ x.s - p - 1 <= MinSilence /\ x.s - 1 \in 0..(n - 1)
    BY <1>3, <1>4, <1>6
  <2> QED BY <1>1, <1>2, <1>3, <2>1
<1> QED BY <1>3, <1>4, <1>5, <1>6

\* What the detector returns lies in the signal, and apart.
LEMMA RegionsApart ==
  ASSUME NEW f, Len(f) \in Nat
  PROVE /\ \A a \in Regions(f) : a \in Stretch /\ 0 <= a.s /\ a.s < a.e /\ a.e < Len(f)
        /\ \A a, b \in Regions(f) : a = b \/ a.e + MinSilence < b.s \/ b.e + MinSilence < a.s
<1> DEFINE n == Len(f)
           voiced == Voiced(f)
           R == Runs(Joined(voiced, n), n)
           cut(q) == [s |-> q.s, e |-> MinOf(q.e, n - 1)]
<1>1. Regions(f) = {r \in {cut(q) : q \in R} : r.e - r.s >= MinSpeech}
  BY DEF Regions
<1>2. voiced \subseteq 0..(n - 1)
  BY DEF Voiced
<1>3. \A q \in R : q.s \in 0..(n - 1) /\ q.e \in 1..n
  BY DEF Runs
<1>4. \A q, r \in R : q = r \/ q.e + MinSilence < r.s \/ r.e + MinSilence < q.s
  BY <1>2, RunsApart
<1> HIDE DEF R, voiced
<1>5. \A q \in R : /\ cut(q).s = q.s /\ cut(q).e \in Int /\ cut(q).e <= q.e
                   /\ cut(q).e <= n - 1 /\ cut(q) \in Stretch
  BY <1>3 DEF MinOf, Stretch
<1> HIDE DEF cut
<1>6. ASSUME NEW a \in Regions(f)
      PROVE a \in Stretch /\ 0 <= a.s /\ a.s < a.e /\ a.e < Len(f)
  <2>1. PICK q \in R : a = cut(q)
    BY <1>1
  <2>2. a.e - a.s >= MinSpeech
    BY <1>1
  <2> QED BY <2>1, <2>2, <1>3, <1>5, BoundsAreNumbers
<1>7. ASSUME NEW a \in Regions(f), NEW b \in Regions(f)
      PROVE a = b \/ a.e + MinSilence < b.s \/ b.e + MinSilence < a.s
  <2>1. PICK q \in R : a = cut(q)
    BY <1>1
  <2>2. PICK r \in R : b = cut(r)
    BY <1>1
  <2>3. q = r \/ q.e + MinSilence < r.s \/ r.e + MinSilence < q.s
    BY <1>4
  <2>4. /\ a.s = q.s /\ b.s = r.s /\ a.e <= q.e /\ b.e <= r.e
        /\ a.e \in Int /\ b.e \in Int
        /\ q.s \in Int /\ r.s \in Int /\ q.e \in Int /\ r.e \in Int /\ MinSilence \in Nat
    BY <2>1, <2>2, <1>3, <1>5, BoundsAreNumbers
  <2> QED BY <2>1, <2>2, <2>3, <2>4, SMTT(30)
<1> QED BY <1>6, <1>7

\* What is voiced before the second of two regions lies in the first or one
\* of the stretches that MinSpeech left out, away from both.
LEMMA RegionsQuiet ==
  ASSUME NEW f, Len(f) \in Nat, NEW a \in Regions(f), NEW b \in Regions(f),
         a.e + MinSilence < b.s, NEW p \in Voiced(f)
  PROVE  p < a.e \/ b.s <= p \/ (a.e + MinSilence < p /\ p + MinSilence < b.s)
<1> DEFINE n == Len(f)
           voiced == Voiced(f)
           R == Runs(Joined(voiced, n), n)
           cut(q) == [s |-> q.s, e |-> MinOf(q.e, n - 1)]
<1>1. Regions(f) = {r \in {cut(q) : q \in R} : r.e - r.s >= MinSpeech}
  BY DEF Regions
<1>2. voiced \subseteq 0..(n - 1)
  BY DEF Voiced
<1>3. PICK x \in R, y \in R : a = cut(x) /\ b = cut(y)
  BY <1>1
<1>4. /\ x.s \in 0..(n - 1) /\ x.e \in 1..n /\ x.s < x.e
      /\ y.s \in 0..(n - 1) /\ y.e \in 1..n /\ y.s < y.e
  BY <1>2, RunEnds
<1>5. x = y \/ x.e + MinSilence < y.s \/ y.e + MinSilence < x.s
  BY <1>2, RunsApart
<1>6. /\ (x.s <= p /\ p < x.e) \/ x.e + MinSilence < p \/ p + MinSilence < x.s
      /\ (y.s <= p /\ p < y.e) \/ y.e + MinSilence < p \/ p + MinSilence < y.s
  BY <1>2, RunsQuiet
<1>7. a.s < a.e
  BY RegionsApart
<1>8. p \in Int /\ MinSilence \in Nat /\ n \in Nat
  BY <1>2, BoundsAreNumbers
<1> HIDE DEF voiced, R
<1>9. a.s = x.s /\ b.s = y.s /\ a.e = MinOf(x.e, n - 1)
  BY <1>3
<1> HIDE DEF n, cut
<1>10. /\ x.s \in Int /\ x.e \in Int /\ y.s \in Int /\ y.e \in Int
       /\ x.s < x.e /\ y.s < y.e /\ y.s <= n - 1
  BY <1>4, <1>8
<1>11. a.e <= x.e /\ a.e \in Int /\ (a.e = x.e \/ a.e = n - 1)
  BY <1>8, <1>9, <1>10 DEF MinOf
<1>12. x # y /\ ~(y.e + MinSilence < x.s)
  BY <1>7, <1>8, <1>9, <1>10, <1>11
<1>13. a.e = x.e
  BY <1>5, <1>8, <1>10, <1>11, <1>12
<1> QED BY <1>6, <1>8, <1>9, <1>10, <1>13

\* The pads keep the order: of two padded regions the one that starts first
\* does not end later, and no two start together.
LEMMA PaddedInOrder ==
  ASSUME Len(kept) \in Nat
  PROVE /\ \A q \in Padded(Regions(kept)) : q \in Stretch /\ q.s < q.e
        /\ \A q, r \in Padded(Regions(kept)) : q.s <= r.s => q = r \/ q.e <= r.e
        /\ \A a \in Regions(kept) : \E q \in Padded(Regions(kept)) : Speech(a) \subseteq Speech(q)
<1> DEFINE R == Regions(kept)
           pad(r) == [s |-> MaxOf(0, r.s - SegPad), e |-> MinOf(Len(kept), r.e + SegPad)]
<1>1. Padded(R) = {pad(r) : r \in R}
  BY DEF Padded
<1>2. /\ \A a \in R : a \in Stretch /\ 0 <= a.s /\ a.s < a.e /\ a.e < Len(kept)
      /\ \A a, b \in R : a = b \/ a.e + MinSilence < b.s \/ b.e + MinSilence < a.s
  BY RegionsApart
<1> HIDE DEF R
<1>3. \A a \in R : /\ pad(a) \in Stretch /\ pad(a).s <= a.s /\ a.e <= pad(a).e
                   /\ a.s - SegPad <= pad(a).s /\ pad(a).s >= 0
                   /\ pad(a).e <= a.e + SegPad /\ pad(a).e <= Len(kept)
                   /\ (pad(a).e = a.e + SegPad \/ pad(a).e = Len(kept))
  BY <1>2, BoundsAreNumbers DEF MaxOf, MinOf, Stretch
<1>4. \A a \in R : a.s \in Int /\ a.e \in Int /\ pad(a).s \in Int /\ pad(a).e \in Int
  BY <1>2, <1>3 DEF Stretch
<1> HIDE DEF pad
<1>5. ASSUME NEW q \in Padded(R)
      PROVE q \in Stretch /\ q.s < q.e
  <2>1. PICK a \in R : q = pad(a)
    BY <1>1
  <2> QED BY <2>1, <1>2, <1>3, <1>4
<1>6. ASSUME NEW q \in Padded(R), NEW r \in Padded(R), q.s <= r.s
      PROVE q = r \/ q.e <= r.e
  <2>1. PICK a \in R : q = pad(a)
    BY <1>1
  <2>2. PICK b \in R : r = pad(b)
    BY <1>1
  <2>3. CASE a = b
    BY <2>1, <2>2, <2>3
  <2>4. CASE a.e + MinSilence < b.s
    <3>1. a.e <= b.e
      BY <2>4, <1>2, <1>4, BoundsAreNumbers
    <3>2. pad(a).e <= pad(b).e
      BY <3>1, <1>3, <1>4, BoundsAreNumbers
    <3> QED BY <3>2, <2>1, <2>2
  <2>5. CASE b.e + MinSilence < a.s
    <3>1. pad(b).s < pad(a).s
      BY <2>5, <1>2, <1>3, <1>4, BoundsAreNumbers
    <3> QED BY <3>1, <1>4, <1>6, <2>1, <2>2
  <2> QED BY <1>2, <2>3, <2>4, <2>5
<1>7. ASSUME NEW a \in R
      PROVE \E q \in Padded(R) : Speech(a) \subseteq Speech(q)
  <2>1. pad(a) \in Padded(R)
    BY <1>1
  <2>2. Speech(a) \subseteq Speech(pad(a))
    BY <1>3, <1>4
  <2> QED BY <2>1, <2>2
<1> QED BY <1>5, <1>6, <1>7 DEF R

\* Nothing is said in these frames of the signal.
Quiet(ks, au, lo, hi) == \A p \in 0..(Len(ks) - 1) : lo <= p /\ p < hi => au[ks[p + 1]] = Silence

\* Pads of two regions may meet, but only where nothing is said.
LEMMA PaddedQuiet ==
  ASSUME Len(kept) \in Nat, NEW q \in Padded(Regions(kept)), NEW r \in Padded(Regions(kept)), q.s < r.s
  PROVE  Quiet(kept, audio, r.s, q.e)
<1> SUFFICES ASSUME NEW p \in 0..(Len(kept) - 1), r.s <= p, p < q.e, audio[kept[p + 1]] # Silence
             PROVE  FALSE
  BY DEF Quiet
<1>1. PICK a \in Regions(kept), b \in Regions(kept) :
        /\ q = [s |-> MaxOf(0, a.s - SegPad), e |-> MinOf(Len(kept), a.e + SegPad)]
        /\ r = [s |-> MaxOf(0, b.s - SegPad), e |-> MinOf(Len(kept), b.e + SegPad)]
  BY DEF Padded
<1>2. /\ a \in Stretch /\ 0 <= a.s /\ a.s < a.e
      /\ b \in Stretch /\ 0 <= b.s /\ b.s < b.e
      /\ a = b \/ a.e + MinSilence < b.s \/ b.e + MinSilence < a.s
  BY RegionsApart
<1>3. a.s \in Int /\ a.e \in Int /\ b.s \in Int /\ b.e \in Int
  BY <1>2 DEF Stretch
<1>4. SegPad \in Nat /\ MinSilence \in Nat /\ SegPad <= MinSilence
  BY BoundsAreNumbers
<1>5. /\ q.s = MaxOf(0, a.s - SegPad) /\ r.s = MaxOf(0, b.s - SegPad)
      /\ q.e = MinOf(Len(kept), a.e + SegPad)
  BY <1>1
<1>6. b.s - SegPad <= r.s /\ q.e <= a.e + SegPad /\ r.s \in Int /\ q.e \in Int
  BY <1>3, <1>4, <1>5 DEF MaxOf, MinOf
<1>7. a.e + MinSilence < b.s
  <2>1. a # b
    BY <1>3, <1>4, <1>5 DEF MaxOf
  <2>2. ~(b.e + MinSilence < a.s)
    BY <1>2, <1>3, <1>4, <1>5 DEF MaxOf
  <2> QED BY <1>2, <2>1, <2>2
<1>8. p \in Voiced(kept)
  BY DEF Voiced
<1>9. p < a.e \/ b.s <= p \/ (a.e + MinSilence < p /\ p + MinSilence < b.s)
  BY <1>7, <1>8, RegionsQuiet
<1> QED BY <1>3, <1>4, <1>6, <1>7, <1>9

-----------------------------------------------------------------------------
(* Grouping                                                                *)

GroupType(t) == [spans : Seq(Span(t)), cur : {c \in Stretch : c.e - c.s <= t}]

\* A frame that a span of the grouping holds, or the span that is open.
HeldBy(spans, p) == \E i \in DOMAIN spans : Inside(p, spans[i])
Held(g, p) == HeldBy(g.spans, p) \/ p \in Speech(g.cur)

\* Spans that are added take no frame away.
LEMMA HeldLonger ==
  ASSUME NEW A, NEW a \in Seq(A), NEW b \in Seq(A), NEW p
  PROVE HeldBy(a, p) \/ HeldBy(b, p) <=> HeldBy(a \o b, p)
<1>1. ASSUME HeldBy(a, p)
      PROVE HeldBy(a \o b, p)
  <2>1. PICK i \in DOMAIN a : Inside(p, a[i])
    BY <1>1 DEF HeldBy
  <2>2. i \in DOMAIN (a \o b) /\ (a \o b)[i] = a[i]
    OBVIOUS
  <2> QED BY <2>1, <2>2 DEF HeldBy
<1>2. ASSUME HeldBy(b, p)
      PROVE HeldBy(a \o b, p)
  <2>1. PICK i \in DOMAIN b : Inside(p, b[i])
    BY <1>2 DEF HeldBy
  <2>2. Len(a) + i \in DOMAIN (a \o b) /\ (a \o b)[Len(a) + i] = b[i]
    OBVIOUS
  <2> QED BY <2>1, <2>2 DEF HeldBy
<1>3. ASSUME HeldBy(a \o b, p)
      PROVE HeldBy(a, p) \/ HeldBy(b, p)
  <2>1. PICK i \in DOMAIN (a \o b) : Inside(p, (a \o b)[i])
    BY <1>3 DEF HeldBy
  <2>2. CASE i <= Len(a)
    <3>1. i \in DOMAIN a /\ (a \o b)[i] = a[i]
      BY <2>2
    <3> QED BY <2>1, <3>1 DEF HeldBy
  <2>3. CASE i > Len(a)
    <3>1. i - Len(a) \in DOMAIN b /\ (a \o b)[i] = b[i - Len(a)]
      BY <2>3
    <3> QED BY <2>1, <3>1 DEF HeldBy
  <2> QED BY <2>2, <2>3
<1> QED BY <1>1, <1>2, <1>3

\* A flush keeps what is held.
LEMMA FlushKeeps ==
  ASSUME NEW t \in Nat, NEW g \in GroupType(t)
  PROVE /\ Flushed(g) \in Seq(Span(t))
        /\ \A p \in Int : Held(g, p) => HeldBy(Flushed(g), p)
<1>1. /\ g.spans \in Seq(Span(t)) /\ g.cur \in Stretch /\ g.cur.e - g.cur.s <= t
      /\ g.cur.s \in Int /\ g.cur.e \in Int
  BY DEF GroupType, Stretch
<1>2. CASE g.cur = NoSpan
  <2>1. \A p \in Int : p \notin Speech(g.cur)
    BY <1>2 DEF NoSpan
  <2> QED BY <1>1, <1>2, <2>1 DEF Flushed, Held
<1>3. CASE g.cur # NoSpan
  <2> DEFINE c == [lo |-> g.cur.s, hi |-> g.cur.e, seam |-> FALSE]
  <2>1. c \in Span(t)
    BY <1>1 DEF Span
  <2>2. Flushed(g) = Append(g.spans, c)
    BY <1>3 DEF Flushed
  <2>3. \A p \in Int : p \in Speech(g.cur) => Inside(p, c)
    BY <1>1 DEF Inside
  <2> HIDE DEF c
  <2>4. /\ Append(g.spans, c) \in Seq(Span(t))
        /\ DOMAIN Append(g.spans, c) = 1..(Len(g.spans) + 1)
        /\ \A i \in DOMAIN g.spans : Append(g.spans, c)[i] = g.spans[i]
        /\ Append(g.spans, c)[Len(g.spans) + 1] = c
        /\ DOMAIN g.spans = 1..Len(g.spans) /\ Len(g.spans) \in Nat
    BY <1>1, <2>1
  <2>5. ASSUME NEW p \in Int, Held(g, p)
        PROVE HeldBy(Append(g.spans, c), p)
    <3>1. CASE p \in Speech(g.cur)
      BY <2>3, <2>4, <3>1 DEF HeldBy
    <3>2. CASE HeldBy(g.spans, p)
      BY <2>4, <3>2 DEF HeldBy
    <3> QED BY <2>5, <3>1, <3>2 DEF Held
  <2> QED BY <2>2, <2>4, <2>5
<1> QED BY <1>2, <1>3

\* One turn of the loop keeps what is held and adds the region it is at, when
\* the open span neither starts nor ends after that region does.
LEMMA GroupedKeeps ==
  ASSUME NEW t \in Nat \ {0}, NEW overlap \in Nat, overlap < t,
         NEW g \in GroupType(t), NEW r \in Stretch,
         g.cur # NoSpan => g.cur.s <= r.s /\ g.cur.e <= r.e
  PROVE LET h == Grouped(g, r, t, overlap)
        IN /\ h \in GroupType(t)
           /\ \A p \in Int : Held(g, p) \/ p \in Speech(r) => Held(h, p)
           /\ h.cur # NoSpan => h.cur.s <= r.s /\ h.cur.e = r.e
<1> DEFINE h == Grouped(g, r, t, overlap)
           P == Pieces(r, t, overlap)
<1>1. /\ g = [spans |-> g.spans, cur |-> g.cur]
      /\ g.spans \in Seq(Span(t)) /\ g.cur \in Stretch /\ g.cur.e - g.cur.s <= t
      /\ g.cur.s \in Int /\ g.cur.e \in Int
      /\ g.cur = [s |-> g.cur.s, e |-> g.cur.e]
  BY DEF GroupType, Stretch
<1>2. r.s \in Int /\ r.e \in Int /\ t \in Nat
  BY BoundsAreNumbers DEF Stretch
<1>3. Flushed(g) \in Seq(Span(t)) /\ \A p \in Int : Held(g, p) => HeldBy(Flushed(g), p)
  BY FlushKeeps
<1>4. NoSpan \in Stretch /\ NoSpan.e - NoSpan.s <= t
  BY <1>2 DEF NoSpan, Stretch
<1>5. CASE r.e - r.s > t
  <2>1. h = [spans |-> Flushed(g) \o P, cur |-> NoSpan]
    BY <1>5 DEF Grouped
  <2>2. P \in Seq(Span(t)) /\ \A p \in Speech(r) : HeldBy(P, p)
    BY <1>5, PiecesFitAndCover DEF HeldBy
  <2> HIDE DEF P
  <2>3. Flushed(g) \o P \in Seq(Span(t))
    BY <1>3, <2>2
  <2>4. h \in GroupType(t)
    BY <1>4, <2>1, <2>3 DEF GroupType
  <2>5. \A p \in Int : Held(g, p) \/ p \in Speech(r) => HeldBy(Flushed(g) \o P, p)
    BY <1>3, <2>2, HeldLonger
  <2> QED BY <2>1, <2>4, <2>5 DEF Held
<1>6. CASE ~(r.e - r.s > t) /\ g.cur # NoSpan /\ r.e - g.cur.s <= t
  <2> DEFINE c == [s |-> g.cur.s, e |-> r.e]
  <2>1. h = [spans |-> g.spans, cur |-> c]
    BY <1>1, <1>6 DEF Grouped
  <2>2. c \in Stretch /\ c.e - c.s <= t
    BY <1>1, <1>2, <1>6 DEF Stretch
  <2>3. h \in GroupType(t)
    BY <1>1, <2>1, <2>2 DEF GroupType
  <2>4. \A p \in Int : p \in Speech(g.cur) \/ p \in Speech(r) => p \in Speech(c)
    BY <1>1, <1>2, <1>6
  <2>5. c.s = g.cur.s /\ c.e = r.e /\ g.cur.s <= r.s
    BY <1>6
  <2> HIDE DEF c
  <2>6. h.spans = g.spans /\ h.cur = c
    BY <2>1
  <2>7. \A p \in Int : Held(g, p) \/ p \in Speech(r) => Held(h, p)
    BY <2>4, <2>6 DEF Held
  <2> QED BY <2>3, <2>5, <2>6, <2>7
<1>7. CASE ~(r.e - r.s > t) /\ ~(g.cur # NoSpan /\ r.e - g.cur.s <= t)
  <2>1. h = [spans |-> Flushed(g), cur |-> r]
    BY <1>7 DEF Grouped
  <2>2. h \in GroupType(t)
    BY <1>2, <1>3, <1>7, <2>1 DEF GroupType
  <2> QED BY <1>2, <1>3, <2>1, <2>2 DEF Held
<1> QED BY <1>5, <1>6, <1>7

-----------------------------------------------------------------------------
(* The invariant                                                           *)

\* Which regions there are depends on the recording and the cut alone.
Region == Regions(kept)
PaddedRegion == Padded(Region)

LEMMA SameRegions ==
  ASSUME UNCHANGED <<audio, kept>>
  PROVE Region' = Region /\ PaddedRegion' = PaddedRegion
  BY DEF Region, PaddedRegion, Padded, Regions, Runs, Joined, Voiced

Grouping == stage = "group"
Chunked == stage \in {"decode", "redecode", "merge", "done"}

FitInv == Len(kept) \in Nat /\ group \in GroupType(Target) /\ (stage \in {"prepare", "detect"} => group = Ungrouped)

\* While regions are grouped, those that were reached are held, and the open
\* span neither starts nor ends after one that was not.
CoverInv ==
  /\ Grouping => /\ todo \subseteq PaddedRegion
                 /\ \A q \in PaddedRegion \ todo : \A p \in Speech(q) : Held(group, p)
                 /\ group.cur # NoSpan => \A q \in todo : group.cur.s <= q.s /\ group.cur.e <= q.e
  /\ Chunked => \A q \in PaddedRegion : \A p \in Speech(q) : HeldBy(group.spans, p)

ChunkInv == FitInv /\ CoverInv

\* The cut leaves units of the recording, in their order.
LEMMA CutInOrder ==
  /\ Compressed \in Seq(1..Length)
  /\ \A i, j \in DOMAIN Compressed : i < j => Compressed[i] < Compressed[j]
<1> DEFINE wide == {[s |-> MaxOf(0, r.s - VadPad), e |-> MinOf(Length, r.e + VadPad)] : r \in Regions(kept)}
           stays == {u \in 1..Length :
                       \/ wide = {}
                       \/ \E a \in wide : a.s < u /\ u <= a.e
                       \/ \E a, b \in wide : a.e < u /\ u <= b.s /\ b.s - a.e <= VadSilence}
<1>1. Compressed = InOrder(stays)
  BY DEF Compressed
<1>2. stays \subseteq 1..Length /\ IsFiniteSet(1..Length)
  <2>1. Length \in Int /\ 1 \in Int
    BY BoundsAreNumbers
  <2>2. IsFiniteSet(1..Length)
    BY <2>1, FS_Interval
  <2> QED BY <2>2
<1> HIDE DEF stays
<1>3. stays \in SUBSET Nat /\ IsFiniteSet(stays)
  <2>1. 1..Length \subseteq Nat
    BY BoundsAreNumbers
  <2>2. stays \in SUBSET (1..Length)
    BY <1>2
  <2> QED BY <1>2, <2>1, <2>2, FS_Subset
<1>4. /\ Cardinality(stays) \in Nat
      /\ InOrder(stays) \in Seq(stays) /\ Len(InOrder(stays)) = Cardinality(stays)
      /\ \A i, j \in 1..Cardinality(stays) : i < j => InOrder(stays)[i] < InOrder(stays)[j]
  BY <1>3, InOrderIs
<1>5. DOMAIN InOrder(stays) = 1..Cardinality(stays)
  BY <1>4
<1>6. InOrder(stays) \in Seq(1..Length)
  BY <1>2, <1>4, SeqGrows
<1> QED BY <1>1, <1>4, <1>5, <1>6

LEMMA CompressedLength == Len(Compressed) \in Nat
BY CutInOrder

LEMMA EmptyGroup == Ungrouped \in GroupType(Target)
  BY BoundsAreNumbers DEF Ungrouped, GroupType, NoSpan, Stretch, Span

LEMMA InitChunkInv == Init => ChunkInv
<1> SUFFICES ASSUME Init PROVE ChunkInv
  OBVIOUS
<1> USE DEF Init
<1>1. Len(kept) \in Nat
  BY BoundsAreNumbers
<1>2. group \in GroupType(Target)
  BY EmptyGroup
<1>3. stage = "prepare" /\ group = Ungrouped
  OBVIOUS
<1> QED BY <1>1, <1>2, <1>3 DEF ChunkInv, FitInv, CoverInv, Grouping, Chunked

\* Steps that leave the recording and the spans as they are, and that reach no
\* new part of the run except from one where all is chunked.
LEMMA QuietStep ==
  ASSUME ChunkInv, UNCHANGED <<audio, kept, todo, group>>,
         Grouping' => Grouping, Chunked' => Chunked,
         stage' \in {"prepare", "detect"} => stage \in {"prepare", "detect"}
  PROVE ChunkInv'
<1>1. PaddedRegion' = PaddedRegion
  BY SameRegions
<1>2. FitInv'
  BY DEF ChunkInv, FitInv
<1>3. CoverInv'
  BY <1>1 DEF ChunkInv, CoverInv, Held, HeldBy
<1> QED BY <1>2, <1>3 DEF ChunkInv

LEMMA NextChunkInv == ChunkInv /\ [Next]_vars => ChunkInv'
<1> SUFFICES ASSUME ChunkInv, [Next]_vars PROVE ChunkInv'
  OBVIOUS
<1> USE DEF Grouping, Chunked
<1>1. CASE Preprocess
  <2>1. Len(kept') \in Nat
    BY <1>1, CompressedLength DEF Preprocess, ChunkInv, FitInv
  <2>2. stage' = "detect" /\ stage = "prepare" /\ group' = group
    BY <1>1 DEF Preprocess
  <2> QED BY <2>1, <2>2 DEF ChunkInv, FitInv, CoverInv
<1>2. CASE Detect
  <2>1. /\ stage' = "group" /\ stage = "detect" /\ todo' = PaddedRegion
        /\ UNCHANGED <<audio, kept, group>>
    BY <1>2 DEF Detect, PaddedRegion, Region
  <2>2. PaddedRegion' = PaddedRegion
    BY <2>1, SameRegions
  <2>3. group = Ungrouped /\ group.cur = NoSpan
    BY <2>1 DEF ChunkInv, FitInv, Ungrouped
  <2> QED BY <2>1, <2>2, <2>3 DEF ChunkInv, FitInv, CoverInv
<1>3. CASE GroupRegion
  <2>1. /\ stage = "group" /\ stage' = "group" /\ UNCHANGED <<audio, kept>>
        /\ Len(kept) \in Nat /\ group \in GroupType(Target) /\ todo \subseteq PaddedRegion
    BY <1>3 DEF GroupRegion, ChunkInv, FitInv, CoverInv
  <2>2. PICK r \in todo : /\ \A q \in todo : r.s <= q.s
                          /\ todo' = todo \ {r}
                          /\ group' = Grouped(group, r, Target, SegOverlap)
    BY <1>3 DEF GroupRegion
  <2>3. PaddedRegion' = PaddedRegion
    BY <2>1, SameRegions
  <2>4. /\ \A q \in PaddedRegion : q \in Stretch /\ q.s < q.e
        /\ \A q \in PaddedRegion : r.s <= q.s => r = q \/ r.e <= q.e
    BY <2>1, <2>2, PaddedInOrder DEF PaddedRegion, Region
  <2>5. \A q \in todo : r.s <= q.s /\ r.e <= q.e
    BY <2>1, <2>2, <2>4 DEF Stretch
  <2>6. group.cur # NoSpan => group.cur.s <= r.s /\ group.cur.e <= r.e
    BY <2>1, <2>2 DEF ChunkInv, CoverInv
  <2>7. /\ group' \in GroupType(Target)
        /\ \A p \in Int : Held(group, p) \/ p \in Speech(r) => Held(group', p)
        /\ group'.cur # NoSpan => group'.cur.s <= r.s /\ group'.cur.e = r.e
    BY <2>1, <2>2, <2>4, <2>6, BoundsAreNumbers, OverlapIsLess, GroupedKeeps
  <2>8. ASSUME NEW q \in PaddedRegion, q \notin todo', NEW p \in Speech(q)
        PROVE Held(group', p)
    <3>1. p \in Int
      BY <2>4 DEF Stretch
    <3>2. q # r => Held(group, p)
      BY <2>1, <2>2, <2>8 DEF ChunkInv, CoverInv
    <3> QED BY <3>1, <3>2, <2>7
  <2>9. ASSUME group'.cur # NoSpan, NEW q \in todo'
        PROVE group'.cur.s <= q.s /\ group'.cur.e <= q.e
    <3>1. q \in todo /\ r.s <= q.s /\ r.e <= q.e
      BY <2>2, <2>5
    <3>2. q.s \in Int /\ r.s \in Int /\ group'.cur.s \in Int
      BY <2>1, <2>2, <2>4, <2>7, <3>1 DEF GroupType, Stretch
    <3> QED BY <2>7, <2>9, <3>1, <3>2
  <2>10. FitInv'
    BY <2>1, <2>7 DEF FitInv
  <2>11. todo' \subseteq PaddedRegion
    BY <2>1, <2>2
  <2>12. CoverInv'
    BY <2>1, <2>3, <2>8, <2>9, <2>11 DEF CoverInv, Held, HeldBy
  <2> QED BY <2>10, <2>12 DEF ChunkInv
<1>4. CASE Chunk
  <2>1. /\ stage = "group" /\ stage' = "decode" /\ todo = {} /\ UNCHANGED <<audio, kept>>
        /\ group' = [spans |-> Flushed(group), cur |-> NoSpan]
        /\ Len(kept) \in Nat /\ group \in GroupType(Target)
    BY <1>4 DEF Chunk, ChunkInv, FitInv
  <2>2. PaddedRegion' = PaddedRegion
    BY <2>1, SameRegions
  <2>3. Flushed(group) \in Seq(Span(Target)) /\ \A p \in Int : Held(group, p) => HeldBy(Flushed(group), p)
    BY <2>1, BoundsAreNumbers, FlushKeeps
  <2>4. FitInv'
    BY <2>1, <2>3, BoundsAreNumbers DEF FitInv, GroupType, NoSpan, Stretch
  <2>5. ASSUME NEW q \in PaddedRegion, NEW p \in Speech(q)
        PROVE HeldBy(Flushed(group), p)
    <3>1. p \in Int
      BY <2>1, PaddedInOrder DEF PaddedRegion, Region, Stretch
    <3> QED BY <3>1, <2>1, <2>3 DEF ChunkInv, CoverInv
  <2>6. CoverInv'
    BY <2>1, <2>2, <2>5 DEF CoverInv, HeldBy
  <2> QED BY <2>4, <2>6 DEF ChunkInv
<1>5. CASE DecodeBatch \/ Align \/ Replace \/ Finish
  <2>1. /\ UNCHANGED <<audio, kept, todo, group>>
        /\ stage \in {"decode", "redecode", "merge"}
        /\ stage' \in {"decode", "redecode", "merge", "done", "failed"}
    BY <1>5 DEF DecodeBatch, Align, Replace, Finish
  <2> QED BY <2>1, QuietStep
<1>6. CASE Cancel \/ UNCHANGED vars
  <2>1. UNCHANGED <<audio, kept, stage, todo, group>>
    BY <1>6 DEF Cancel, vars
  <2> QED BY <2>1, QuietStep
<1>7. CASE Fail \/ Stop
  <2>1. stage' \in {"failed", "cancelled"} /\ kept' = <<>> /\ group' = Ungrouped
    BY <1>7 DEF Fail, Stop, Unwound
  <2>2. Len(kept') \in Nat
    BY <2>1
  <2>3. group' \in GroupType(Target)
    BY <2>1, EmptyGroup
  <2> QED BY <2>1, <2>2, <2>3 DEF ChunkInv, FitInv, CoverInv
<1> QED BY <1>1, <1>2, <1>3, <1>4, <1>5, <1>6, <1>7 DEF Next

\* The run keeps the invariant.
LEMMA ChunkInvariant == Spec => []ChunkInv
  BY InitChunkInv, NextChunkInv, PTL DEF Spec

-----------------------------------------------------------------------------
(* What the chunks hold                                                    *)

\* No chunk is longer than target_sec, however the regions of the recording
\* lie, so the model never cuts one by itself (vad_segment_chunks).
THEOREM ChunksAlwaysFit == Spec => []ChunksFitTarget
<1>1. ChunkInv => ChunksFitTarget
  <2> SUFFICES ASSUME ChunkInv, NEW i \in DOMAIN group.spans
               PROVE group.spans[i].hi - group.spans[i].lo <= Target
    BY DEF ChunksFitTarget
  <2>1. group.spans \in Seq(Span(Target))
    BY DEF ChunkInv, FitInv, GroupType
  <2>2. group.spans[i] \in Span(Target)
    BY <2>1
  <2> QED BY <2>2 DEF Span
<1> QED BY <1>1, ChunkInvariant, PTL

\* The chunks cover the speech, once all of it is grouped.
LEMMA CoversSpeech ==
  ASSUME ChunkInv
  PROVE  SpeechIsCovered
<1> SUFFICES ASSUME Chunked, NEW p \in SpeechFrames
             PROVE \E i \in DOMAIN group.spans : Inside(p, group.spans[i])
  BY DEF SpeechIsCovered, Chunked
<1>1. PICK a \in Regions(kept) : p \in Speech(a)
  BY DEF SpeechFrames
<1>2. Len(kept) \in Nat
  BY DEF ChunkInv, FitInv
<1>3. PICK q \in PaddedRegion : Speech(a) \subseteq Speech(q)
  BY <1>2, PaddedInOrder DEF PaddedRegion, Region
<1>4. HeldBy(group.spans, p)
  BY <1>1, <1>3 DEF ChunkInv, CoverInv
<1> QED BY <1>4 DEF HeldBy

\* Every frame of every region the detector found is in a chunk that is handed
\* to the decoder: grouping, pads and hard splits leave no speech out.
THEOREM SpeechIsAlwaysCovered == Spec => []SpeechIsCovered
<1>1. ChunkInv => SpeechIsCovered
  BY CoversSpeech
<1> QED BY <1>1, ChunkInvariant, PTL

-----------------------------------------------------------------------------
(* Where a text was said                                                   *)

\* The units a stretch of the signal holds, words said in them, and texts.
Units(ks, c) == {ks[p + 1] : p \in c.lo .. (c.hi - 1)}

WordsOf(ks, au, c) == [at : Units(ks, c), word : {au[u] : u \in Units(ks, c)}, ko : BOOLEAN]

TextsOf(ks, au, c) == Seq(WordsOf(ks, au, c))

\* What preprocess leaves.
KeptInOrder ==
  /\ kept \in Seq(1..Length)
  /\ \A i, j \in DOMAIN kept : i < j => kept[i] < kept[j]

Bounded(c) == c.lo \in Nat /\ c.hi \in Int /\ c.hi <= Len(kept)

\* They are units of the recording.
LEMMA UnitsAreUnits ==
  ASSUME KeptInOrder, NEW c, Bounded(c)
  PROVE  Units(kept, c) \subseteq 1..Length
<1>1. \A p \in c.lo .. (c.hi - 1) : p + 1 \in DOMAIN kept
  BY DEF Bounded, KeptInOrder
<1>2. \A p \in c.lo .. (c.hi - 1) : kept[p + 1] \in 1..Length
  <2>1. \A i \in DOMAIN kept : kept[i] \in 1..Length
    <3>1. kept \in Seq(1..Length)
      BY DEF KeptInOrder
    <3> QED BY ONLY <3>1, SeqGrows
  <2> QED BY <1>1, <2>1
<1> QED BY <1>2 DEF Units

\* What is heard of a stretch was said in it.
LEMMA HeardThere ==
  ASSUME KeptInOrder, NEW c, Bounded(c), NEW korean \in BOOLEAN
  PROVE  Heard(c, korean) \in TextsOf(kept, audio, c)
<1> DEFINE said == {u \in Units(kept, c) : audio[u] # Silence}
           units == InOrder(said)
<1>1. Heard(c, korean) =
        [i \in 1..Len(units) |-> [at |-> units[i], word |-> audio[units[i]], ko |-> korean]]
  BY DEF Heard, Units
<1>2. Units(kept, c) \subseteq 1..Length
  BY UnitsAreUnits
<1>3. said \in SUBSET Nat /\ IsFiniteSet(said) /\ said \subseteq Units(kept, c)
  <2>1. Length \in Int /\ 1 \in Int
    BY BoundsAreNumbers
  <2>2. IsFiniteSet(1..Length)
    BY <2>1, FS_Interval
  <2>3. said \subseteq 1..Length
    BY <1>2
  <2> QED BY <2>1, <2>2, <2>3, FS_Subset
<1> HIDE DEF said
<1>4. units \in Seq(said)
  BY <1>3, InOrderIs
<1> HIDE DEF units
<1>5. Len(units) \in Nat /\ \A i \in 1..Len(units) : units[i] \in Units(kept, c)
  BY <1>3, <1>4, SeqGrows
<1>6. \A i \in 1..Len(units) :
        [at |-> units[i], word |-> audio[units[i]], ko |-> korean] \in WordsOf(kept, audio, c)
  BY <1>5 DEF WordsOf
<1> HIDE DEF WordsOf
<1>7. [i \in 1..Len(units) |-> [at |-> units[i], word |-> audio[units[i]], ko |-> korean]]
        \in Seq(WordsOf(kept, audio, c))
  BY <1>5, <1>6
<1> QED BY <1>1, <1>7 DEF TextsOf

\* A text has the word.
Holds(t, w) == \E k \in DOMAIN t : t[k].word = w

\* The first n texts have the words that are said in these frames of their places.
Told(frames, ks, au, places, ts, n) ==
  \A k \in 1..n : \A p \in frames :
    Inside(p, places[k]) /\ au[ks[p + 1]] # Silence => Holds(ts[k], au[ks[p + 1]])

\* What is said in a stretch is heard of it.
LEMMA HeardAll ==
  ASSUME KeptInOrder, NEW c, Bounded(c), NEW korean, NEW p, Inside(p, c), p \in Int,
         audio[kept[p + 1]] # Silence
  PROVE  Holds(Heard(c, korean), audio[kept[p + 1]])
<1> DEFINE said == {u \in Units(kept, c) : audio[u] # Silence}
           units == InOrder(said)
           text == [i \in 1..Len(units) |-> [at |-> units[i], word |-> audio[units[i]], ko |-> korean]]
<1>1. Heard(c, korean) = text
  BY DEF Heard, Units
<1>2. said \in SUBSET Nat /\ IsFiniteSet(said)
  <2>1. Units(kept, c) \subseteq 1..Length
    BY UnitsAreUnits
  <2>2. Length \in Int /\ 1 \in Int
    BY BoundsAreNumbers
  <2>3. IsFiniteSet(1..Length)
    BY <2>2, FS_Interval
  <2>4. said \subseteq 1..Length
    BY <2>1
  <2> QED BY <2>2, <2>3, <2>4, FS_Subset
<1>3. kept[p + 1] \in said
  <2>1. c.lo \in Int /\ c.hi \in Int /\ c.lo <= p /\ p < c.hi
    BY DEF Inside, Bounded
  <2>2. p \in c.lo .. (c.hi - 1)
    BY ONLY <2>1, p \in Int
  <2> QED BY <2>2 DEF Units
<1> DEFINE w == kept[p + 1]
<1> HIDE DEF said, w
<1>4. PICK i \in 1..Cardinality(said) : InOrder(said)[i] = w
  BY <1>2, <1>3, InOrderIs DEF w
<1>5. Len(units) = Cardinality(said)
  BY <1>2, InOrderIs
<1> HIDE DEF units
<1>6. i \in DOMAIN text /\ text[i].word = audio[w]
  BY <1>4, <1>5 DEF units
<1> QED BY <1>1, <1>6 DEF Holds, w

\* What is said in a part of a stretch is said in it.
LEMMA TextsOfPart ==
  ASSUME NEW c, NEW d, d.lo \in Int, d.hi \in Int, c.lo \in Int, c.hi \in Int,
         c.lo <= d.lo, d.hi <= c.hi
  PROVE  TextsOf(kept, audio, d) \subseteq TextsOf(kept, audio, c)
<1>1. Units(kept, d) \subseteq Units(kept, c)
  <2>1. d.lo .. (d.hi - 1) \subseteq c.lo .. (c.hi - 1)
    OBVIOUS
  <2> QED BY <2>1 DEF Units
<1>2. WordsOf(kept, audio, d) \subseteq WordsOf(kept, audio, c)
  BY <1>1 DEF WordsOf
<1> QED BY <1>2 DEF TextsOf

-----------------------------------------------------------------------------
(* Pieces of a chunk                                                       *)

\* The stretches that lie in a chunk.
Within(c) ==
  {d \in [lo : Nat, hi : Int, seam : BOOLEAN] : c.lo <= d.lo /\ d.hi <= c.hi}

\* The regions, clipped to the chunk.
Inner(c) == {r \in Stretch : c.lo <= r.s /\ r.e <= c.hi}

LEMMA EqualPartsWithin ==
  ASSUME NEW c, c.lo \in Nat, c.hi \in Int, c.lo < c.hi, NEW n \in Nat \ {0}
  PROVE  EqualParts(c, n) \in Seq(Within(c))
<1> DEFINE size == c.hi - c.lo
           step == CeilDiv(size, n)
           parts == CeilDiv(size, step)
           part(k) == [lo |-> c.lo + (k - 1) * step, hi |-> MinOf(c.lo + k * step, c.hi), seam |-> FALSE]
<1>1. EqualParts(c, n) = [k \in 1..parts |-> part(k)]
  BY DEF EqualParts
<1>2. size \in Nat \ {0}
  OBVIOUS
<1>3. step \in Nat \ {0}
  BY <1>2, CeilPositive
<1>5. parts \in Nat
  <2> HIDE DEF step, size
  <2> QED BY <1>2, <1>3, RoundedUp
<1>6. ASSUME NEW k \in 1..parts
      PROVE  part(k) \in Within(c)
  <2>1. step \in Nat /\ k - 1 \in Nat /\ k \in Nat
    BY <1>3, <1>5
  <2> HIDE DEF step, parts
  <2>2. (k - 1) * step \in Nat /\ k * step \in Nat
    BY <2>1
  <2>3. /\ c.lo + (k - 1) * step \in Nat /\ c.lo <= c.lo + (k - 1) * step
        /\ MinOf(c.lo + k * step, c.hi) \in Int /\ MinOf(c.lo + k * step, c.hi) <= c.hi
    BY <2>2 DEF MinOf
  <2> QED BY <2>3 DEF Within
<1> HIDE DEF parts, part
<1>7. [k \in 1..parts |-> part(k)] \in Seq(Within(c))
  BY <1>5, <1>6
<1> QED BY <1>1, <1>7

LEMMA PiecesWithin ==
  ASSUME NEW c, c.lo \in Nat, c.hi \in Int, NEW r \in Inner(c),
         NEW t \in Nat \ {0}, NEW overlap \in Nat, overlap < t, r.e - r.s > t
  PROVE  Pieces(r, t, overlap) \in Seq(Within(c))
<1> DEFINE step == t - overlap
           n == CeilDiv(r.e - r.s - t, step)
           From(k) == r.s + (k - 1) * step
           piece(k) == [lo |-> From(k), hi |-> MinOf(From(k) + t, r.e), seam |-> k > 1]
<1>1. step \in Nat \ {0} /\ r.s \in Int /\ r.e \in Int /\ r.e - r.s - t \in Nat
      /\ c.lo <= r.s /\ r.e <= c.hi
  BY DEF Inner, Stretch
<1>2. n \in Nat
  BY <1>1, RoundedUp
<1>3. Pieces(r, t, overlap) = [k \in 1..(n + 1) |-> piece(k)]
  BY DEF Pieces
<1>4. ASSUME NEW k \in 1..(n + 1)
      PROVE  piece(k) \in Within(c)
  <2>1. k - 1 \in Nat
    BY <1>2
  <2> HIDE DEF step, n
  <2>2. (k - 1) * step \in Nat
    BY <1>1, <2>1
  <2>3. From(k) \in Nat /\ c.lo <= From(k)
    BY <1>1, <2>2
  <2>4. MinOf(From(k) + t, r.e) \in Int /\ MinOf(From(k) + t, r.e) <= c.hi
    BY <1>1, <2>3 DEF MinOf
  <2> HIDE DEF From
  <2> QED BY <2>3, <2>4 DEF Within
<1> HIDE DEF n, piece
<1>5. [k \in 1..(n + 1) |-> piece(k)] \in Seq(Within(c))
  BY <1>2, <1>4
<1> QED BY <1>3, <1>5

\* What the grouping has made lies in a chunk, when its regions do.
GroupWithin(g, c) == g = [spans |-> g.spans, cur |-> g.cur] /\ g.spans \in Seq(Within(c)) /\ g.cur \in Inner(c) \cup {NoSpan}

LEMMA FlushedWithin ==
  ASSUME NEW c, c.lo \in Nat, c.hi \in Int, NEW g, GroupWithin(g, c)
  PROVE  Flushed(g) \in Seq(Within(c))
<1>1. CASE g.cur = NoSpan
  BY <1>1 DEF Flushed, GroupWithin
<1>2. CASE g.cur # NoSpan
  <2> DEFINE d == [lo |-> g.cur.s, hi |-> g.cur.e, seam |-> FALSE]
  <2>1. d \in Within(c)
    BY <1>2 DEF GroupWithin, Inner, Within, Stretch
  <2>2. Flushed(g) = Append(g.spans, d)
    BY <1>2 DEF Flushed
  <2> HIDE DEF d
  <2> QED BY <2>1, <2>2 DEF GroupWithin
<1> QED BY <1>1, <1>2

LEMMA GroupedWithin ==
  ASSUME NEW c, c.lo \in Nat, c.hi \in Int, NEW g, GroupWithin(g, c), NEW r \in Inner(c),
         NEW t \in Nat \ {0}, NEW overlap \in Nat, overlap < t
  PROVE  GroupWithin(Grouped(g, r, t, overlap), c)
<1> DEFINE h == Grouped(g, r, t, overlap)
<1>0. Flushed(g) \in Seq(Within(c))
  BY FlushedWithin
<1>1. CASE r.e - r.s > t
  <2>1. h = [spans |-> Flushed(g) \o Pieces(r, t, overlap), cur |-> NoSpan]
    BY <1>1 DEF Grouped
  <2>2. Pieces(r, t, overlap) \in Seq(Within(c))
    BY <1>1, PiecesWithin
  <2>3. Flushed(g) \o Pieces(r, t, overlap) \in Seq(Within(c))
    BY ONLY <1>0, <2>2
  <2> HIDE DEF h
  <2> QED BY <2>1, <2>3 DEF GroupWithin, h
<1>2. CASE ~(r.e - r.s > t) /\ g.cur # NoSpan /\ r.e - g.cur.s <= t
  <2>1. h = [g EXCEPT !.cur.e = r.e]
    BY <1>2 DEF Grouped
  <2>2. g.cur \in Inner(c) /\ r.e \in Int /\ r.e <= c.hi
    BY <1>2 DEF GroupWithin, Inner, Stretch
  <2>3. h = [spans |-> g.spans, cur |-> [g.cur EXCEPT !.e = r.e]]
    BY <2>1 DEF GroupWithin
  <2>4. [g.cur EXCEPT !.e = r.e] \in Inner(c)
    BY <2>2 DEF Inner, Stretch
  <2> HIDE DEF h
  <2> QED BY <2>3, <2>4 DEF GroupWithin, h
<1>3. CASE ~(r.e - r.s > t) /\ ~(g.cur # NoSpan /\ r.e - g.cur.s <= t)
  <2>1. h = [spans |-> Flushed(g), cur |-> r]
    BY <1>3 DEF Grouped
  <2> HIDE DEF h
  <2> QED BY <1>0, <2>1 DEF GroupWithin, h
<1> QED BY <1>1, <1>2, <1>3

\* The regions in a chunk, clipped to it, their starts in order, and the one
\* that the loop of subdivide_chunk reaches in its n-th turn.
Clipped(c) ==
  {q \in {[s |-> MaxOf(r.s, c.lo), e |-> MinOf(r.e, c.hi)] : r \in Regions(kept)} : q.s < q.e}
Starts(c) == InOrder({q.s : q \in Clipped(c)})
Turn(c, n) == CHOOSE q \in Clipped(c) : q.s = Starts(c)[n]

LEMMA ClippedApart ==
  ASSUME Len(kept) \in Nat, NEW c, c.lo \in Nat, c.hi \in Int
  PROVE  /\ \A q \in Clipped(c) : q \in Inner(c) /\ q.s \in c.lo .. c.hi /\ q.s < q.e
         /\ \A q, r \in Clipped(c) : q = r \/ q.e < r.s \/ r.e < q.s
<1> DEFINE clip(r) == [s |-> MaxOf(r.s, c.lo), e |-> MinOf(r.e, c.hi)]
<1>1. Clipped(c) = {q \in {clip(r) : r \in Regions(kept)} : q.s < q.e}
  BY DEF Clipped
<1>2. /\ \A r \in Regions(kept) : r.s \in Int /\ r.e \in Int
      /\ \A a, b \in Regions(kept) : a = b \/ a.e + MinSilence < b.s \/ b.e + MinSilence < a.s
  BY RegionsApart DEF Stretch
<1>3. \A r \in Regions(kept) :
        /\ clip(r).s \in Int /\ c.lo <= clip(r).s /\ r.s <= clip(r).s
        /\ clip(r).e \in Int /\ clip(r).e <= c.hi /\ clip(r).e <= r.e
        /\ clip(r) \in Stretch
  BY <1>2 DEF MaxOf, MinOf, Stretch
<1> HIDE DEF clip
<1>4. ASSUME NEW q \in Clipped(c)
      PROVE  q \in Inner(c) /\ q.s \in c.lo .. c.hi /\ q.s < q.e
  <2>1. PICK r \in Regions(kept) : q = clip(r)
    BY <1>1
  <2>2. q.s < q.e
    BY <1>1
  <2> QED BY <1>3, <2>1, <2>2 DEF Inner
<1>5. ASSUME NEW q \in Clipped(c), NEW r \in Clipped(c)
      PROVE  q = r \/ q.e < r.s \/ r.e < q.s
  <2>1. PICK a \in Regions(kept) : q = clip(a)
    BY <1>1
  <2>2. PICK b \in Regions(kept) : r = clip(b)
    BY <1>1
  <2>3. a = b \/ a.e + MinSilence < b.s \/ b.e + MinSilence < a.s
    BY <1>2
  <2>4. CASE a = b
    BY <2>1, <2>2, <2>4
  <2>5. CASE a.e + MinSilence < b.s
    BY <1>2, <1>3, <2>1, <2>2, <2>5, BoundsAreNumbers
  <2>6. CASE b.e + MinSilence < a.s
    BY <1>2, <1>3, <2>1, <2>2, <2>6, BoundsAreNumbers
  <2> QED BY <2>3, <2>4, <2>5, <2>6
<1> QED BY <1>4, <1>5

\* Each of them has one turn, in the order of their starts.
LEMMA ClippedInOrder ==
  ASSUME Len(kept) \in Nat, NEW c, c.lo \in Nat, c.hi \in Int
  PROVE  /\ Len(Starts(c)) \in Nat
         /\ \A n \in 1..Len(Starts(c)) : Turn(c, n) \in Clipped(c) /\ Turn(c, n).s = Starts(c)[n]
         /\ \A i, j \in 1..Len(Starts(c)) : i < j => Starts(c)[i] < Starts(c)[j]
         /\ \A q \in Clipped(c) : \E n \in 1..Len(Starts(c)) : Turn(c, n) = q
<1> DEFINE begins == {q.s : q \in Clipped(c)}
           starts == Starts(c)
           m == Len(starts)
<1>1. begins \in SUBSET Nat /\ IsFiniteSet(begins)
  <2>1. begins \in SUBSET (c.lo .. c.hi)
    BY ClippedApart
  <2>2. c.lo \in Int /\ c.hi \in Int /\ c.lo .. c.hi \subseteq Nat
    OBVIOUS
  <2> HIDE DEF begins
  <2> QED BY <2>1, <2>2, FS_Interval, FS_Subset
<1>2. starts = InOrder(begins)
  BY DEF Starts
<1> HIDE DEF begins, starts
<1>3. /\ starts \in Seq(begins) /\ m \in Nat /\ \A n \in 1..m : starts[n] \in begins
      /\ \A i, j \in 1..m : i < j => starts[i] < starts[j]
      /\ \A u \in begins : \E n \in 1..m : starts[n] = u
  <2>1. /\ Cardinality(begins) \in Nat /\ starts \in Seq(begins) /\ m = Cardinality(begins)
        /\ \A i, j \in 1..m : i < j => starts[i] < starts[j]
        /\ \A u \in begins : \E n \in 1..m : starts[n] = u
    BY <1>1, <1>2, InOrderIs
  <2>2. m \in Nat /\ \A n \in 1..m : starts[n] \in begins
    BY ONLY <2>1, SeqGrows
  <2> QED BY <2>1, <2>2
<1>4. \A n \in 1..m : Turn(c, n) \in Clipped(c) /\ Turn(c, n).s = starts[n]
  <2> TAKE n \in 1..m
  <2>1. \E q \in Clipped(c) : q.s = starts[n]
    BY <1>3 DEF begins
  <2> QED BY <2>1 DEF Turn, starts
<1>5. ASSUME NEW q \in Clipped(c)
      PROVE  \E n \in 1..m : Turn(c, n) = q
  <2>1. PICK n \in 1..m : starts[n] = q.s
    BY <1>3 DEF begins
  <2> DEFINE r == Turn(c, n)
  <2>2. r \in Clipped(c) /\ r.s = q.s
    BY <1>4, <2>1
  <2> HIDE DEF r
  <2>3. r = q \/ r.e < q.s \/ q.e < r.s
    BY <2>2, ClippedApart
  <2>4. r \in Inner(c) /\ q \in Inner(c) /\ r.s < r.e /\ q.s < q.e
    BY <2>2, ClippedApart
  <2>5. r.s \in Int /\ r.e \in Int /\ q.s \in Int /\ q.e \in Int
    BY <2>4 DEF Inner, Stretch
  <2>6. r = q
    BY <2>2, <2>3, <2>4, <2>5
  <2> QED BY <2>1, <2>6 DEF r
<1> QED BY <1>3, <1>4, <1>5 DEF starts

\* The pieces, from what the loop has made of the regions.
SubdividedFrom(c, f) ==
  LET sub == Flushed(f[Len(Starts(c))])
  IN Subdivided(c, Regions(kept)) =
       IF c.hi - c.lo <= PieceTarget THEN <<c>>
       ELSE IF Len(sub) > 1 THEN sub
       ELSE EqualParts(c, MaxOf(2, CeilDiv(c.hi - c.lo, PieceTarget)))

Turned(c, f) ==
  \A n \in 0..Len(Starts(c)) :
    f[n] = IF n = 0 THEN Ungrouped ELSE Grouped(f[n - 1], Turn(c, n), PieceTarget, 0)

LEMMA SubdividedUnfolds ==
  ASSUME Len(kept) \in Nat, NEW c, c.lo \in Nat, c.hi \in Int
  PROVE  \E f : Turned(c, f) /\ SubdividedFrom(c, f)
<1> DEFINE m == Len(Starts(c))
           f == CHOOSE g : g = [n \in 0..m |-> IF n = 0 THEN Ungrouped ELSE Grouped(g[n - 1], Turn(c, n), PieceTarget, 0)]
<1>1. SubdividedFrom(c, f)
  BY DEF SubdividedFrom, Subdivided, Starts, Clipped, Turn
<1>7. m \in Nat
  BY ClippedInOrder
<1> HIDE DEF m
<1> DEFINE Step(g, n) == Grouped(g, Turn(c, n), PieceTarget, 0)
           Unfolds(g, k) == g = [n \in 0..k |-> IF n = 0 THEN Ungrouped ELSE Step(g[n - 1], n)]
           T == {k \in Nat : ~\E g : Unfolds(g, k)}
<1> HIDE DEF Step
<1>9. T = {}
  <2> SUFFICES ASSUME T # {}
               PROVE  FALSE
    OBVIOUS
  <2>1. PICK k \in T : \A j \in T : k <= j
    <3>1. T \in SUBSET Nat
      OBVIOUS
    <3> HIDE DEF T
    <3> QED BY <3>1, LeastOf
  <2>2. k # 0
    <3>1. Unfolds([n \in 0..0 |-> Ungrouped], 0)
      OBVIOUS
    <3> QED BY <3>1
  <2>3. k - 1 \in Nat /\ k - 1 \notin T
    <3>1. k \in Nat
      OBVIOUS
    <3> HIDE DEF T
    <3> QED BY <2>1, <2>2, <3>1
  <2>4. PICK g : Unfolds(g, k - 1)
    BY <2>3
  <2> DEFINE h == [n \in 0..k |-> IF n = 0 THEN Ungrouped ELSE Step(g[n - 1], n)]
  <2>5. \A n \in 0..(k - 1) : h[n] = g[n]
    <3>1. \A n \in 0..(k - 1) : g[n] = IF n = 0 THEN Ungrouped ELSE Step(g[n - 1], n)
      BY <2>4, Zenon
    <3>2. \A n \in 0..(k - 1) : n \in 0..k
      BY <2>2
    <3> QED BY <3>1, <3>2
  <2>6. \A n \in 0..k : n # 0 => n - 1 \in 0..(k - 1)
    BY <2>2
  <2>7. h = [n \in 0..k |-> IF n = 0 THEN Ungrouped ELSE Step(h[n - 1], n)]
    BY <2>5, <2>6
  <2> HIDE DEF h
  <2>8. Unfolds(h, k)
    BY <2>7
  <2> QED BY <2>1, <2>8
<1>10. f = [n \in 0..m |-> IF n = 0 THEN Ungrouped ELSE Step(f[n - 1], n)]
  <2>1. PICK g : Unfolds(g, m)
    BY <1>7, <1>9
  <2> QED BY <2>1 DEF Step
<1> HIDE DEF f
<1>11. \A n \in 0..m : f[n] = IF n = 0 THEN Ungrouped ELSE Step(f[n - 1], n)
  BY <1>10, Zenon
<1>12. Turned(c, f)
  BY <1>11 DEF Turned, Step, m
<1> QED BY <1>1, <1>12

\* A chunk that is longer than a piece is cut in two parts or more.
LEMMA EqualCut ==
  ASSUME NEW c, c.lo \in Nat, c.hi \in Int, ~(c.hi - c.lo <= PieceTarget)
  PROVE  c.lo < c.hi /\ MaxOf(2, CeilDiv(c.hi - c.lo, PieceTarget)) \in Nat \ {0}
<1>1. PieceTarget \in Nat \ {0}
  BY CountAssumption
<1>2. c.hi - c.lo \in Nat /\ c.lo < c.hi
  BY <1>1
<1>3. CeilDiv(c.hi - c.lo, PieceTarget) \in Nat
  BY <1>1, <1>2, RoundedUp
<1>4. MaxOf(2, CeilDiv(c.hi - c.lo, PieceTarget)) \in Nat \ {0}
  BY <1>3 DEF MaxOf
<1> QED BY <1>2, <1>4

\* The pieces of a chunk lie in it (subdivide_chunk).
LEMMA SubdividedWithin ==
  ASSUME Len(kept) \in Nat, NEW c, c.lo \in Nat, c.hi \in Int, c \in Within(c)
  PROVE  Subdivided(c, Regions(kept)) \in Seq(Within(c))
<1>2. PieceTarget \in Nat \ {0}
  BY CountAssumption
<1>3. <<c>> \in Seq(Within(c))
  OBVIOUS
<1>4. ASSUME ~(c.hi - c.lo <= PieceTarget)
      PROVE  EqualParts(c, MaxOf(2, CeilDiv(c.hi - c.lo, PieceTarget))) \in Seq(Within(c))
  BY <1>4, EqualCut, EqualPartsWithin
<1>5. PICK f : Turned(c, f) /\ SubdividedFrom(c, f)
  BY SubdividedUnfolds
<1> DEFINE m == Len(Starts(c))
           sub == Flushed(f[m])
<1>7. m \in Nat
  BY ClippedInOrder
<1>8. \A n \in 1..m : Turn(c, n) \in Inner(c)
  BY ClippedApart, ClippedInOrder
<1>11. \A n \in 0..m : f[n] = IF n = 0 THEN Ungrouped ELSE Grouped(f[n - 1], Turn(c, n), PieceTarget, 0)
  BY <1>5 DEF Turned
<1> HIDE DEF m
<1> DEFINE W == {n \in 0..m : ~GroupWithin(f[n], c)}
<1>12. W = {}
  <2> SUFFICES ASSUME W # {}
               PROVE  FALSE
    OBVIOUS
  <2>1. PICK n \in W : \A j \in W : n <= j
    <3>1. W \in SUBSET Nat
      BY <1>7
    <3> HIDE DEF W
    <3> QED BY <3>1, LeastOf
  <2>2. n \in 0..m /\ ~GroupWithin(f[n], c)
    OBVIOUS
  <2>3. CASE n = 0
    <3>1. f[n] = [spans |-> <<>>, cur |-> NoSpan]
      BY <1>11, <2>2, <2>3 DEF Ungrouped
    <3>2. GroupWithin(f[n], c)
      BY <3>1 DEF GroupWithin
    <3> QED BY <2>2, <3>2
  <2>4. CASE n # 0
    <3>1. n - 1 \in 0..m /\ n \in 1..m
      BY <1>7, <2>2, <2>4
    <3>2. n - 1 \notin W
      <4>1. n \in Nat
        BY <1>7, <2>2
      <4> HIDE DEF W
      <4> QED BY <2>1, <4>1
    <3>3. GroupWithin(f[n - 1], c)
      BY <3>1, <3>2
    <3> HIDE DEF W
    <3>4. f[n] = Grouped(f[n - 1], Turn(c, n), PieceTarget, 0)
      BY <1>11, <2>2, <2>4
    <3>5. Turn(c, n) \in Inner(c)
      BY <1>8, <3>1
    <3> DEFINE g == f[n - 1]
               r == Turn(c, n)
    <3>6. GroupWithin(g, c) /\ r \in Inner(c) /\ f[n] = Grouped(g, r, PieceTarget, 0)
      BY <3>3, <3>4, <3>5
    <3> HIDE DEF g, r
    <3>7. 0 \in Nat /\ 0 < PieceTarget
      BY <1>2
    <3>8. GroupWithin(f[n], c)
      BY <1>2, <3>6, <3>7, GroupedWithin
    <3> QED BY <2>2, <3>8
  <2> QED BY <2>3, <2>4
<1>13. GroupWithin(f[m], c)
  <2>1. m \in 0..m
    BY <1>7
  <2> QED BY <1>12, <2>1
<1>14. sub \in Seq(Within(c))
  <2> DEFINE g == f[m]
  <2>1. GroupWithin(g, c)
    BY <1>13
  <2> HIDE DEF g
  <2>2. Flushed(g) \in Seq(Within(c))
    BY <2>1, FlushedWithin
  <2> QED BY <2>2 DEF g
<1>15. Subdivided(c, Regions(kept)) =
        IF c.hi - c.lo <= PieceTarget THEN <<c>>
        ELSE IF Len(sub) > 1 THEN sub
        ELSE EqualParts(c, MaxOf(2, CeilDiv(c.hi - c.lo, PieceTarget)))
  BY <1>5 DEF SubdividedFrom, m
<1> HIDE DEF sub
<1> QED BY <1>3, <1>4, <1>14, <1>15

\* Equal parts leave no frame out.
LEMMA EqualPartsCover ==
  ASSUME NEW c, c.lo \in Nat, c.hi \in Int, c.lo < c.hi, NEW n \in Nat \ {0}, NEW p \in Int, Inside(p, c)
  PROVE  \E k \in DOMAIN EqualParts(c, n) : Inside(p, EqualParts(c, n)[k])
<1> DEFINE size == c.hi - c.lo
           step == CeilDiv(size, n)
           parts == CeilDiv(size, step)
           part(k) == [lo |-> c.lo + (k - 1) * step, hi |-> MinOf(c.lo + k * step, c.hi), seam |-> FALSE]
           q == (p - c.lo) \div step
<1>1. EqualParts(c, n) = [k \in 1..parts |-> part(k)]
  BY DEF EqualParts
<1>2. size \in Nat \ {0}
  OBVIOUS
<1>3. step \in Nat \ {0}
  BY <1>2, CeilPositive
<1>4. p - c.lo \in Nat /\ p - c.lo < size
  BY DEF Inside
<1> HIDE DEF step
<1>5. parts \in Nat /\ size <= parts * step
  BY <1>2, <1>3, RoundedUp
<1>6. q \in Nat /\ q * step <= p - c.lo /\ p - c.lo < q * step + step
  BY <1>3, <1>4, Quotient
<1> HIDE DEF parts, q, size
<1>7. q * step \in Nat /\ parts * step \in Nat
  BY <1>3, <1>5, <1>6
<1>8. q * step < parts * step
  <2> DEFINE x == q * step
             y == parts * step
  <2>1. x \in Nat /\ y \in Nat /\ x <= p - c.lo /\ p - c.lo < size /\ size <= y /\ p - c.lo \in Int /\ size \in Int
    BY <1>2, <1>4, <1>5, <1>6, <1>7
  <2> HIDE DEF x, y
  <2>2. x < y
    BY ONLY <2>1
  <2> QED BY <2>2 DEF x, y
<1>9. q < parts
  BY <1>3, <1>5, <1>6, <1>8, SmallerFactor
<1>10. q + 1 \in 1..parts
  BY <1>5, <1>6, <1>9
<1>11. Inside(p, part(q + 1))
  <2> DEFINE x == q * step
             d == part(q + 1)
  <2>1. (q + 1) - 1 = q /\ (q + 1) * step = x + step
    BY <1>3, <1>6
  <2>2. d.lo = c.lo + x /\ d.hi = MinOf(c.lo + (x + step), c.hi)
    BY <2>1
  <2>3. x \in Nat /\ x <= p - c.lo /\ p - c.lo < x + step
    BY <1>6, <1>7
  <2>4. p < c.hi
    BY DEF Inside
  <2> HIDE DEF x, d
  <2>5. d.lo <= p /\ p < d.hi
    BY ONLY <1>3, <2>2, <2>3, <2>4, p \in Int, c.lo \in Nat, c.hi \in Int DEF MinOf
  <2> QED BY <2>5 DEF Inside, d
<1> HIDE DEF part
<1>12. q + 1 \in DOMAIN EqualParts(c, n) /\ EqualParts(c, n)[q + 1] = part(q + 1)
  BY <1>1, <1>10
<1> QED BY <1>11, <1>12

\* Until the n-th turn the grouping holds all it has reached.
HeldSoFar(c, f, n) ==
  /\ f[n] \in GroupType(PieceTarget)
  /\ \A k \in 1..n : \A p \in Speech(Turn(c, k)) : Held(f[n], p)
  /\ f[n].cur # NoSpan => n # 0 /\ f[n].cur.s <= Turn(c, n).s /\ f[n].cur.e = Turn(c, n).e

LEMMA TurnsHold ==
  ASSUME Len(kept) \in Nat, NEW c, c.lo \in Nat, c.hi \in Int, NEW f, Turned(c, f)
  PROVE  HeldSoFar(c, f, Len(Starts(c)))
<1> DEFINE m == Len(Starts(c))
<1>1. m \in Nat
  BY ClippedInOrder
<1>2. PieceTarget \in Nat \ {0} /\ 0 \in Nat /\ 0 < PieceTarget
  BY CountAssumption
<1>3. \A n \in 0..m : f[n] = IF n = 0 THEN Ungrouped ELSE Grouped(f[n - 1], Turn(c, n), PieceTarget, 0)
  BY DEF Turned
<1>4. \A n \in 1..m : /\ Turn(c, n) \in Stretch /\ Turn(c, n).s \in Int /\ Turn(c, n).e \in Int
                      /\ Turn(c, n).s < Turn(c, n).e
  BY ClippedApart, ClippedInOrder DEF Inner, Stretch
<1>5. \A i, j \in 1..m : i < j => Turn(c, i).s < Turn(c, j).s /\ Turn(c, i).e < Turn(c, j).s
  <2> TAKE i \in 1..m, j \in 1..m
  <2> HAVE i < j
  <2> DEFINE q == Turn(c, i)
             r == Turn(c, j)
  <2>1. q \in Clipped(c) /\ r \in Clipped(c) /\ q.s < r.s
    BY ClippedInOrder
  <2>2. q.s \in Int /\ q.e \in Int /\ r.s \in Int /\ r.e \in Int /\ r.s < r.e
    BY <1>4
  <2> HIDE DEF q, r
  <2>3. q = r \/ q.e < r.s \/ r.e < q.s
    BY <2>1, ClippedApart
  <2>4. q.e < r.s
    BY <2>1, <2>2, <2>3
  <2> QED BY <2>1, <2>4 DEF q, r
<1> HIDE DEF m
<1> DEFINE T == {n \in 0..m : ~HeldSoFar(c, f, n)}
<1>6. T = {}
  <2> SUFFICES ASSUME T # {}
               PROVE  FALSE
    OBVIOUS
  <2>1. PICK n \in T : \A j \in T : n <= j
    <3>1. T \in SUBSET Nat
      BY <1>1
    <3> HIDE DEF T
    <3> QED BY <3>1, LeastOf
  <2>2. n \in 0..m /\ ~HeldSoFar(c, f, n) /\ n \in Nat
    BY <1>1
  <2>3. CASE n = 0
    <3>1. f[n] = Ungrouped
      BY <1>3, <2>2, <2>3
    <3>2. Ungrouped \in GroupType(PieceTarget) /\ Ungrouped.cur = NoSpan
      BY <1>2 DEF Ungrouped, GroupType, NoSpan, Stretch
    <3> QED BY <2>2, <2>3, <3>1, <3>2 DEF HeldSoFar
  <2>4. CASE n # 0
    <3>1. n - 1 \in 0..m /\ n \in 1..m
      BY <1>1, <2>2, <2>4
    <3>2. HeldSoFar(c, f, n - 1)
      <4>1. n - 1 \notin T
        <5> HIDE DEF T
        <5> QED BY <2>1, <2>2
      <4> QED BY <3>1, <4>1
    <3> HIDE DEF T
    <3> DEFINE g == f[n - 1]
               h == f[n]
               r == Turn(c, n)
    <3>3. h = Grouped(g, r, PieceTarget, 0)
      BY <1>3, <2>2, <2>4
    <3>4. /\ g \in GroupType(PieceTarget)
          /\ \A k \in 1..(n - 1) : \A p \in Speech(Turn(c, k)) : Held(g, p)
          /\ g.cur # NoSpan => n - 1 # 0 /\ g.cur.s <= Turn(c, n - 1).s /\ g.cur.e = Turn(c, n - 1).e
      BY <3>2 DEF HeldSoFar
    <3>5. r \in Stretch /\ r.s \in Int /\ r.e \in Int /\ r.s < r.e
      BY <1>4, <3>1
    <3>6. g.cur # NoSpan => g.cur.s <= r.s /\ g.cur.e <= r.e
      <4> SUFFICES ASSUME g.cur # NoSpan
                   PROVE  g.cur.s <= r.s /\ g.cur.e <= r.e
        OBVIOUS
      <4> DEFINE q == Turn(c, n - 1)
      <4>1. n - 1 \in 1..m /\ n - 1 < n
        BY <2>2, <3>1, <3>4
      <4>2. q.s < r.s /\ q.e < r.s /\ q.s \in Int /\ q.e \in Int
        BY <1>4, <1>5, <3>1, <4>1
      <4>3. g.cur.s \in Int /\ g.cur.e \in Int /\ g.cur.s <= q.s /\ g.cur.e = q.e
        BY <3>4 DEF GroupType, Stretch
      <4> HIDE DEF g, r, q
      <4> QED BY <3>5, <4>2, <4>3
    <3> HIDE DEF g, h, r
    <3>7. LET x == Grouped(g, r, PieceTarget, 0)
          IN /\ x \in GroupType(PieceTarget)
             /\ \A p \in Int : Held(g, p) \/ p \in Speech(r) => Held(x, p)
             /\ x.cur # NoSpan => x.cur.s <= r.s /\ x.cur.e = r.e
      BY ONLY <1>2, <3>4, <3>5, <3>6, GroupedKeeps
    <3>8. ASSUME NEW k \in 1..n, NEW p \in Speech(Turn(c, k))
          PROVE  Held(h, p)
      <4>1. k \in 1..m
        BY <1>1, <3>1
      <4>2. p \in Int
        <5> DEFINE q == Turn(c, k)
        <5>1. q.s \in Int /\ q.e \in Int /\ p \in q.s .. (q.e - 1)
          BY <1>4, <4>1
        <5> HIDE DEF q
        <5> QED BY ONLY <5>1
      <4>3. k = n \/ k \in 1..(n - 1)
        BY <2>2
      <4> QED BY <3>3, <3>4, <3>7, <4>2, <4>3 DEF r
    <3>9. HeldSoFar(c, f, n)
      BY <2>4, <3>3, <3>7, <3>8 DEF HeldSoFar, h, r
    <3> QED BY <2>2, <3>9
  <2> QED BY <2>3, <2>4
<1>7. m \in 0..m
  BY <1>1
<1> QED BY <1>6, <1>7 DEF m

\* The pieces of a chunk leave none of its speech out.
LEMMA SubdividedCovers ==
  ASSUME Len(kept) \in Nat, NEW c, c.lo \in Nat, c.hi \in Int, NEW p \in SpeechFrames, Inside(p, c)
  PROVE  HeldBy(Subdivided(c, Regions(kept)), p)
<1>1. PICK r \in Regions(kept) : p \in Speech(r)
  BY DEF SpeechFrames
<1>2. p \in Int /\ r.s \in Int /\ r.e \in Int /\ r.s <= p /\ p < r.e
  <2>1. r \in Stretch
    BY RegionsApart
  <2>2. r.s \in Int /\ r.e \in Int
    BY <2>1 DEF Stretch
  <2> QED BY <1>1, <2>2
<1>3. PICK f : Turned(c, f) /\ SubdividedFrom(c, f)
  BY SubdividedUnfolds
<1> DEFINE m == Len(Starts(c))
           sub == Flushed(f[m])
<1>4. HeldBy(<<c>>, p)
  BY DEF HeldBy
<1>5. ASSUME ~(c.hi - c.lo <= PieceTarget)
      PROVE  HeldBy(EqualParts(c, MaxOf(2, CeilDiv(c.hi - c.lo, PieceTarget))), p)
  BY <1>2, <1>5, EqualCut, EqualPartsCover DEF HeldBy
<1>6. HeldBy(sub, p)
  <2> DEFINE q == [s |-> MaxOf(r.s, c.lo), e |-> MinOf(r.e, c.hi)]
  <2>1. q.s <= p /\ p < q.e /\ q.s \in Int /\ q.e \in Int
    BY <1>2 DEF MaxOf, MinOf, Inside
  <2>2. q.s < q.e
    BY <1>2, <2>1
  <2>3. q \in Clipped(c)
    BY <2>2 DEF Clipped
  <2> HIDE DEF q
  <2>4. PICK n \in 1..m : Turn(c, n) = q
    BY <2>3, ClippedInOrder
  <2>5. p \in Speech(Turn(c, n))
    <3>1. p \in q.s .. (q.e - 1)
      BY ONLY <1>2, <2>1
    <3> QED BY <2>4, <3>1
  <2>6. HeldSoFar(c, f, m)
    BY <1>3, TurnsHold
  <2> DEFINE g == f[m]
  <2>7. g \in GroupType(PieceTarget) /\ Held(g, p)
    BY <2>5, <2>6 DEF HeldSoFar
  <2>8. PieceTarget \in Nat
    BY CountAssumption
  <2> HIDE DEF g
  <2>9. HeldBy(Flushed(g), p)
    BY <1>2, <2>7, <2>8, FlushKeeps
  <2> QED BY <2>9 DEF g
<1>7. Subdivided(c, Regions(kept)) =
        IF c.hi - c.lo <= PieceTarget THEN <<c>>
        ELSE IF Len(sub) > 1 THEN sub
        ELSE EqualParts(c, MaxOf(2, CeilDiv(c.hi - c.lo, PieceTarget)))
  BY <1>3 DEF SubdividedFrom
<1> HIDE DEF sub
<1> QED BY <1>4, <1>5, <1>6, <1>7

-----------------------------------------------------------------------------
(* The merge                                                               *)

\* The numbers of words at the start of b that repeat the end of a.
SeamFits(a, b) ==
  {k \in 1..MinOf(DedupMax, MinOf(Len(a), Len(b))) :
     Tokens(SubSeq(a, Len(a) - k + 1, Len(a))) = Tokens(SubSeq(b, 1, k))}

\* The merge takes one of them, when there is one.
LEMMA SeamChosen ==
  ASSUME NEW A, NEW a \in Seq(A), NEW b \in Seq(A)
  PROVE  /\ SeamFits(a, b) = {} => SeamLength(a, b) = 0
         /\ SeamFits(a, b) # {} => SeamLength(a, b) \in SeamFits(a, b)
         /\ \A k \in SeamFits(a, b) : k <= SeamLength(a, b)
<1> DEFINE top == MinOf(DedupMax, MinOf(Len(a), Len(b)))
           fits == SeamFits(a, b)
<1>1. SeamLength(a, b) = IF fits = {} THEN 0 ELSE CHOOSE k \in fits : \A j \in fits : j <= k
  BY DEF SeamLength, SeamFits
<1>2. Len(a) \in Nat /\ Len(b) \in Nat /\ DedupMax \in Nat
  BY CountAssumption
<1>3. top \in Nat
  BY <1>2 DEF MinOf
<1>4. fits \subseteq 1..top
  BY DEF SeamFits
<1> HIDE DEF fits, top
<1>5. CASE fits # {}
  <2> DEFINE T == {top - k : k \in fits}
  <2>1. T \in SUBSET Nat /\ T # {}
    <3>1. \A k \in fits : top - k \in Nat
      <4>1. \A k \in fits : k \in 1..top
        BY <1>4
      <4> QED BY ONLY <1>3, <4>1
    <3> QED BY <1>5, <3>1
  <2>2. PICK m \in T : \A j \in T : m <= j
    <3> HIDE DEF T
    <3> QED BY <2>1, LeastOf
  <2>3. PICK k \in fits : m = top - k
    OBVIOUS
  <2>4. \A j \in fits : j <= k
    <3> TAKE j \in fits
    <3>1. top - j \in T
      OBVIOUS
    <3>2. top - k <= top - j
      BY <2>2, <2>3, <3>1
    <3>3. j \in Int /\ k \in Int /\ top \in Int
      <4>1. j \in 1..top /\ k \in 1..top
        BY <1>4
      <4> QED BY <1>3, <4>1
    <3> HIDE DEF T
    <3> QED BY ONLY <3>2, <3>3
  <2> HIDE DEF T
  <2>5. SeamLength(a, b) \in fits /\ \A j \in fits : j <= SeamLength(a, b)
    BY <1>1, <1>5, <2>4
  <2> QED BY <1>5, <2>5 DEF fits
<1> QED BY <1>1, <1>5 DEF fits

\* The repeated words are some of the later text.
LEMMA SeamWithin ==
  ASSUME NEW A, NEW a \in Seq(A), NEW b \in Seq(A)
  PROVE  SeamLength(a, b) \in 0..Len(b)
<1> DEFINE x == SeamLength(a, b)
<1>1. x = 0 \/ x \in SeamFits(a, b)
  BY SeamChosen
<1>2. Len(a) \in Nat /\ Len(b) \in Nat /\ DedupMax \in Nat
  BY CountAssumption
<1> HIDE DEF x
<1>3. x \in 0..Len(b)
  BY <1>1, <1>2 DEF SeamFits, MinOf
<1> QED BY <1>3 DEF x

\* Words that a seam leaves out are at the end of the text before it.
LEMMA SeamRepeats ==
  ASSUME NEW A, NEW a \in Seq(A), NEW b \in Seq(A), NEW k \in 1..SeamLength(a, b)
  PROVE  Len(a) - SeamLength(a, b) + k \in DOMAIN a /\ Token(a[Len(a) - SeamLength(a, b) + k]) = Token(b[k])
<1> DEFINE x == SeamLength(a, b)
           s == SubSeq(a, Len(a) - x + 1, Len(a))
           t == SubSeq(b, 1, x)
<1>1. x \in SeamFits(a, b)
  <2>1. SeamFits(a, b) = {} => x = 0
    BY SeamChosen
  <2>2. x # 0
    OBVIOUS
  <2> HIDE DEF x
  <2> QED BY <2>1, <2>2, SeamChosen DEF x
<1>2. Len(a) \in Nat /\ Len(b) \in Nat /\ DedupMax \in Nat /\ k \in 1..x
  BY CountAssumption
<1> HIDE DEF x
<1>3. x \in Nat /\ x <= Len(a) /\ x <= Len(b) /\ Tokens(s) = Tokens(t)
  BY <1>1, <1>2 DEF SeamFits, MinOf
<1>4. Len(s) = x /\ s[k] = a[Len(a) - x + k] /\ k \in DOMAIN s
  BY <1>2, <1>3
<1>5. Len(t) = x /\ t[k] = b[k] /\ k \in DOMAIN t
  BY <1>2, <1>3
<1>6. Len(a) - x + k \in DOMAIN a
  BY <1>2, <1>3
<1> HIDE DEF s, t
<1>7. Token(s[k]) = Token(t[k])
  <2>1. Tokens(s)[k] = Token(s[k])
    BY <1>4, Zenon DEF Tokens
  <2>2. Tokens(t)[k] = Token(t[k])
    BY <1>5, Zenon DEF Tokens
  <2> QED BY <1>3, <2>1, <2>2
<1> QED BY <1>4, <1>5, <1>6, <1>7 DEF x

\* The words of a text that repeat the end of the merged text before it.
Repeated(chunks, ts, merged, i) ==
  IF i > 1 /\ chunks[i].seam THEN SeamLength(merged[i - 1], ts[i]) ELSE 0

\* The merged texts are what their recursion says.
LEMMA MergedUnfolds ==
  ASSUME NEW n \in Nat, NEW ts, DOMAIN ts = 1..n, NEW chunks
  PROVE  LET merged == Merged(chunks, ts)
         IN /\ DOMAIN merged = 1..n
            /\ \A i \in 1..n : merged[i] = SubSeq(ts[i], Repeated(chunks, ts, merged, i) + 1, Len(ts[i]))
<1> DEFINE Cut(x, i) == IF i > 1 /\ chunks[i].seam THEN SeamLength(x, ts[i]) ELSE 0
           Step(x, i) == SubSeq(ts[i], Cut(x, i) + 1, Len(ts[i]))
           Unfolds(g, k) == g = [i \in 1..k |-> Step(g[i - 1], i)]
           T == {k \in Nat : ~\E g : Unfolds(g, k)}
           text == CHOOSE g : g = [i \in DOMAIN ts |->
                     LET cut == IF i > 1 /\ chunks[i].seam THEN SeamLength(g[i - 1], ts[i]) ELSE 0
                     IN SubSeq(ts[i], cut + 1, Len(ts[i]))]
<1>0. Merged(chunks, ts) = text
  BY DEF Merged
<1>1. \A x, y : Step(x, 1) = Step(y, 1)
  OBVIOUS
<1>2. text = CHOOSE g : Unfolds(g, n)
  OBVIOUS
<1> HIDE DEF Step, text
<1>3. T = {}
  <2> SUFFICES ASSUME T # {}
               PROVE  FALSE
    OBVIOUS
  <2>1. PICK k \in T : \A j \in T : k <= j
    <3>1. T \in SUBSET Nat
      OBVIOUS
    <3> HIDE DEF T
    <3> QED BY <3>1, LeastOf
  <2>2. k # 0
    <3>1. Unfolds([i \in 1..0 |-> i], 0)
      OBVIOUS
    <3> QED BY <3>1
  <2>3. k - 1 \in Nat /\ k - 1 \notin T /\ k \in Nat
    <3>1. k \in Nat
      OBVIOUS
    <3> HIDE DEF T
    <3> QED BY <2>1, <2>2, <3>1
  <2>4. PICK g : Unfolds(g, k - 1)
    BY <2>3
  <2> DEFINE h == [i \in 1..k |-> Step(g[i - 1], i)]
  <2>5. \A i \in 1..(k - 1) : h[i] = g[i]
    <3>1. \A i \in 1..(k - 1) : g[i] = Step(g[i - 1], i)
      BY <2>4, Zenon
    <3>2. \A i \in 1..(k - 1) : i \in 1..k
      BY <2>3
    <3> QED BY <3>1, <3>2
  <2>6. \A i \in 1..k : i = 1 \/ i - 1 \in 1..(k - 1)
    BY <2>3
  <2>7. \A i \in 1..k : Step(h[i - 1], i) = Step(g[i - 1], i)
    <3> HIDE DEF h
    <3> TAKE i \in 1..k
    <3>1. CASE i = 1
      BY <1>1, <3>1, Zenon
    <3>2. CASE i - 1 \in 1..(k - 1)
      BY <2>5, <3>2
    <3> QED BY <2>6, <3>1, <3>2
  <2>8. h = [i \in 1..k |-> Step(h[i - 1], i)]
    BY <2>7
  <2> HIDE DEF h
  <2>9. Unfolds(h, k)
    BY <2>8
  <2> QED BY <2>1, <2>9
<1>4. Unfolds(text, n)
  <2>1. \E g : Unfolds(g, n)
    BY <1>3
  <2> HIDE DEF Unfolds
  <2> QED BY <1>2, <2>1
<1>5. DOMAIN text = 1..n /\ \A i \in 1..n : text[i] = Step(text[i - 1], i)
  BY <1>4, Zenon
<1> QED BY <1>0, <1>5 DEF Step, Repeated

\* Each merged text is the end of its own.
LEMMA MergedFits ==
  ASSUME NEW n \in Nat, NEW ts, DOMAIN ts = 1..n, NEW A, \A i \in 1..n : ts[i] \in Seq(A), NEW chunks
  PROVE  /\ DOMAIN Merged(chunks, ts) = 1..n
         /\ \A i \in 1..n : \A B : ts[i] \in Seq(B) => Merged(chunks, ts)[i] \in Seq(B)
         /\ \A i \in 1..n : Repeated(chunks, ts, Merged(chunks, ts), i) \in 0..Len(ts[i])
<1> DEFINE text == Merged(chunks, ts)
           Cut(i) == Repeated(chunks, ts, text, i)
<1>5. DOMAIN text = 1..n /\ \A i \in 1..n : text[i] = SubSeq(ts[i], Cut(i) + 1, Len(ts[i]))
  BY MergedUnfolds
<1> HIDE DEF text
<1> DEFINE W == {i \in 1..n : text[i] \notin Seq(A)}
<1>4. ASSUME NEW i \in 1..n, i > 1 => text[i - 1] \in Seq(A)
      PROVE  Cut(i) \in 0..Len(ts[i]) /\ Len(ts[i]) \in Nat
  <2>2. Repeated(chunks, ts, text, i) \in 0..Len(ts[i]) /\ Len(ts[i]) \in Nat
    <3>1. CASE i > 1 /\ chunks[i].seam
      <4>1. SeamLength(text[i - 1], ts[i]) \in 0..Len(ts[i])
        BY <1>4, <3>1, SeamWithin
      <4> QED BY <3>1, <4>1 DEF Repeated
    <3>2. CASE ~(i > 1 /\ chunks[i].seam)
      <4>1. Repeated(chunks, ts, text, i) = 0
        BY <3>2 DEF Repeated
      <4> QED BY <4>1
    <3> QED BY <3>1, <3>2
  <2> QED BY <2>2
<1>6. ASSUME NEW i \in 1..n, i > 1 => text[i - 1] \in Seq(A), NEW B, ts[i] \in Seq(B)
      PROVE  text[i] \in Seq(B)
  <2> DEFINE t == ts[i]
             c == Cut(i)
  <2>3. t \in Seq(B) /\ c \in 0..Len(t) /\ text[i] = SubSeq(t, c + 1, Len(t))
    BY <1>4, <1>5, <1>6
  <2> HIDE DEF t, c
  <2>4. SubSeq(t, c + 1, Len(t)) \in Seq(B)
    BY ONLY <2>3
  <2> QED BY <2>3, <2>4
<1>7. W = {}
  <2> SUFFICES ASSUME W # {}
               PROVE  FALSE
    OBVIOUS
  <2>1. PICK i \in W : \A j \in W : i <= j
    <3>1. W \in SUBSET Nat
      OBVIOUS
    <3> HIDE DEF W
    <3> QED BY <3>1, LeastOf
  <2>2. i \in 1..n /\ text[i] \notin Seq(A)
    OBVIOUS
  <2>3. i > 1 => text[i - 1] \in Seq(A)
    <3> SUFFICES ASSUME i > 1
                 PROVE  i - 1 \in 1..n /\ i - 1 \notin W
      OBVIOUS
    <3>1. i - 1 \in 1..n /\ i - 1 < i /\ i \in Int
      BY <2>2
    <3> HIDE DEF W
    <3>2. i - 1 \in W => i <= i - 1
      BY <2>1
    <3> QED BY <3>1, <3>2
  <2> QED BY <1>6, <2>2, <2>3
<1>8. \A i \in 1..n : \A B : ts[i] \in Seq(B) => text[i] \in Seq(B)
  <2> SUFFICES ASSUME NEW i \in 1..n, NEW B, ts[i] \in Seq(B)
               PROVE  text[i] \in Seq(B)
    OBVIOUS
  <2>1. i > 1 => text[i - 1] \in Seq(A)
    BY <1>7
  <2> QED BY <1>6, <2>1
<1>9. \A i \in 1..n : Repeated(chunks, ts, text, i) \in 0..Len(ts[i])
  <2> TAKE i \in 1..n
  <2>1. i > 1 => text[i - 1] \in Seq(A)
    BY <1>7
  <2> QED BY <1>4, <2>1
<1> QED BY <1>5, <1>8, <1>9 DEF text

\* What the merge takes from a text is at the end of the one before.
LEMMA MergedHolds ==
  ASSUME NEW n \in Nat, NEW ts, DOMAIN ts = 1..n, NEW A, \A i \in 1..n : ts[i] \in Seq(A),
         NEW chunks, NEW i \in 1..n, NEW w, Holds(ts[i], w)
  PROVE  \E j \in 1..n : j \in {i - 1, i} /\ Holds(Merged(chunks, ts)[j], w)
<1> DEFINE merged == Merged(chunks, ts)
           cut == Repeated(chunks, ts, merged, i)
           t == ts[i]
<1>1. /\ merged[i] = SubSeq(t, cut + 1, Len(t))
      /\ \A j \in 1..n : merged[j] \in Seq(A)
      /\ cut \in 0..Len(t)
  BY MergedUnfolds, MergedFits
<1>2. t \in Seq(A) /\ Len(t) \in Nat /\ DOMAIN t = 1..Len(t)
  BY SeqGrows
<1> HIDE DEF merged
<1>3. PICK k \in 1..Len(t) : t[k].word = w
  BY <1>2 DEF Holds
<1>4. CASE cut < k
  <2> DEFINE m == merged[i]
             c == cut
  <2>1. m = SubSeq(t, c + 1, Len(t)) /\ c \in 0..Len(t) /\ c < k
    BY <1>1, <1>4
  <2> HIDE DEF m, c, t
  <2>2. k - c \in DOMAIN m /\ m[k - c] = t[k]
    BY ONLY <1>2, <2>1, k \in 1..Len(t)
  <2>3. Holds(merged[i], w)
    <3>1. m[k - c].word = w
      BY <1>3, <2>2
    <3> DEFINE x == k - c
    <3>2. x \in DOMAIN m /\ m[x].word = w
      BY <2>2, <3>1
    <3> HIDE DEF x
    <3>3. Holds(m, w)
      BY ONLY <3>2 DEF Holds
    <3> QED BY <3>3 DEF m
  <2> QED BY <2>3 DEF merged
<1>5. CASE k <= cut
  <2> DEFINE a == merged[i - 1]
  <2>1. i > 1 /\ chunks[i].seam /\ cut = SeamLength(a, t)
    <3>1. cut # 0
      BY <1>1, <1>2, <1>5
    <3> QED BY <3>1 DEF Repeated
  <2>2. i - 1 \in 1..n /\ a \in Seq(A)
    BY <1>1, <2>1
  <2>3. k \in 1..SeamLength(a, t)
    <3> DEFINE c == cut
    <3>1. c \in 0..Len(t) /\ k <= c
      BY <1>1, <1>5
    <3> HIDE DEF c, t
    <3>2. k \in 1..c
      BY ONLY <1>2, <3>1, k \in 1..Len(t)
    <3> QED BY <2>1, <3>2 DEF c, t
  <2> HIDE DEF a, t
  <2>4. /\ Len(a) - SeamLength(a, t) + k \in DOMAIN a
        /\ Token(a[Len(a) - SeamLength(a, t) + k]) = Token(t[k])
    BY ONLY <1>2, <2>2, <2>3, SeamRepeats
  <2>5. a[Len(a) - SeamLength(a, t) + k].word = w
    BY <1>3, <2>4 DEF Token
  <2>6. Holds(merged[i - 1], w)
    <3> DEFINE x == Len(a) - SeamLength(a, t) + k
    <3>1. x \in DOMAIN a /\ a[x].word = w
      BY <2>4, <2>5
    <3> HIDE DEF x
    <3>2. Holds(a, w)
      BY ONLY <3>1 DEF Holds
    <3> QED BY <3>2 DEF a
  <2> QED BY <2>2, <2>6 DEF merged
<1>6. cut < k \/ k <= cut
  <2> DEFINE c == cut
  <2>1. c \in 0..Len(t) /\ Len(t) \in Nat
    BY <1>1, <1>2
  <2> HIDE DEF c, t
  <2>2. c < k \/ k <= c
    BY ONLY <2>1, k \in 1..Len(t)
  <2> QED BY <2>2 DEF c
<1> QED BY <1>4, <1>5, <1>6 DEF merged

-----------------------------------------------------------------------------
(* One run, from the cut of its silences to its segments                   *)

\* The signal from its first frame to its last.
Whole(ks) == [lo |-> 0, hi |-> Len(ks)]

\* What the decoder may be handed: a stretch of the chunk it belongs to.
Parts(spans) ==
  {x \in [lo : Nat, hi : Int, of : 1..Len(spans)] : spans[x.of].lo <= x.lo /\ x.hi <= spans[x.of].hi}

\* One text for each of the first n places, with words said there.
Said(ks, au, places, ts, n) ==
  /\ ts \in Seq(TextsOf(ks, au, Whole(ks))) /\ Len(ts) = n
  /\ \A k \in 1..n : ts[k] \in TextsOf(ks, au, places[k])

\* Regions and spans lie in the signal.
SpansInv ==
  /\ todo \subseteq Inner(Whole(kept)) /\ GroupWithin(group, Whole(kept))
  /\ stage \in {"prepare", "detect"} => todo = {} /\ group = Ungrouped

\* What is decoded lies in its chunk, and the first inputs are the chunks.
InputsInv ==
  /\ inputs \in Seq(Parts(group.spans))
  /\ stage \in {"prepare", "detect", "group"} => inputs = <<>> /\ taken = 0 /\ decoded = <<>>
  /\ stage = "decode" => Len(inputs) = Len(group.spans) /\ \A k \in 1..Len(inputs) : inputs[k].of = k

\* There is a text for every input that was taken, said in it, and, from when
\* the chunks are decoded until they are merged, for every chunk.
TextsInv ==
  /\ taken \in 0..Len(inputs) /\ Said(kept, audio, inputs, decoded, taken)
  /\ stage \in {"redecode", "merge"} => Said(kept, audio, group.spans, texts, Len(group.spans))

PlacedInv == KeptInOrder /\ SpansInv /\ InputsInv /\ TextsInv /\ TextWithinItsTimes

\* Texts of some places are texts of the signal.
LEMMA SaidSomewhere ==
  ASSUME KeptInOrder, NEW c, c.lo \in Nat, c.hi \in Int, c.hi <= Len(kept)
  PROVE  TextsOf(kept, audio, c) \subseteq TextsOf(kept, audio, Whole(kept))
<1> DEFINE w == Whole(kept)
<1>1. w.lo = 0 /\ w.hi = Len(kept) /\ Len(kept) \in Nat
  BY DEF Whole, KeptInOrder
<1> HIDE DEF w
<1>2. w.lo \in Int /\ w.hi \in Int /\ c.lo \in Int /\ w.lo <= c.lo /\ c.hi <= w.hi
  BY <1>1
<1>3. TextsOf(kept, audio, c) \subseteq TextsOf(kept, audio, w)
  BY <1>2, TextsOfPart
<1> QED BY <1>3 DEF w

\* A unit of a stretch lies in the times the stretch has in the recording.
LEMMA RemapAround ==
  ASSUME KeptInOrder, NEW c, c.lo \in Nat, c.hi \in Int, c.hi <= Len(kept),
         NEW u \in Units(kept, c)
  PROVE  Remap(c.lo) <= u /\ u < Remap(c.hi)
<1>1. PICK p \in c.lo .. (c.hi - 1) : u = kept[p + 1]
  BY DEF Units
<1>2. DOMAIN kept = 1..Len(kept) /\ Len(kept) \in Nat /\ \A i \in DOMAIN kept : kept[i] \in Nat
  <2>1. kept \in Seq(1..Length) /\ 1..Length \subseteq Nat
    BY BoundsAreNumbers DEF KeptInOrder
  <2> QED BY ONLY <2>1, SeqGrows
<1>3. \A i, j \in DOMAIN kept : i < j => kept[i] < kept[j]
  BY DEF KeptInOrder
<1>4. p + 1 \in DOMAIN kept /\ c.lo + 1 \in DOMAIN kept /\ c.lo < Len(kept) /\ p \in Nat /\ p < c.hi /\ c.lo <= p
  BY <1>2
<1>5. Remap(c.lo) <= u
  <2>1. Remap(c.lo) = kept[c.lo + 1]
    BY <1>4 DEF Remap
  <2>2. CASE c.lo = p
    BY <1>1, <1>2, <1>4, <2>1, <2>2
  <2>3. CASE c.lo # p
    <3>1. c.lo + 1 < p + 1
      BY <1>4, <2>3
    <3>2. kept[c.lo + 1] < kept[p + 1]
      BY <1>3, <1>4, <3>1
    <3> QED BY <1>1, <1>2, <1>4, <2>1, <3>2
  <2> QED BY <2>2, <2>3
<1>6. u < Remap(c.hi)
  <2>1. CASE c.hi < Len(kept)
    <3>1. Remap(c.hi) = kept[c.hi + 1]
      BY <2>1 DEF Remap
    <3>2. c.hi + 1 \in DOMAIN kept /\ p + 1 < c.hi + 1
      BY <1>2, <1>4, <2>1
    <3> QED BY <1>1, <1>3, <1>4, <3>1, <3>2
  <2>2. CASE ~(c.hi < Len(kept))
    <3>1. Remap(c.hi) = kept[Len(kept)] + 1
      BY <2>2 DEF Remap
    <3>2. Len(kept) \in DOMAIN kept
      BY <1>2, <1>4
    <3>3. p + 1 = Len(kept) \/ p + 1 < Len(kept)
      <4> DEFINE n == Len(kept)
      <4>1. n \in Nat /\ p \in Nat /\ c.hi \in Int /\ p < c.hi /\ c.hi <= n
        BY <1>2, <1>4
      <4> HIDE DEF n
      <4>2. p + 1 = n \/ p + 1 < n
        BY ONLY <4>1
      <4> QED BY <4>2 DEF n
    <3>4. kept[p + 1] = kept[Len(kept)] \/ kept[p + 1] < kept[Len(kept)]
      BY <1>3, <1>4, <3>2, <3>3
    <3>5. kept[p + 1] \in Nat /\ kept[Len(kept)] \in Nat
      BY <1>2, <1>4, <3>2
    <3> QED BY <1>1, <3>1, <3>4, <3>5
  <2> QED BY <2>1, <2>2
<1> QED BY <1>5, <1>6

LEMMA InitPlaced == Init => PlacedInv
<1> SUFFICES ASSUME Init
             PROVE  PlacedInv
  OBVIOUS
<1>1. KeptInOrder
  <2>1. kept = [u \in 1..Length |-> u] /\ Length \in Nat
    BY BoundsAreNumbers DEF Init
  <2> QED BY <2>1 DEF KeptInOrder
<1>2. /\ stage = "prepare" /\ todo = {} /\ group = Ungrouped
      /\ inputs = <<>> /\ taken = 0 /\ decoded = <<>> /\ out = <<>>
  BY DEF Init
<1>3. SpansInv
  BY <1>2 DEF SpansInv, GroupWithin, Ungrouped
<1>4. InputsInv
  BY <1>2 DEF InputsInv
<1>5. TextsInv
  BY <1>2 DEF TextsInv, Said
<1>6. TextWithinItsTimes
  BY <1>2 DEF TextWithinItsTimes
<1> QED BY <1>1, <1>3, <1>4, <1>5, <1>6 DEF PlacedInv

\* The grouping of the speech: its steps, and what they leave of the texts.
LEMMA GroupingPlaces ==
  ASSUME PlacedInv, Preprocess \/ Detect \/ GroupRegion \/ Chunk
  PROVE  PlacedInv'
<1> USE DEF PlacedInv
<1>0. Len(kept) \in Nat /\ Len(kept') \in Nat /\ KeptInOrder'
  <2>1. CASE Preprocess
    BY <2>1, CutInOrder DEF Preprocess, KeptInOrder
  <2>2. CASE kept' = kept
    BY <2>2 DEF KeptInOrder
  <2> QED BY <2>1, <2>2 DEF Detect, GroupRegion, Chunk
<1>1. out' = out /\ TextWithinItsTimes'
  BY DEF Preprocess, Detect, GroupRegion, Chunk, TextWithinItsTimes
<1>2. /\ inputs = <<>> /\ taken = 0 /\ decoded = <<>>
      /\ taken' = 0 /\ decoded' = <<>>
      /\ stage' \in {"detect", "group", "decode"}
  BY DEF Preprocess, Detect, GroupRegion, Chunk, InputsInv, decoding
<1>3. TextsInv'
  <2>1. Said(kept', audio', inputs', decoded', taken')
    BY <1>2 DEF Said
  <2>2. Len(inputs') \in Nat
    <3>1. CASE Chunk
      <4>1. Flushed(group) \in Seq(Within(Whole(kept)))
        BY <1>0, FlushedWithin DEF SpansInv, Whole
      <4> DEFINE a == Flushed(group)
      <4>2. DOMAIN a = 1..Len(a) /\ Len(a) \in Nat
        BY <4>1
      <4>3. inputs' = [i \in DOMAIN a |-> [lo |-> a[i].lo, hi |-> a[i].hi, of |-> i]]
        BY <3>1 DEF Chunk
      <4> HIDE DEF a
      <4> QED BY <4>2, <4>3
    <3>2. CASE inputs' = inputs
      BY <1>2, <3>2
    <3> QED BY <3>1, <3>2 DEF Preprocess, Detect, GroupRegion, decoding
  <2> QED BY <1>2, <2>1, <2>2 DEF TextsInv
<1>4. CASE Preprocess
  <2>1. /\ stage' = "detect" /\ stage = "prepare" /\ todo = {} /\ group = Ungrouped
        /\ todo' = todo /\ group' = group /\ inputs' = inputs
    BY <1>4 DEF Preprocess, SpansInv, decoding
  <2>2. SpansInv'
    BY <2>1 DEF SpansInv, GroupWithin, Ungrouped
  <2>3. InputsInv'
    BY <1>2, <2>1 DEF InputsInv
  <2> QED BY <1>0, <1>1, <1>3, <2>2, <2>3
<1>5. CASE Detect
  <2>1. /\ stage' = "group" /\ stage = "detect" /\ todo' = Padded(Regions(kept))
        /\ group' = group /\ inputs' = inputs /\ kept' = kept
    BY <1>5 DEF Detect, decoding
  <2>2. Padded(Regions(kept)) \subseteq Inner(Whole(kept))
    <3> SUFFICES ASSUME NEW q \in Padded(Regions(kept))
                 PROVE  q \in Inner(Whole(kept))
      OBVIOUS
    <3>1. PICK r \in Regions(kept) : q = [s |-> MaxOf(0, r.s - SegPad), e |-> MinOf(Len(kept), r.e + SegPad)]
      BY DEF Padded
    <3>2. r.s \in Int /\ r.e \in Int /\ SegPad \in Int
      BY <1>0, RegionsApart, PadAssumption DEF Stretch
    <3>3. /\ MaxOf(0, r.s - SegPad) \in Int /\ 0 <= MaxOf(0, r.s - SegPad)
          /\ MinOf(Len(kept), r.e + SegPad) \in Int /\ MinOf(Len(kept), r.e + SegPad) <= Len(kept)
      BY <1>0, <3>2 DEF MaxOf, MinOf
    <3> QED BY <3>1, <3>3 DEF Inner, Stretch, Whole
  <2>3. SpansInv'
    BY <2>1, <2>2 DEF SpansInv
  <2>4. InputsInv'
    BY <1>2, <2>1 DEF InputsInv
  <2> QED BY <1>0, <1>1, <1>3, <2>3, <2>4
<1>6. CASE GroupRegion
  <2>1. PICK r \in todo : todo' = todo \ {r} /\ group' = Grouped(group, r, Target, SegOverlap)
    BY <1>6 DEF GroupRegion
  <2>2. stage' = stage /\ stage = "group" /\ inputs' = inputs /\ kept' = kept
    BY <1>6 DEF GroupRegion, decoding
  <2>3. GroupWithin(Grouped(group, r, Target, SegOverlap), Whole(kept))
    <3> DEFINE w == Whole(kept)
    <3>1. w.lo \in Nat /\ w.hi \in Int /\ GroupWithin(group, w) /\ r \in Inner(w)
      BY <1>0, <2>1 DEF Whole, SpansInv
    <3>2. Target \in Nat \ {0} /\ SegOverlap \in Nat /\ SegOverlap < Target
      BY TargetAssumption
    <3> HIDE DEF w
    <3>3. GroupWithin(Grouped(group, r, Target, SegOverlap), w)
      BY <3>1, <3>2, GroupedWithin
    <3> QED BY <3>3 DEF w
  <2>4. SpansInv'
    BY <2>1, <2>2, <2>3 DEF SpansInv
  <2>5. InputsInv'
    BY <1>2, <2>2 DEF InputsInv
  <2> QED BY <1>0, <1>1, <1>3, <2>4, <2>5
<1>7. CASE Chunk
  <2> DEFINE a == Flushed(group)
  <2>1. a \in Seq(Within(Whole(kept)))
    BY <1>0, FlushedWithin DEF SpansInv, Whole
  <2>2. /\ stage' = "decode" /\ todo = {} /\ todo' = todo /\ kept' = kept
        /\ group' = [spans |-> a, cur |-> NoSpan]
        /\ inputs' = [i \in DOMAIN a |-> [lo |-> a[i].lo, hi |-> a[i].hi, of |-> i]]
    BY <1>7 DEF Chunk
  <2> HIDE DEF a
  <2>3. SpansInv'
    BY <2>1, <2>2 DEF SpansInv, GroupWithin
  <2>4. Len(a) \in Nat /\ DOMAIN a = 1..Len(a) /\ \A i \in 1..Len(a) : a[i] \in Within(Whole(kept))
    BY ONLY <2>1, SeqGrows
  <2> DEFINE part(i) == [lo |-> a[i].lo, hi |-> a[i].hi, of |-> i]
  <2>5. ASSUME NEW i \in 1..Len(a)
        PROVE  part(i) \in Parts(a) /\ part(i).of = i
    <3>1. a[i].lo \in Nat /\ a[i].hi \in Int
      BY <2>4 DEF Within
    <3> QED BY <3>1 DEF Parts
  <2>6. inputs' = [i \in 1..Len(a) |-> part(i)] /\ group'.spans = a
    BY <2>2, <2>4
  <2> HIDE DEF part
  <2>7. inputs' \in Seq(Parts(a)) /\ Len(inputs') = Len(a) /\ \A k \in 1..Len(a) : inputs'[k].of = k
    BY ONLY <2>4, <2>5, <2>6
  <2>8. InputsInv'
    BY <2>2, <2>6, <2>7 DEF InputsInv
  <2> QED BY <1>0, <1>1, <1>3, <2>3, <2>8
<1> QED BY <1>4, <1>5, <1>6, <1>7

\* A text is what the decoder writes for a stretch of the signal.
HeardAs(t, c) == Bounded(c) /\ \E ko \in BOOLEAN : t = Heard(c, ko)

\* A batch has finitely many inputs.
LEMMA BatchFinite ==
  ASSUME taken \in Int, Len(inputs) \in Int
  PROVE  IsFiniteSet(Batch)
<1> DEFINE top == MinOf(taken + BatchSize, Len(inputs))
<1>1. top \in Int /\ taken + 1 \in Int
  BY CountAssumption DEF MinOf
<1>2. Batch = (taken + 1) .. top
  BY DEF Batch
<1> HIDE DEF top
<1> QED BY <1>1, <1>2, FS_Interval

\* One batch: each input of it is one row, of what is heard there, and in
\* Korean when none drifts.
LEMMA BatchHeard ==
  ASSUME PlacedInv, ChunkInv, Target <= ModelLimit \/ BatchSize <= 1, DecodeBatch
  PROVE  /\ taken' \in taken .. Len(inputs)
         /\ decoded' \in Seq(TextsOf(kept, audio, Whole(kept))) /\ Len(decoded') = taken'
         /\ \A k \in 1..taken : decoded'[k] = decoded[k]
         /\ \A k \in (taken + 1)..taken' : HeardAs(decoded'[k], inputs[k])
         /\ (drifts \in Nat /\ drifts' = 0 => \A k \in (taken + 1)..taken' : decoded'[k] = Heard(inputs[k], TRUE))
<1> USE DEF PlacedInv
<1> DEFINE n == Cardinality(Batch)
<1>1. /\ kept' = kept /\ audio' = audio /\ stage' = stage /\ todo' = todo /\ group' = group
      /\ inputs' = inputs /\ texts' = texts /\ out' = out /\ taken' = taken + n
      /\ stage \in {"decode", "redecode"} /\ taken < Len(inputs)
  BY DEF DecodeBatch
<1>2. Len(kept) \in Nat /\ Len(inputs) \in Nat /\ taken \in 0..Len(inputs)
  BY DEF KeptInOrder, InputsInv, TextsInv
<1>3. n \in Nat /\ taken + n \in 0..Len(inputs)
  <2> DEFINE top == MinOf(taken + BatchSize, Len(inputs))
  <2>1. top \in Int /\ taken + 1 \in Int /\ top <= Len(inputs) /\ taken + 1 <= top
    <3> DEFINE size == Len(inputs)
    <3>1. size \in Nat /\ taken \in Nat /\ taken < size /\ BatchSize \in Nat \ {0}
      BY <1>1, <1>2, CountAssumption
    <3> HIDE DEF size
    <3>2. /\ MinOf(taken + BatchSize, size) \in Int /\ taken + 1 \in Int
          /\ MinOf(taken + BatchSize, size) <= size /\ taken + 1 <= MinOf(taken + BatchSize, size)
      BY ONLY <3>1 DEF MinOf
    <3> QED BY <3>2 DEF size
  <2>2. Batch = (taken + 1) .. top
    BY DEF Batch
  <2> HIDE DEF top
  <2>3. n = top - (taken + 1) + 1
    BY <2>1, <2>2, FS_Interval
  <2> HIDE DEF n
  <2> QED BY <1>2, <2>1, <2>3
<1>4. PICK odd :
        /\ odd \subseteq Batch /\ drifts' = drifts + Cardinality(odd)
        /\ decoded' = decoded \o FlattenSeq([k \in 1..n |-> Rows(inputs[taken + k], (taken + k) \notin odd)])
  BY DEF DecodeBatch
<1>13. drifts \in Nat /\ drifts' = 0 => odd = {}
  <2> HAVE drifts \in Nat /\ drifts' = 0
  <2>1. IsFiniteSet(Batch)
    BY <1>2, BatchFinite
  <2>2. IsFiniteSet(odd) /\ Cardinality(odd) \in Nat
    BY <1>4, <2>1, FS_Subset, FS_CardinalityType
  <2>3. Cardinality(odd) = 0
    BY <1>4, <2>2
  <2> QED BY <2>2, <2>3, FS_EmptySet
<1> HIDE DEF n
<1>5. \A k \in 1..Len(inputs) :
        /\ inputs[k].lo \in Nat /\ inputs[k].hi \in Int /\ inputs[k].hi <= Len(kept)
        /\ inputs[k].hi - inputs[k].lo <= ModelLimit \/ BatchSize <= 1
  <2> TAKE k \in 1..Len(inputs)
  <2>1. inputs[k] \in Parts(group.spans)
    BY DEF InputsInv
  <2> DEFINE x == inputs[k]
             i == x.of
             d == group.spans[i]
  <2>2. /\ x.lo \in Nat /\ x.hi \in Int /\ i \in 1..Len(group.spans)
        /\ d.lo <= x.lo /\ x.hi <= d.hi
    BY <2>1 DEF Parts
  <2>3. group.spans \in Seq(Within(Whole(kept))) /\ group.spans \in Seq(Span(Target))
    BY DEF SpansInv, GroupWithin, ChunkInv, FitInv, GroupType
  <2>4. d \in Within(Whole(kept)) /\ d \in Span(Target)
    <3> HIDE DEF i
    <3> QED BY <2>2, <2>3
  <2>5. d.lo \in Nat /\ d.hi \in Int /\ d.hi <= Len(kept) /\ d.hi - d.lo <= Target
    BY <2>4 DEF Within, Whole, Span
  <2> HIDE DEF x, d
  <2>6. x.hi - x.lo <= Target /\ x.hi <= Len(kept)
    <3>1. Target \in Int /\ Len(kept) \in Int
      BY <1>2, TargetAssumption
    <3> DEFINE a == x.lo
               b == x.hi
               p == d.lo
               q == d.hi
               size == Len(kept)
    <3>2. /\ a \in Int /\ b \in Int /\ p \in Int /\ q \in Int /\ p <= a /\ b <= q
          /\ q <= size /\ q - p <= Target /\ size \in Int
      BY <2>2, <2>5, <3>1
    <3> HIDE DEF a, b, p, q, size
    <3>3. b - a <= Target /\ b <= size
      BY ONLY <3>1, <3>2
    <3> QED BY <3>3 DEF a, b, size
  <2>7. x.hi - x.lo <= ModelLimit \/ BatchSize <= 1
    <3>1. x.hi - x.lo \in Int /\ Target \in Int /\ ModelLimit \in Int
      <4>1. ModelLimit \in Int
        BY CountAssumption
      <4>2. Target \in Int
        BY TargetAssumption
      <4>3. x.hi - x.lo \in Int
        BY ONLY <2>2
      <4> QED BY <4>1, <4>2, <4>3
    <3>2. Target <= ModelLimit \/ BatchSize <= 1
      OBVIOUS
    <3> QED BY ONLY <2>6, <3>1, <3>2
  <2> QED BY <2>2, <2>6, <2>7 DEF x
<1> DEFINE h == [k \in 1..n |-> Heard(inputs[taken + k], (taken + k) \notin odd)]
           W == TextsOf(kept, audio, Whole(kept))
<1>6. ASSUME NEW k \in 1..n
      PROVE  /\ taken + k \in 1..Len(inputs)
             /\ Rows(inputs[taken + k], (taken + k) \notin odd) = <<h[k]>>
             /\ HeardAs(h[k], inputs[taken + k])
             /\ h[k] \in W
  <2> DEFINE x == inputs[taken + k]
             ko == (taken + k) \notin odd
  <2>1. taken + k \in 1..Len(inputs)
    BY <1>2, <1>3
  <2>2. /\ x.lo \in Nat /\ x.hi \in Int /\ x.hi <= Len(kept)
        /\ x.hi - x.lo <= ModelLimit \/ BatchSize <= 1
    BY <1>5, <2>1
  <2>3. h[k] = Heard(x, ko) /\ ko \in BOOLEAN
    OBVIOUS
  <2> HIDE DEF x, ko
  <2>4. Rows(x, ko) = <<Heard(x, ko)>>
    BY <2>2 DEF Rows
  <2>5. Heard(x, ko) \in TextsOf(kept, audio, x)
    BY <2>2, <2>3, HeardThere DEF Bounded
  <2>6. TextsOf(kept, audio, x) \subseteq W
    BY <2>2, SaidSomewhere
  <2>7. HeardAs(h[k], x)
    BY <2>2, <2>3 DEF HeardAs, Bounded
  <2> QED BY <2>1, <2>3, <2>4, <2>5, <2>6, <2>7 DEF x, ko
<1> HIDE DEF W
<1>7. FlattenSeq([k \in 1..n |-> Rows(inputs[taken + k], (taken + k) \notin odd)]) = h /\ h \in Seq(W) /\ Len(h) = n
  <2>1. [k \in 1..n |-> Rows(inputs[taken + k], (taken + k) \notin odd)] = [k \in 1..n |-> <<h[k]>>]
    BY <1>6
  <2>2. \A k \in 1..n : h[k] \in W
    BY <1>6
  <2>3. h = [k \in 1..n |-> h[k]]
    OBVIOUS
  <2> HIDE DEF h
  <2>4. FlattenSeq([k \in 1..n |-> <<h[k]>>]) = [k \in 1..n |-> h[k]]
    BY ONLY <1>3, FlattenSingles
  <2>5. h \in Seq(W) /\ Len(h) = n
    BY ONLY <1>3, <2>2, <2>3
  <2> QED BY <2>1, <2>3, <2>4, <2>5
<1> HIDE DEF h
<1>8. decoded \in Seq(W) /\ Len(decoded) = taken
  BY DEF TextsInv, Said, W
<1>9. decoded' = decoded \o h
  BY <1>4, <1>7
<1>10. /\ decoded' \in Seq(W) /\ Len(decoded') = taken + n
       /\ \A k \in 1..taken : decoded'[k] = decoded[k]
       /\ \A k \in 1..n : decoded'[taken + k] = h[k]
  <2> DEFINE d == decoded
  <2>1. d \in Seq(W) /\ h \in Seq(W) /\ Len(d) = taken /\ Len(h) = n
    BY <1>7, <1>8
  <2> HIDE DEF d
  <2>2. /\ d \o h \in Seq(W) /\ Len(d \o h) = Len(d) + Len(h)
        /\ \A p \in 1..Len(d) : (d \o h)[p] = d[p]
        /\ \A j \in 1..Len(h) : (d \o h)[Len(d) + j] = h[j]
    <3>1. d \in Seq(W) /\ h \in Seq(W)
      BY <2>1
    <3> HIDE DEF W
    <3> QED BY ONLY <3>1, ConcatEntries
  <2>3. decoded' = d \o h
    BY <1>9 DEF d
  <2> QED BY <2>1, <2>2, <2>3 DEF d
<1>11. ASSUME NEW k \in (taken + 1)..(taken + n)
       PROVE  HeardAs(decoded'[k], inputs[k])
  <2>1. k - taken \in 1..n /\ taken + (k - taken) = k
    BY <1>2, <1>3
  <2>2. decoded'[taken + (k - taken)] = h[k - taken]
    BY <1>10, <2>1
  <2>3. HeardAs(h[k - taken], inputs[taken + (k - taken)])
    BY <1>6, <2>1
  <2> QED BY <2>1, <2>2, <2>3
<1>12. taken + n \in taken .. Len(inputs)
  BY <1>2, <1>3
<1>14. ASSUME drifts \in Nat, drifts' = 0, NEW k \in (taken + 1)..(taken + n)
       PROVE  decoded'[k] = Heard(inputs[k], TRUE)
  <2>1. k - taken \in 1..n /\ taken + (k - taken) = k
    BY <1>2, <1>3
  <2>2. decoded'[k] = h[k - taken]
    BY <1>10, <2>1
  <2>3. odd = {}
    BY <1>13, <1>14
  <2>4. h[k - taken] = Heard(inputs[k], k \notin odd)
    BY <2>1 DEF h
  <2>5. (k \notin odd) = TRUE
    BY <2>3
  <2> QED BY <2>2, <2>4, <2>5
<1> QED BY <1>1, <1>10, <1>11, <1>12, <1>14 DEF W

\* Its texts were said where they are heard.
LEMMA BatchPlaces ==
  ASSUME PlacedInv, ChunkInv, Target <= ModelLimit \/ BatchSize <= 1, DecodeBatch
  PROVE  PlacedInv'
<1> USE DEF PlacedInv
<1>1. /\ kept' = kept /\ audio' = audio /\ stage' = stage /\ todo' = todo /\ group' = group
      /\ inputs' = inputs /\ texts' = texts /\ out' = out
      /\ stage \in {"decode", "redecode"}
  BY DEF DecodeBatch
<1>2. Len(inputs) \in Nat /\ taken \in 0..Len(inputs)
  BY DEF InputsInv, TextsInv
<1>3. /\ taken' \in taken .. Len(inputs)
      /\ decoded' \in Seq(TextsOf(kept, audio, Whole(kept))) /\ Len(decoded') = taken'
      /\ \A k \in 1..taken : decoded'[k] = decoded[k]
      /\ \A k \in (taken + 1)..taken' : HeardAs(decoded'[k], inputs[k])
  BY BatchHeard
<1>4. \A k \in 1..taken' : decoded'[k] \in TextsOf(kept, audio, inputs[k])
  <2> TAKE k \in 1..taken'
  <2>1. CASE k <= taken
    <3>1. k \in 1..taken
      BY <1>2, <1>3, <2>1
    <3> QED BY <1>3, <3>1 DEF TextsInv, Said
  <2>2. CASE ~(k <= taken)
    <3>1. k \in (taken + 1)..taken'
      BY <1>2, <1>3, <2>2
    <3>2. HeardAs(decoded'[k], inputs[k])
      BY <1>3, <3>1
    <3> QED BY <3>2, HeardThere DEF HeardAs
  <2> QED BY <2>1, <2>2
<1>5. Said(kept', audio', inputs', decoded', taken')
  BY <1>1, <1>3, <1>4 DEF Said
<1>6. taken' \in 0..Len(inputs')
  BY <1>1, <1>2, <1>3
<1>7. stage' \in {"redecode", "merge"} => Said(kept', audio', group'.spans, texts', Len(group'.spans))
  BY <1>1 DEF TextsInv
<1>8. TextsInv'
  BY <1>5, <1>6, <1>7 DEF TextsInv
<1>9. KeptInOrder' /\ SpansInv' /\ TextWithinItsTimes'
  BY <1>1 DEF KeptInOrder, SpansInv, TextWithinItsTimes
<1>10. InputsInv'
  BY <1>1 DEF InputsInv
<1> QED BY <1>8, <1>9, <1>10

\* Every chunk lies in the signal, and so in itself.
LEMMA ChunkPlace ==
  ASSUME KeptInOrder, SpansInv, NEW i \in 1..Len(group.spans)
  PROVE  /\ group.spans[i].lo \in Nat /\ group.spans[i].hi \in Int /\ group.spans[i].hi <= Len(kept)
         /\ group.spans[i] \in Within(group.spans[i])
<1>1. group.spans \in Seq(Within(Whole(kept)))
  BY DEF SpansInv, GroupWithin
<1> DEFINE d == group.spans[i]
<1>2. d \in Within(Whole(kept))
  BY <1>1
<1> HIDE DEF d
<1>3. d.lo \in Nat /\ d.hi \in Int /\ d.hi <= Len(kept) /\ d \in Within(d)
  BY <1>2 DEF Within, Whole
<1> QED BY <1>3 DEF d

\* When every batch is done, the decoder has a text for every input.
LEMMA AllZipped ==
  ASSUME InputsInv, TextsInv, taken = Len(inputs)
  PROVE  Zipped = decoded /\ Said(kept, audio, inputs, decoded, Len(inputs)) /\ Len(inputs) \in Nat
<1>1. /\ Said(kept, audio, inputs, decoded, Len(inputs))
      /\ decoded \in Seq(TextsOf(kept, audio, Whole(kept))) /\ Len(decoded) = Len(inputs)
  BY DEF TextsInv, Said
<1> DEFINE A == TextsOf(kept, audio, Whole(kept))
           n == Len(inputs)
<1>2. decoded \in Seq(A) /\ Len(decoded) = n /\ n \in Nat
  BY <1>1 DEF TextsInv
<1>3. Zipped = SubSeq(decoded, 1, n)
  BY <1>2 DEF Zipped, MinOf
<1> HIDE DEF A, n
<1>4. SubSeq(decoded, 1, n) = decoded
  BY ONLY <1>2
<1> QED BY <1>1, <1>2, <1>3, <1>4 DEF n

\* The pieces of a chunk are parts of it.
LEMMA PiecesOfFit ==
  ASSUME KeptInOrder, SpansInv, NEW i \in 1..Len(group.spans)
  PROVE  PiecesOf(i) \in Seq(Parts(group.spans))
<1> DEFINE P == Parts(group.spans)
           c == group.spans[i]
           sub == Subdivided(c, Regions(kept))
           part(k) == [lo |-> sub[k].lo, hi |-> sub[k].hi, of |-> i]
<1>0. Len(kept) \in Nat
  BY DEF KeptInOrder
<1>1. c.lo \in Nat /\ c.hi \in Int /\ c \in Within(c)
  BY ChunkPlace
<1>2. PiecesOf(i) = IF Len(sub) = 1 THEN <<>> ELSE [k \in DOMAIN sub |-> part(k)]
  BY DEF PiecesOf
<1>3. sub \in Seq(Within(c))
  <2> HIDE DEF c
  <2> QED BY <1>0, <1>1, SubdividedWithin
<1> HIDE DEF sub
<1>4. Len(sub) \in Nat /\ DOMAIN sub = 1..Len(sub) /\ \A k \in 1..Len(sub) : sub[k] \in Within(c)
  BY ONLY <1>3, SeqGrows
<1>5. \A k \in 1..Len(sub) : part(k) \in P
  <2> TAKE k \in 1..Len(sub)
  <2>1. sub[k].lo \in Nat /\ sub[k].hi \in Int /\ c.lo <= sub[k].lo /\ sub[k].hi <= c.hi
    BY <1>4 DEF Within
  <2> QED BY <2>1 DEF Parts
<1> HIDE DEF P, part
<1>6. [k \in 1..Len(sub) |-> part(k)] \in Seq(P)
  BY ONLY <1>4, <1>5
<1>7. PiecesOf(i) \in Seq(P)
  BY <1>2, <1>4, <1>6
<1> QED BY <1>7 DEF P

\* The pieces that are decoded again are parts of their chunks.
LEMMA PiecesArePlaced ==
  ASSUME KeptInOrder, SpansInv, NEW ts, Len(ts) = Len(group.spans), DOMAIN ts = 1..Len(ts)
  PROVE  Redecoded(ts) \in Seq(Parts(group.spans))
<1> DEFINE P == Parts(group.spans)
           s == [i \in DOMAIN ts |-> IF i \in Candidates(ts) THEN PiecesOf(i) ELSE <<>>]
<1>1. Len(kept) \in Nat /\ Len(group.spans) \in Nat
  BY DEF KeptInOrder, SpansInv, GroupWithin
<1>2. \A i \in 1..Len(group.spans) : PiecesOf(i) \in Seq(P)
  BY PiecesOfFit
<1> HIDE DEF P
<1>3. s \in Seq(Seq(P))
  <2>1. \A i \in 1..Len(group.spans) : (IF i \in Candidates(ts) THEN PiecesOf(i) ELSE <<>>) \in Seq(P)
    BY <1>2
  <2> QED BY <1>1, <2>1
<1>4. FlattenSeq(s) \in Seq(P)
  <2> HIDE DEF s
  <2> QED BY ONLY <1>3, FlattenFits
<1>5. Redecoded(ts) = <<>> \/ Redecoded(ts) = FlattenSeq(s)
  BY DEF Redecoded
<1> HIDE DEF s
<1>6. Redecoded(ts) \in Seq(P)
  <2>1. <<>> \in Seq(P)
    OBVIOUS
  <2> QED BY ONLY <1>4, <1>5, <2>1
<1> QED BY <1>6 DEF P

\* The texts of the chunks, as their inputs were.
LEMMA AlignPlaces ==
  ASSUME PlacedInv, Align
  PROVE  PlacedInv'
<1> USE DEF PlacedInv
<1> DEFINE n == Len(group.spans)
           W == TextsOf(kept, audio, Whole(kept))
<1>1. /\ stage = "decode" /\ taken = Len(inputs)
      /\ kept' = kept /\ audio' = audio /\ todo' = todo /\ group' = group /\ out' = out
      /\ texts' = Zipped
  BY DEF Align
<1>2. Zipped = decoded /\ Said(kept, audio, inputs, decoded, Len(inputs)) /\ Len(inputs) = n /\ n \in Nat
      /\ \A k \in 1..n : inputs[k].of = k
  BY <1>1, AllZipped DEF InputsInv
<1>3. Said(kept, audio, group.spans, decoded, n) /\ decoded \in Seq(W) /\ Len(decoded) = n
  <2>1. decoded \in Seq(W) /\ Len(decoded) = n /\ \A k \in 1..n : decoded[k] \in TextsOf(kept, audio, inputs[k])
    BY <1>2 DEF Said
  <2>2. ASSUME NEW k \in 1..n
        PROVE  decoded[k] \in TextsOf(kept, audio, group.spans[k])
    <3> DEFINE x == inputs[k]
               c == group.spans[k]
    <3>1. x \in Parts(group.spans) /\ x.of = k
      BY <1>2 DEF InputsInv
    <3>2. x.lo \in Int /\ x.hi \in Int /\ c.lo <= x.lo /\ x.hi <= c.hi
      BY <3>1 DEF Parts
    <3>3. c.lo \in Int /\ c.hi \in Int
      BY ChunkPlace
    <3>4. decoded[k] \in TextsOf(kept, audio, x)
      BY <2>1
    <3> HIDE DEF x, c
    <3>5. TextsOf(kept, audio, x) \subseteq TextsOf(kept, audio, c)
      BY <3>2, <3>3, TextsOfPart
    <3> QED BY <3>4, <3>5 DEF c
  <2> QED BY <2>1, <2>2 DEF Said
<1>4. KeptInOrder' /\ TextWithinItsTimes'
  BY <1>1 DEF KeptInOrder, TextWithinItsTimes
<1>5. stage' = IF Redecoded(Zipped) = <<>> THEN "merge" ELSE "redecode"
  BY <1>2, <1>3 DEF Align
<1>6. SpansInv'
  BY <1>1, <1>5 DEF SpansInv
<1>7. Said(kept', audio', group'.spans, texts', Len(group'.spans))
  BY <1>1, <1>2, <1>3
<1>8. CASE stage' = "redecode"
  <2>1. inputs' = Redecoded(Zipped) /\ taken' = 0 /\ decoded' = <<>>
    BY <1>8 DEF Align
  <2>2. DOMAIN decoded = 1..Len(decoded)
    BY <1>3
  <2>3. inputs' \in Seq(Parts(group'.spans))
    BY <1>1, <1>2, <1>3, <2>1, <2>2, PiecesArePlaced
  <2>4. Len(inputs') \in Nat
    BY <2>3
  <2>5. InputsInv'
    BY <1>8, <2>3 DEF InputsInv
  <2>6. Said(kept', audio', inputs', decoded', taken')
    BY <2>1 DEF Said
  <2>7. TextsInv'
    BY <1>7, <2>1, <2>4, <2>6 DEF TextsInv
  <2> QED BY <1>4, <1>6, <2>5, <2>7
<1>9. CASE stage' = "merge"
  <2>1. inputs' = inputs /\ taken' = taken /\ decoded' = decoded
    BY <1>9 DEF Align
  <2>2. InputsInv'
    BY <1>1, <1>9, <2>1 DEF InputsInv
  <2>3. taken' \in 0..Len(inputs') /\ Said(kept', audio', inputs', decoded', taken')
    BY <1>1, <2>1 DEF TextsInv
  <2>4. TextsInv'
    BY <1>7, <2>3 DEF TextsInv
  <2> QED BY <1>4, <1>6, <2>2, <2>4
<1> QED BY <1>5, <1>8, <1>9

\* What replaces the text of a chunk was said in the chunk.
LEMMA ReplacePlaces ==
  ASSUME PlacedInv, Replace
  PROVE  PlacedInv'
<1> USE DEF PlacedInv
<1> DEFINE n == Len(group.spans)
           W == TextsOf(kept, audio, Whole(kept))
<1>1. /\ stage = "redecode" /\ stage' = "merge" /\ taken = Len(inputs)
      /\ kept' = kept /\ audio' = audio /\ todo' = todo /\ group' = group /\ out' = out
      /\ inputs' = inputs /\ taken' = taken /\ decoded' = decoded
      /\ texts' = [i \in DOMAIN texts |-> Rescued(i)]
  BY DEF Replace, decoding
<1>2. Zipped = decoded /\ Said(kept, audio, inputs, decoded, Len(inputs)) /\ Len(inputs) \in Nat
  BY <1>1, AllZipped
<1>3. texts \in Seq(W) /\ Len(texts) = n /\ \A i \in 1..n : texts[i] \in TextsOf(kept, audio, group.spans[i])
  BY <1>1 DEF TextsInv, Said
<1>4. n \in Nat /\ DOMAIN texts = 1..n
  BY <1>3
<1>5. ASSUME NEW i \in 1..n
      PROVE  Rescued(i) \in TextsOf(kept, audio, group.spans[i]) /\ Rescued(i) \in W
  <2> DEFINE c == group.spans[i]
             A == WordsOf(kept, audio, c)
             s == [k \in DOMAIN Zipped |-> IF inputs[k].of = i THEN Zipped[k] ELSE <<>>]
  <2>1. c.lo \in Nat /\ c.hi \in Int /\ c.hi <= Len(kept)
    BY ChunkPlace
  <2>2. DOMAIN Zipped = 1..Len(inputs) /\ \A k \in 1..Len(inputs) : Zipped[k] \in TextsOf(kept, audio, inputs[k])
    BY <1>2 DEF Said
  <2>3. ASSUME NEW k \in 1..Len(inputs), inputs[k].of = i
        PROVE  Zipped[k] \in Seq(A)
    <3> DEFINE x == inputs[k]
    <3>1. x \in Parts(group.spans) /\ x.of = i
      BY <2>3 DEF InputsInv
    <3>2. x.lo \in Int /\ x.hi \in Int /\ c.lo <= x.lo /\ x.hi <= c.hi
      BY <3>1 DEF Parts
    <3>3. Zipped[k] \in TextsOf(kept, audio, x)
      BY <2>2
    <3> HIDE DEF x, c
    <3>4. TextsOf(kept, audio, x) \subseteq TextsOf(kept, audio, c)
      BY <2>1, <3>2, TextsOfPart
    <3> QED BY <3>3, <3>4 DEF TextsOf
  <2> HIDE DEF A, c
  <2>4. s \in Seq(Seq(A))
    <3>1. \A k \in 1..Len(inputs) : (IF inputs[k].of = i THEN Zipped[k] ELSE <<>>) \in Seq(A)
      BY <2>3
    <3> QED BY <1>2, <2>2, <3>1
  <2>5. FlattenSeq(s) \in Seq(A)
    <3> HIDE DEF s
    <3> QED BY ONLY <2>4, FlattenFits
  <2>6. Rescued(i) \in {FlattenSeq(s), texts[i]}
    BY DEF Rescued
  <2>7. texts[i] \in Seq(A)
    BY <1>3 DEF TextsOf, A, c
  <2> HIDE DEF s
  <2>8. Rescued(i) \in TextsOf(kept, audio, c)
    BY <2>5, <2>6, <2>7 DEF TextsOf, A
  <2>9. TextsOf(kept, audio, c) \subseteq W
    BY <2>1, SaidSomewhere
  <2> QED BY <2>8, <2>9 DEF c
<1>6. Said(kept, audio, group.spans, texts', n)
  <2> HIDE DEF n, W
  <2>1. texts' = [i \in 1..n |-> Rescued(i)]
    BY <1>1, <1>4
  <2>2. \A i \in 1..n : Rescued(i) \in W
    BY <1>5
  <2>3. texts' \in Seq(W) /\ Len(texts') = n
    BY ONLY <1>4, <2>1, <2>2
  <2>4. \A i \in 1..n : texts'[i] \in TextsOf(kept, audio, group.spans[i])
    BY <1>5, <2>1
  <2> QED BY <2>3, <2>4 DEF Said, W
<1>7. KeptInOrder' /\ TextWithinItsTimes' /\ SpansInv' /\ InputsInv'
  BY <1>1 DEF KeptInOrder, TextWithinItsTimes, SpansInv, InputsInv
<1>8. taken' \in 0..Len(inputs') /\ Said(kept', audio', inputs', decoded', taken')
  BY <1>1 DEF TextsInv
<1>9. Said(kept', audio', group'.spans, texts', Len(group'.spans))
  BY <1>1, <1>6
<1>10. TextsInv'
  BY <1>8, <1>9 DEF TextsInv
<1> QED BY <1>7, <1>10

\* The times of a segment are those of its chunk.
LEMMA FinishPlaces ==
  ASSUME PlacedInv, Finish
  PROVE  PlacedInv'
<1> USE DEF PlacedInv
<1> DEFINE n == Len(group.spans)
           W == WordsOf(kept, audio, Whole(kept))
           merged == Merged(group.spans, texts)
<1>1. /\ stage = "merge" /\ stage' = "done"
      /\ kept' = kept /\ audio' = audio /\ todo' = todo /\ group' = group
      /\ inputs' = inputs /\ taken' = taken /\ decoded' = decoded /\ texts' = texts
      /\ out' = [i \in DOMAIN merged |->
                   [start |-> Remap(group.spans[i].lo), end |-> Remap(group.spans[i].hi),
                    text |-> Collapsed(merged[i]), original |-> merged[i]]]
  BY DEF Finish, decoding
<1>2. texts \in Seq(Seq(W)) /\ Len(texts) = n /\ \A i \in 1..n : texts[i] \in Seq(WordsOf(kept, audio, group.spans[i]))
  BY <1>1 DEF TextsInv, Said, TextsOf
<1>3. n \in Nat /\ DOMAIN texts = 1..n /\ \A i \in 1..n : texts[i] \in Seq(W)
  <2> HIDE DEF W
  <2> QED BY <1>2
<1>4. DOMAIN merged = 1..n /\ \A i \in 1..n : \A B : texts[i] \in Seq(B) => merged[i] \in Seq(B)
  <2> HIDE DEF n, W
  <2> QED BY <1>3, MergedFits
<1> HIDE DEF merged
<1>5. ASSUME NEW i \in DOMAIN out', NEW k \in DOMAIN out'[i].original
      PROVE  out'[i].start <= out'[i].original[k].at /\ out'[i].original[k].at < out'[i].end
  <2>1. /\ i \in 1..n /\ out'[i].start = Remap(group.spans[i].lo)
        /\ out'[i].end = Remap(group.spans[i].hi) /\ out'[i].original = merged[i]
    BY <1>1, <1>4
  <2> DEFINE c == group.spans[i]
             B == WordsOf(kept, audio, c)
             t == merged[i]
  <2>2. c.lo \in Nat /\ c.hi \in Int /\ c.hi <= Len(kept)
    BY <2>1, ChunkPlace
  <2>3. t \in Seq(B) /\ k \in DOMAIN t
    BY <1>2, <1>4, <2>1
  <2> HIDE DEF c, t, B
  <2>4. t[k] \in B
    BY ONLY <2>3
  <2>5. t[k].at \in Units(kept, c)
    BY <2>4 DEF B, WordsOf
  <2>6. Remap(c.lo) <= t[k].at /\ t[k].at < Remap(c.hi)
    BY <2>2, <2>5, RemapAround
  <2> QED BY <2>1, <2>6 DEF c, t
<1>6. TextWithinItsTimes'
  BY <1>5 DEF TextWithinItsTimes
<1>7. KeptInOrder' /\ SpansInv' /\ InputsInv'
  BY <1>1 DEF KeptInOrder, SpansInv, InputsInv
<1>8. taken' \in 0..Len(inputs') /\ Said(kept', audio', inputs', decoded', taken')
  BY <1>1 DEF TextsInv
<1>9. TextsInv'
  BY <1>1, <1>8 DEF TextsInv
<1> QED BY <1>6, <1>7, <1>9

\* A run that ends before its result leaves nothing, and a cancel only asks.
LEMMA EndPlaces ==
  ASSUME PlacedInv, Fail \/ Stop \/ Cancel \/ UNCHANGED vars
  PROVE  PlacedInv'
<1> USE DEF PlacedInv
<1>1. CASE Fail \/ Stop
  <2>1. /\ kept' = <<>> /\ todo' = {} /\ group' = Ungrouped
        /\ inputs' = <<>> /\ taken' = 0 /\ decoded' = <<>> /\ texts' = <<>>
        /\ out' = out /\ stage' \in {"failed", "cancelled"}
    BY <1>1 DEF Fail, Stop, Unwound
  <2>2. KeptInOrder' /\ TextWithinItsTimes'
    BY <2>1 DEF KeptInOrder, TextWithinItsTimes
  <2>3. SpansInv'
    BY <2>1 DEF SpansInv, GroupWithin, Ungrouped
  <2>4. InputsInv'
    BY <2>1 DEF InputsInv
  <2>5. TextsInv'
    BY <2>1 DEF TextsInv, Said
  <2> QED BY <2>2, <2>3, <2>4, <2>5
<1>2. CASE Cancel \/ UNCHANGED vars
  <2>1. /\ kept' = kept /\ audio' = audio /\ todo' = todo /\ group' = group /\ stage' = stage
        /\ inputs' = inputs /\ taken' = taken /\ decoded' = decoded /\ texts' = texts /\ out' = out
    BY <1>2 DEF Cancel, vars, decoding
  <2>2. KeptInOrder' /\ SpansInv' /\ InputsInv' /\ TextWithinItsTimes'
    BY <2>1 DEF KeptInOrder, SpansInv, InputsInv, TextWithinItsTimes
  <2>3. taken' \in 0..Len(inputs') /\ Said(kept', audio', inputs', decoded', taken')
    BY <2>1 DEF TextsInv
  <2>4. TextsInv'
    BY <2>1, <2>3 DEF TextsInv
  <2> QED BY <2>2, <2>4
<1> QED BY <1>1, <1>2

\* The run keeps words in their places, when the decoder makes one text of
\* each input.
LEMMA PlacedInvariant ==
  ASSUME Target <= ModelLimit \/ BatchSize <= 1
  PROVE  Spec => []PlacedInv
<1>1. PlacedInv /\ ChunkInv /\ [Next]_vars => PlacedInv'
  BY GroupingPlaces, BatchPlaces, AlignPlaces, ReplacePlaces, FinishPlaces, EndPlaces DEF Next
<1>2. Init => PlacedInv
  BY InitPlaced
<1>3. Spec => []ChunkInv
  BY ChunkInvariant
<1> QED BY <1>1, <1>2, <1>3, PTL DEF Spec

\* Every word of the result was said within the times of its segment, when no
\* chunk is longer than what the model takes in one piece (run_pipeline refuses
\* such a target_sec, and config.py lowers its own), or inputs are decoded one
\* by one.  Of a longer chunk the model makes several rows, and the zip of
\* transcribe_arrays hands the texts after it to other chunks.
THEOREM TextsKeepTheirTimes ==
  ASSUME Target <= ModelLimit \/ BatchSize <= 1
  PROVE  Spec => []TextWithinItsTimes
<1>1. PlacedInv => TextWithinItsTimes
  BY DEF PlacedInv
<1> QED BY <1>1, PlacedInvariant, PTL

-----------------------------------------------------------------------------
(* What the result has of the speech                                       *)

\* The chunks are decoded as they are.
ChunksAsked ==
  stage = "decode" => \A k \in 1..Len(inputs) :
    inputs[k].lo = group.spans[k].lo /\ inputs[k].hi = group.spans[k].hi

\* Of a chunk that is decoded again, all its speech is.
AllAgain ==
  stage = "redecode" => \A k \in 1..Len(inputs) : \A p \in SpeechFrames :
    Inside(p, group.spans[inputs[k].of]) =>
      \E j \in 1..Len(inputs) : inputs[j].of = inputs[k].of /\ Inside(p, inputs[j])

\* There is no word of the speech that its text lacks.
AllTold ==
  /\ Told(SpeechFrames, kept, audio, inputs, decoded, taken)
  /\ stage \in {"redecode", "merge"} =>
       Told(SpeechFrames, kept, audio, group.spans, texts, Len(group.spans))

HeardInv == ChunksAsked /\ AllAgain /\ AllTold /\ LostOnlyIntoItsLike

LEMMA SameFrames ==
  ASSUME UNCHANGED <<audio, kept>>
  PROVE  SpeechFrames' = SpeechFrames
<1>1. Regions(kept)' = Regions(kept)
  BY SameRegions DEF Region
<1> QED BY <1>1 DEF SpeechFrames

LEMMA FramesAreNumbers ==
  ASSUME NEW p \in SpeechFrames, Len(kept) \in Nat
  PROVE  p \in Int
<1>1. PICK r \in Regions(kept) : p \in r.s .. (r.e - 1)
  BY DEF SpeechFrames
<1>2. r \in Stretch
  BY RegionsApart
<1>3. r.s \in Int /\ r.e \in Int
  BY <1>2 DEF Stretch
<1> QED BY ONLY <1>1, <1>3

LEMMA BatchTells ==
  ASSUME PlacedInv, ChunkInv, HeardInv, Target <= ModelLimit \/ BatchSize <= 1, DecodeBatch
  PROVE  HeardInv'
<1>1. /\ kept' = kept /\ audio' = audio /\ stage' = stage /\ group' = group
      /\ inputs' = inputs /\ texts' = texts /\ out' = out
      /\ stage \in {"decode", "redecode"}
  BY DEF DecodeBatch
<1>2. Len(inputs) \in Nat /\ taken \in 0..Len(inputs) /\ KeptInOrder /\ Len(kept) \in Nat
  BY DEF PlacedInv, InputsInv, TextsInv, KeptInOrder
<1>3. /\ taken' \in taken .. Len(inputs)
      /\ \A k \in 1..taken : decoded'[k] = decoded[k]
      /\ \A k \in (taken + 1)..taken' : HeardAs(decoded'[k], inputs[k])
  BY BatchHeard
<1>4. SpeechFrames' = SpeechFrames
  BY <1>1, SameFrames
<1>5. ASSUME NEW k \in 1..taken', NEW p \in SpeechFrames,
             Inside(p, inputs[k]), audio[kept[p + 1]] # Silence
      PROVE  Holds(decoded'[k], audio[kept[p + 1]])
  <2>1. CASE k <= taken
    <3>1. k \in 1..taken
      BY <1>2, <1>3, <2>1
    <3> QED BY <1>3, <1>5, <3>1 DEF HeardInv, AllTold, Told
  <2>2. CASE ~(k <= taken)
    <3>1. k \in (taken + 1)..taken'
      BY <1>2, <1>3, <2>2
    <3> DEFINE c == inputs[k]
               t == decoded'[k]
    <3>2. HeardAs(t, c) /\ Inside(p, c)
      BY <1>3, <1>5, <3>1
    <3>3. p \in Int
      BY <1>2, FramesAreNumbers
    <3> HIDE DEF c, t
    <3>4. Holds(t, audio[kept[p + 1]])
      BY <1>2, <1>5, <3>2, <3>3, HeardAll DEF HeardAs
    <3> QED BY <3>4 DEF t
  <2> QED BY <2>1, <2>2
<1>6. Told(SpeechFrames, kept, audio, inputs, decoded', taken')
  BY <1>5 DEF Told
<1>7. AllTold'
  BY <1>1, <1>4, <1>6 DEF HeardInv, AllTold
<1>8. ChunksAsked' /\ AllAgain'
  BY <1>1, <1>4 DEF HeardInv, ChunksAsked, AllAgain
<1>9. LostOnlyIntoItsLike'
  BY <1>1 DEF LostOnlyIntoItsLike
<1> QED BY <1>7, <1>8, <1>9 DEF HeardInv

\* The speech of a candidate is in what is decoded again of it.
LEMMA PiecesCoverSpeech ==
  ASSUME KeptInOrder, SpansInv, NEW ts, Len(ts) = Len(group.spans), DOMAIN ts = 1..Len(ts),
         NEW k \in 1..Len(Redecoded(ts)), NEW p \in SpeechFrames,
         Inside(p, group.spans[Redecoded(ts)[k].of])
  PROVE  \E j \in 1..Len(Redecoded(ts)) :
            Redecoded(ts)[j].of = Redecoded(ts)[k].of /\ Inside(p, Redecoded(ts)[j])
<1> DEFINE P == Parts(group.spans)
           s == [i \in DOMAIN ts |-> IF i \in Candidates(ts) THEN PiecesOf(i) ELSE <<>>]
           whole == FlattenSeq(s)
<1>1. Len(kept) \in Nat /\ Len(group.spans) \in Nat
  BY DEF KeptInOrder, SpansInv, GroupWithin
<1>2. Redecoded(ts) = whole
  <2>1. Redecoded(ts) # <<>>
    OBVIOUS
  <2> QED BY <2>1 DEF Redecoded
<1>3. s \in Seq(Seq(P)) /\ Len(s) = Len(group.spans)
  <2>1. \A i \in 1..Len(group.spans) : PiecesOf(i) \in Seq(P)
    BY PiecesOfFit
  <2> HIDE DEF P
  <2>2. \A i \in 1..Len(group.spans) : (IF i \in Candidates(ts) THEN PiecesOf(i) ELSE <<>>) \in Seq(P)
    BY <2>1
  <2> QED BY <1>1, <2>2
<1>4. \A i \in 1..Len(s) : s[i] = IF i \in Candidates(ts) THEN PiecesOf(i) ELSE <<>>
  BY <1>3
<1> HIDE DEF s, P
<1>5. whole \in Seq(P) /\ DOMAIN whole = 1..Len(whole)
  BY <1>3, FlattenFits
<1> HIDE DEF whole
<1>6. k \in DOMAIN whole
  BY <1>2, <1>5
<1>7. PICK a \in 1..Len(s) : \E b \in 1..Len(s[a]) : whole[k] = s[a][b]
  BY <1>3, <1>6, FlattenFrom DEF whole
<1>8. PICK b \in 1..Len(s[a]) : whole[k] = s[a][b]
  BY <1>7
<1> DEFINE c == group.spans[a]
           sub == Subdivided(c, Regions(kept))
<1>9. a \in 1..Len(group.spans) /\ s[a] = PiecesOf(a)
  BY <1>3, <1>4, <1>8
<1>10. /\ c.lo \in Nat /\ c.hi \in Int /\ c \in Within(c)
       /\ sub \in Seq(Within(c))
  <2>1. c.lo \in Nat /\ c.hi \in Int /\ c \in Within(c)
    BY <1>9, ChunkPlace
  <2> HIDE DEF c
  <2> QED BY <1>1, <2>1, SubdividedWithin
<1>11. Len(sub) \in Nat /\ DOMAIN sub = 1..Len(sub)
  <2> HIDE DEF sub
  <2> QED BY <1>10
<1>12. s[a] = [j \in 1..Len(sub) |-> [lo |-> sub[j].lo, hi |-> sub[j].hi, of |-> a]]
  <2>1. PiecesOf(a) = IF Len(sub) = 1 THEN <<>> ELSE [j \in DOMAIN sub |-> [lo |-> sub[j].lo, hi |-> sub[j].hi, of |-> a]]
    BY DEF PiecesOf
  <2>2. PiecesOf(a) # <<>>
    BY <1>8, <1>9
  <2> QED BY <1>9, <1>11, <2>1, <2>2
<1> HIDE DEF sub
<1>13. whole[k].of = a
  BY <1>8, <1>11, <1>12
<1>14. Inside(p, c)
  BY <1>2, <1>13
<1>15. HeldBy(sub, p)
  <2> HIDE DEF c
  <2> QED BY <1>1, <1>10, <1>14, SubdividedCovers DEF sub
<1>16. PICK j \in 1..Len(sub) : Inside(p, sub[j])
  BY <1>11, <1>15 DEF HeldBy
<1>17. j \in 1..Len(s[a]) /\ s[a][j].of = a /\ Inside(p, s[a][j])
  BY <1>11, <1>12, <1>16 DEF Inside
<1>18. PICK m \in DOMAIN whole : whole[m] = s[a][j]
  BY <1>3, <1>17, FlattenHolds DEF whole
<1> QED BY <1>2, <1>5, <1>13, <1>17, <1>18

LEMMA AlignTells ==
  ASSUME PlacedInv, HeardInv, Align
  PROVE  HeardInv'
<1> DEFINE n == Len(group.spans)
<1>1. /\ stage = "decode" /\ taken = Len(inputs)
      /\ kept' = kept /\ audio' = audio /\ group' = group /\ out' = out
      /\ texts' = Zipped
  BY DEF Align
<1>2. Zipped = decoded /\ Len(inputs) = n /\ n \in Nat /\ Len(decoded) = n /\ DOMAIN decoded = 1..n
  <2>1. Zipped = decoded /\ Said(kept, audio, inputs, decoded, Len(inputs)) /\ Len(inputs) \in Nat
    BY <1>1, AllZipped DEF PlacedInv
  <2> QED BY <1>1, <2>1 DEF PlacedInv, InputsInv, Said
<1>3. SpeechFrames' = SpeechFrames
  BY <1>1, SameFrames
<1>4. Told(SpeechFrames, kept, audio, group.spans, decoded, n)
  <2>1. \A k \in 1..n : inputs[k].lo = group.spans[k].lo /\ inputs[k].hi = group.spans[k].hi
    BY <1>1, <1>2 DEF HeardInv, ChunksAsked
  <2>2. Told(SpeechFrames, kept, audio, inputs, decoded, n)
    BY <1>1, <1>2 DEF HeardInv, AllTold
  <2> QED BY <2>1, <2>2 DEF Told, Inside
<1>5. Told(SpeechFrames', kept', audio', group'.spans, texts', Len(group'.spans))
  BY <1>1, <1>2, <1>3, <1>4
<1>6. stage' = IF Redecoded(Zipped) = <<>> THEN "merge" ELSE "redecode"
  BY <1>2 DEF Align
<1>7. ChunksAsked' /\ LostOnlyIntoItsLike'
  BY <1>6 DEF ChunksAsked, LostOnlyIntoItsLike
<1>8. CASE stage' = "redecode"
  <2>1. inputs' = Redecoded(decoded) /\ taken' = 0 /\ decoded' = <<>>
    BY <1>2, <1>8 DEF Align
  <2>2. AllAgain'
    <3> SUFFICES ASSUME NEW k \in 1..Len(inputs'), NEW p \in SpeechFrames,
                        Inside(p, group.spans[inputs'[k].of])
                 PROVE  \E j \in 1..Len(inputs') : inputs'[j].of = inputs'[k].of /\ Inside(p, inputs'[j])
      BY <1>1, <1>3 DEF AllAgain
    <3>1. KeptInOrder /\ SpansInv /\ Len(decoded) = Len(group.spans) /\ DOMAIN decoded = 1..Len(decoded)
      BY <1>2 DEF PlacedInv
    <3> QED BY <2>1, <3>1, PiecesCoverSpeech
  <2>3. Told(SpeechFrames', kept', audio', inputs', decoded', taken')
    BY <2>1 DEF Told
  <2>4. AllTold'
    BY <1>5, <2>3 DEF AllTold
  <2> QED BY <1>7, <2>2, <2>4 DEF HeardInv
<1>9. CASE stage' = "merge"
  <2>1. inputs' = inputs /\ taken' = taken /\ decoded' = decoded
    BY <1>9 DEF Align
  <2>2. AllAgain'
    BY <1>9 DEF AllAgain
  <2>3. Told(SpeechFrames', kept', audio', inputs', decoded', taken')
    BY <1>1, <1>3, <2>1 DEF HeardInv, AllTold
  <2>4. AllTold'
    BY <1>5, <2>3 DEF AllTold
  <2> QED BY <1>7, <2>2, <2>4 DEF HeardInv
<1> QED BY <1>6, <1>8, <1>9

\* The pieces of a chunk have, together, every word of its speech.
LEMMA ReplaceTells ==
  ASSUME PlacedInv, HeardInv, Replace
  PROVE  HeardInv'
<1> DEFINE n == Len(group.spans)
           W == TextsOf(kept, audio, Whole(kept))
           A == WordsOf(kept, audio, Whole(kept))
<1>1. /\ stage = "redecode" /\ stage' = "merge" /\ taken = Len(inputs)
      /\ kept' = kept /\ audio' = audio /\ group' = group /\ out' = out
      /\ inputs' = inputs /\ taken' = taken /\ decoded' = decoded
      /\ texts' = [i \in DOMAIN texts |-> Rescued(i)]
  BY DEF Replace, decoding
<1>2. Zipped = decoded /\ Said(kept, audio, inputs, decoded, Len(inputs)) /\ Len(inputs) \in Nat
  BY <1>1, AllZipped DEF PlacedInv
<1>3. DOMAIN texts = 1..n
  BY <1>1 DEF PlacedInv, TextsInv, Said
<1>4. DOMAIN decoded = 1..Len(inputs) /\ \A k \in 1..Len(inputs) : decoded[k] \in Seq(A)
  BY <1>2 DEF Said, TextsOf
<1>5. SpeechFrames' = SpeechFrames
  BY <1>1, SameFrames
<1>6. ASSUME NEW i \in 1..n, NEW p \in SpeechFrames,
             Inside(p, group.spans[i]), audio[kept[p + 1]] # Silence
      PROVE  Holds(Rescued(i), audio[kept[p + 1]])
  <2> DEFINE s == [k \in DOMAIN Zipped |-> IF inputs[k].of = i THEN Zipped[k] ELSE <<>>]
             new == FlattenSeq(s)
             w == audio[kept[p + 1]]
  <2>1. Rescued(i) = IF new # <<>> /\ LessKorean(texts[i], new) THEN new ELSE texts[i]
    BY DEF Rescued
  <2>2. Holds(texts[i], w)
    BY <1>1, <1>6 DEF HeardInv, AllTold, Told
  <2>3. \A k \in 1..Len(inputs) : s[k] = IF inputs[k].of = i THEN decoded[k] ELSE <<>>
    BY <1>2, <1>4
  <2>4. s \in Seq(Seq(A)) /\ Len(s) = Len(inputs)
    <3> HIDE DEF A
    <3>1. \A k \in 1..Len(inputs) : (IF inputs[k].of = i THEN Zipped[k] ELSE <<>>) \in Seq(A)
      BY <1>2, <1>4
    <3> QED BY <1>2, <1>4, <3>1
  <2> HIDE DEF s, A
  <2>5. ASSUME new # <<>>
        PROVE  Holds(new, w)
    <3>1. PICK k \in 1..Len(inputs) : inputs[k].of = i
      <4> SUFFICES ASSUME \A k \in 1..Len(inputs) : inputs[k].of # i
                   PROVE  FALSE
        OBVIOUS
      <4>1. \A k \in 1..Len(s) : s[k] \in Seq({})
        <5>1. \A k \in 1..Len(s) : s[k] = <<>>
          BY <2>3, <2>4
        <5>2. <<>> \in Seq({})
          OBVIOUS
        <5> QED BY ONLY <5>1, <5>2
      <4>2. s \in Seq(Seq({}))
        <5>1. s = [k \in 1..Len(s) |-> s[k]] /\ Len(s) \in Nat
          BY ONLY <2>4
        <5> QED BY ONLY <4>1, <5>1
      <4>3. new \in Seq({})
        BY <4>2, FlattenFits
      <4> HIDE DEF new
      <4>4. new = <<>>
        BY ONLY <4>3
      <4> QED BY <2>5, <4>4 DEF new
    <3>2. PICK j \in 1..Len(inputs) : inputs[j].of = i /\ Inside(p, inputs[j])
      BY <1>1, <1>6, <3>1 DEF HeardInv, AllAgain
    <3>3. Holds(decoded[j], w)
      BY <1>1, <1>6, <3>2 DEF HeardInv, AllTold, Told
    <3>4. s[j] = decoded[j] /\ s[j] \in Seq(A)
      BY <1>4, <2>3, <3>2
    <3> DEFINE t == s[j]
    <3>5. PICK b \in 1..Len(t) : t[b].word = w
      <4>1. t \in Seq(A) /\ \E b \in DOMAIN t : t[b].word = w
        BY <3>3, <3>4 DEF Holds
      <4> HIDE DEF t
      <4>2. DOMAIN t = 1..Len(t)
        BY <4>1
      <4> QED BY <4>1, <4>2
    <3>6. PICK m \in DOMAIN new : new[m] = s[j][b]
      BY <2>4, <3>2, <3>5, FlattenHolds
    <3> HIDE DEF new
    <3> QED BY <3>5, <3>6 DEF Holds
  <2> HIDE DEF new
  <2> QED BY <2>1, <2>2, <2>5
<1>7. Told(SpeechFrames, kept, audio, group.spans, texts', n)
  <2>1. \A i \in 1..n : texts'[i] = Rescued(i)
    BY <1>1, <1>3
  <2> QED BY <1>6, <2>1 DEF Told
<1>8. AllTold'
  BY <1>1, <1>5, <1>7 DEF HeardInv, AllTold
<1>9. ChunksAsked' /\ AllAgain' /\ LostOnlyIntoItsLike'
  BY <1>1 DEF ChunksAsked, AllAgain, LostOnlyIntoItsLike
<1> QED BY <1>8, <1>9 DEF HeardInv

\* Every word of the speech is in the result, or one like it.
LEMMA FinishTells ==
  ASSUME PlacedInv, ChunkInv, HeardInv, Finish
  PROVE  HeardInv'
<1> DEFINE n == Len(group.spans)
           A == WordsOf(kept, audio, Whole(kept))
           merged == Merged(group.spans, texts)
<1>1. /\ stage = "merge" /\ stage' = "done"
      /\ kept' = kept /\ audio' = audio /\ group' = group
      /\ inputs' = inputs /\ taken' = taken /\ decoded' = decoded /\ texts' = texts
      /\ out' = [i \in DOMAIN merged |->
                   [start |-> Remap(group.spans[i].lo), end |-> Remap(group.spans[i].hi),
                    text |-> Collapsed(merged[i]), original |-> merged[i]]]
  BY DEF Finish, decoding
<1>2. texts \in Seq(Seq(A)) /\ Len(texts) = n
  BY <1>1 DEF PlacedInv, TextsInv, Said, TextsOf
<1>3. n \in Nat /\ DOMAIN texts = 1..n /\ \A i \in 1..n : texts[i] \in Seq(A)
  <2> HIDE DEF A
  <2> QED BY <1>2
<1>4. DOMAIN merged = 1..n
  <2> HIDE DEF n, A
  <2> QED BY <1>3, MergedUnfolds
<1>5. \A j \in 1..n : j \in DOMAIN out' /\ out'[j].original = merged[j]
  <2> HIDE DEF merged
  <2> QED BY <1>1, <1>4
<1>6. SpeechFrames' = SpeechFrames
  BY <1>1, SameFrames
<1>7. ASSUME NEW p \in SpeechFrames, audio[kept[p + 1]] # Silence
      PROVE  \E i, j \in DOMAIN out' : \E k \in DOMAIN out'[j].original :
               /\ Inside(p, group.spans[i]) /\ j \in {i - 1, i}
               /\ out'[j].original[k].word = audio[kept[p + 1]]
  <2> DEFINE w == audio[kept[p + 1]]
  <2>1. PICK i \in DOMAIN group.spans : Inside(p, group.spans[i])
    BY <1>1, CoversSpeech DEF SpeechIsCovered
  <2>2. i \in 1..n
    BY DEF PlacedInv, SpansInv, GroupWithin
  <2>3. Holds(texts[i], w)
    BY <1>1, <1>7, <2>1, <2>2 DEF HeardInv, AllTold, Told
  <2> HIDE DEF n, A, w
  <2>4. PICK j \in 1..n : j \in {i - 1, i} /\ Holds(merged[j], w)
    BY <1>3, <2>2, <2>3, MergedHolds
  <2> HIDE DEF merged
  <2>5. PICK k \in DOMAIN merged[j] : merged[j][k].word = w
    BY <2>4 DEF Holds
  <2>6. i \in DOMAIN out' /\ j \in DOMAIN out' /\ out'[j].original = merged[j]
    BY <1>5, <2>2, <2>4
  <2> QED BY <2>1, <2>4, <2>5, <2>6 DEF w
<1>8. LostOnlyIntoItsLike'
  <2>1. kept' = kept /\ audio' = audio /\ group' = group
    BY <1>1
  <2> SUFFICES ASSUME NEW p \in SpeechFrames, audio[kept[p + 1]] # Silence
               PROVE  \E i, j \in DOMAIN out' : \E k \in DOMAIN out'[j].original :
                        /\ Inside(p, group'.spans[i]) /\ j \in {i - 1, i}
                        /\ out'[j].original[k].word = audio[kept[p + 1]]
    BY <1>6, <2>1, Zenon DEF LostOnlyIntoItsLike
  <2> QED BY <1>7, <2>1
<1>9. Told(SpeechFrames', kept', audio', inputs', decoded', taken')
  BY <1>1, <1>6 DEF HeardInv, AllTold
<1>10. AllTold' /\ ChunksAsked' /\ AllAgain'
  BY <1>1, <1>9 DEF AllTold, ChunksAsked, AllAgain
<1> QED BY <1>8, <1>10 DEF HeardInv

\* Nothing is heard before the chunks are decoded, or kept after a failure.
LEMMA RestTells ==
  ASSUME PlacedInv, HeardInv,
         Preprocess \/ Detect \/ GroupRegion \/ Chunk \/ Fail \/ Stop \/ Cancel \/ UNCHANGED vars
  PROVE  HeardInv'
<1>1. CASE Preprocess \/ Detect \/ GroupRegion \/ Chunk \/ Fail \/ Stop
  <2>1. taken' = 0 /\ stage' \in {"detect", "group", "decode", "failed", "cancelled"}
    BY <1>1 DEF Preprocess, Detect, GroupRegion, Chunk, Fail, Stop, Unwound, PlacedInv, InputsInv, decoding
  <2>2. AllTold' /\ AllAgain' /\ LostOnlyIntoItsLike'
    BY <2>1 DEF AllTold, Told, AllAgain, LostOnlyIntoItsLike
  <2>3. ChunksAsked'
    <3>1. CASE stage' # "decode"
      BY <3>1 DEF ChunksAsked
    <3>2. CASE stage' = "decode"
      <4> DEFINE a == Flushed(group)
      <4>1. /\ KeptInOrder /\ SpansInv
            /\ group' = [spans |-> a, cur |-> NoSpan]
            /\ inputs' = [i \in DOMAIN a |-> [lo |-> a[i].lo, hi |-> a[i].hi, of |-> i]]
        BY <1>1, <3>2 DEF Preprocess, Detect, GroupRegion, Chunk, Fail, Stop, PlacedInv
      <4>2. a \in Seq(Within(Whole(kept)))
        BY <4>1, FlushedWithin DEF SpansInv, Whole, KeptInOrder
      <4> HIDE DEF a
      <4>3. DOMAIN a = 1..Len(a) /\ Len(a) \in Nat
        BY <4>2
      <4>4. \A k \in 1..Len(inputs') : inputs'[k].lo = a[k].lo /\ inputs'[k].hi = a[k].hi
        BY <4>1, <4>3
      <4> QED BY <4>1, <4>4 DEF ChunksAsked
    <3> QED BY <3>1, <3>2
  <2> QED BY <2>2, <2>3 DEF HeardInv
<1>2. CASE Cancel \/ UNCHANGED vars
  <2>1. /\ kept' = kept /\ audio' = audio /\ group' = group /\ stage' = stage
        /\ inputs' = inputs /\ taken' = taken /\ decoded' = decoded /\ texts' = texts /\ out' = out
    BY <1>2 DEF Cancel, vars, decoding
  <2>2. SpeechFrames' = SpeechFrames
    BY <2>1, SameFrames
  <2>3. Told(SpeechFrames', kept', audio', inputs', decoded', taken')
    BY <2>1, <2>2 DEF HeardInv, AllTold
  <2>4. stage' \in {"redecode", "merge"} =>
          Told(SpeechFrames', kept', audio', group'.spans, texts', Len(group'.spans))
    BY <2>1, <2>2 DEF HeardInv, AllTold
  <2>5. AllTold'
    BY <2>3, <2>4 DEF AllTold
  <2>6. AllAgain' /\ ChunksAsked' /\ LostOnlyIntoItsLike'
    BY <2>1, <2>2 DEF HeardInv, AllAgain, ChunksAsked, LostOnlyIntoItsLike
  <2> QED BY <2>5, <2>6 DEF HeardInv
<1> QED BY <1>1, <1>2

\* The run keeps all of it, when the decoder makes one text of each input.
LEMMA HeardInvariant ==
  ASSUME Target <= ModelLimit \/ BatchSize <= 1
  PROVE  Spec => []HeardInv
<1>1. PlacedInv /\ ChunkInv /\ HeardInv /\ [Next]_vars => HeardInv'
  BY RestTells, BatchTells, AlignTells, ReplaceTells, FinishTells DEF Next
<1>2. Init => HeardInv
  <2> SUFFICES ASSUME Init
               PROVE  HeardInv
    OBVIOUS
  <2>1. taken = 0 /\ stage = "prepare"
    BY DEF Init
  <2> QED BY <2>1 DEF HeardInv, ChunksAsked, AllAgain, AllTold, Told, LostOnlyIntoItsLike
<1>3. Spec => []ChunkInv
  BY ChunkInvariant
<1>4. Spec => []PlacedInv
  BY PlacedInvariant
<1> QED BY <1>1, <1>2, <1>3, <1>4, PTL DEF Spec

\* No word of the speech is lost but to the merge, which drops it only where
\* the text before ends with the same word.
THEOREM WordsAreOnlyMerged ==
  ASSUME Target <= ModelLimit \/ BatchSize <= 1
  PROVE  Spec => []LostOnlyIntoItsLike
<1>1. HeardInv => LostOnlyIntoItsLike
  BY DEF HeardInv
<1> QED BY <1>1, HeardInvariant, PTL

-----------------------------------------------------------------------------
(* What is said twice                                                      *)

\* A piece of a hard split and the one before it.
Seam(c, d) == d.seam /\ c.lo <= d.lo /\ c.hi <= d.hi /\ c.hi - d.lo <= SegOverlap

\* Of two spans what is said in the first is said before the second, but for
\* the overlap of a hard split.
Apart(ks, au, spans) ==
  \A i, j \in DOMAIN spans : i < j =>
    Quiet(ks, au, spans[j].lo, spans[i].hi) \/ (j = i + 1 /\ Seam(spans[i], spans[j]))

\* What is said in the spans is said before x.
Behind(ks, au, spans, x) == \A i \in DOMAIN spans : Quiet(ks, au, x, spans[i].hi)

LEMMA QuietLess ==
  ASSUME NEW ks, NEW au, NEW x \in Int, NEW y \in Int, NEW v \in Int, NEW w \in Int,
         x <= v, w <= y, Quiet(ks, au, x, y)
  PROVE  Quiet(ks, au, v, w)
<1> SUFFICES ASSUME NEW p \in 0..(Len(ks) - 1), v <= p, p < w
             PROVE  x <= p /\ p < y
  BY DEF Quiet
<1>1. p \in Int
  OBVIOUS
<1> QED BY ONLY <1>1, x \in Int, y \in Int, v \in Int, w \in Int, x <= v, w <= y, v <= p, p < w

LEMMA PiecesApart ==
  ASSUME NEW r \in Stretch, r.e - r.s > Target
  PROVE  LET P == Pieces(r, Target, SegOverlap)
         IN /\ \A k \in DOMAIN P : r.s <= P[k].lo /\ P[k].hi <= r.e
            /\ \A ks, au : Apart(ks, au, P)
<1> DEFINE step == Target - SegOverlap
           n == CeilDiv(r.e - r.s - Target, step)
           at(k) == (k - 1) * step
           piece(k) == [lo |-> r.s + at(k), hi |-> MinOf(r.s + at(k) + Target, r.e), seam |-> k > 1]
           P == Pieces(r, Target, SegOverlap)
<1>1. Target \in Nat /\ SegOverlap \in Nat /\ step \in Nat \ {0} /\ 2 * SegOverlap <= Target
  BY TargetAssumption
<1>2. r.s \in Int /\ r.e \in Int /\ r.e - r.s - Target \in Nat
  BY <1>1 DEF Stretch
<1>3. n \in Nat
  <2> HIDE DEF step
  <2> QED BY <1>1, <1>2, RoundedUp
<1>4. P = [k \in 1..(n + 1) |-> piece(k)]
  BY DEF Pieces
<1> HIDE DEF n, P
<1>5. DOMAIN P = 1..(n + 1)
  BY <1>4
<1>6. \A k \in 1..(n + 1) : at(k) \in Nat
  <2> TAKE k \in 1..(n + 1)
  <2>1. k - 1 \in Nat /\ step \in Nat
    BY <1>1, <1>3
  <2> HIDE DEF step
  <2> QED BY <2>1
<1>7. \A k \in 1..(n + 1) : k + 1 \in 1..(n + 1) => at(k + 1) = at(k) + step
  <2> TAKE k \in 1..(n + 1)
  <2>1. k \in Int /\ step \in Int
    BY <1>1, <1>3
  <2> HIDE DEF step
  <2>2. (k + 1 - 1) * step = (k - 1) * step + step
    BY <2>1
  <2> QED BY <2>2
<1>8. \A i, j \in 1..(n + 1) : i + 2 <= j => at(i) + 2 * step <= at(j)
  <2> TAKE i, j \in 1..(n + 1)
  <2> HAVE i + 2 <= j
  <2>1. i \in Int /\ j \in Int /\ step \in Nat /\ j - i - 2 \in Nat
    BY <1>1, <1>3
  <2> HIDE DEF step
  <2> DEFINE d == j - i - 2
  <2>2. d * step \in Nat /\ j - 1 = (i - 1) + 2 + d
    BY <2>1
  <2>3. (j - 1) * step = (i - 1) * step + 2 * step + d * step
    BY <2>1
  <2>4. (i - 1) * step \in Int /\ (j - 1) * step \in Int /\ 2 * step \in Int
    BY <2>1
  <2> HIDE DEF d
  <2> QED BY <2>2, <2>3, <2>4
<1>9. \A k \in 1..(n + 1) : /\ P[k].lo = r.s + at(k) /\ P[k].hi = MinOf(r.s + at(k) + Target, r.e)
                            /\ (k > 1 => P[k].seam)
  BY <1>4
<1> DEFINE lo(k) == P[k].lo
           hi(k) == P[k].hi
<1> HIDE DEF at, piece
<1>10. \A k \in 1..(n + 1) : /\ lo(k) \in Int /\ hi(k) \in Int /\ hi(k) <= r.s + at(k) + Target
                             /\ r.s <= lo(k) /\ hi(k) <= r.e
                             /\ (hi(k) = r.s + at(k) + Target \/ hi(k) = r.e)
  BY <1>1, <1>2, <1>6, <1>9 DEF MinOf
<1>11. ASSUME NEW ks, NEW au, NEW i \in 1..(n + 1), NEW j \in 1..(n + 1), i < j
       PROVE  Quiet(ks, au, P[j].lo, P[i].hi) \/ (j = i + 1 /\ Seam(P[i], P[j]))
  <2>0. /\ i \in Int /\ j \in Int /\ lo(i) = r.s + at(i) /\ lo(j) = r.s + at(j)
        /\ at(i) \in Nat /\ at(j) \in Nat
    BY <1>3, <1>6, <1>9
  <2>1. CASE j = i + 1
    <3>1. at(j) = at(i) + step
      BY <1>7, <2>1
    <3>2. P[j].seam
      <4>1. j > 1
        BY <1>3, <1>11
      <4> QED BY <1>9, <4>1
    <3>3. hi(i) <= r.s + at(i) + Target /\ hi(i) \in Int /\ hi(j) \in Int /\ hi(i) <= r.e
          /\ (hi(j) = r.s + at(j) + Target \/ hi(j) = r.e)
      BY <1>10
    <3>4. lo(i) <= lo(j) /\ hi(i) <= hi(j) /\ hi(i) - lo(j) <= SegOverlap
      <4> DEFINE a == at(i)
                 b == at(j)
                 x == hi(i)
                 y == hi(j)
                 u == r.s
                 v == r.e
      <4>1. /\ a \in Nat /\ b = a + (Target - SegOverlap) /\ x \in Int /\ y \in Int /\ u \in Int /\ v \in Int
            /\ x <= u + a + Target /\ (y = u + b + Target \/ y = v) /\ x <= v
            /\ Target \in Nat /\ SegOverlap \in Nat /\ SegOverlap <= Target
        BY <1>1, <1>2, <2>0, <3>1, <3>3
      <4> HIDE DEF a, b, x, y, u, v
      <4>2. u + a <= u + b /\ x <= y /\ x - (u + b) <= SegOverlap
        BY ONLY <4>1
      <4> QED BY <2>0, <4>2 DEF a, b, x, y, u, v
    <3> QED BY <2>1, <3>2, <3>4 DEF Seam
  <2>2. CASE i + 2 <= j
    <3>1. at(i) + 2 * step <= at(j)
      BY <1>8, <2>2
    <3>2. hi(i) <= lo(j)
      <4> DEFINE a == at(i)
                 b == at(j)
                 x == hi(i)
                 u == r.s
      <4>1. /\ a \in Nat /\ b \in Nat /\ a + 2 * (Target - SegOverlap) <= b /\ x \in Int /\ u \in Int
            /\ x <= u + a + Target /\ Target \in Nat /\ SegOverlap \in Nat /\ 2 * SegOverlap <= Target
        BY <1>1, <1>2, <1>10, <2>0, <3>1
      <4> HIDE DEF a, b, x, u
      <4>2. x <= u + b
        BY ONLY <4>1
      <4> QED BY <2>0, <4>2 DEF b, x, u
    <3>3. lo(j) \in Int /\ hi(i) \in Int
      BY <1>10
    <3> DEFINE x == lo(j)
               y == hi(i)
    <3>4. x \in Int /\ y \in Int /\ y <= x
      BY <3>2, <3>3
    <3> HIDE DEF x, y
    <3>5. Quiet(ks, au, x, y)
      <4> SUFFICES ASSUME NEW p \in 0..(Len(ks) - 1), x <= p, p < y
                   PROVE  FALSE
        BY DEF Quiet
      <4>1. p \in Int
        OBVIOUS
      <4> QED BY ONLY <3>4, <4>1, x <= p, p < y
    <3> QED BY <3>5 DEF x, y
  <2>3. j = i + 1 \/ i + 2 <= j
    BY ONLY <2>0, i < j
  <2> QED BY <2>1, <2>2, <2>3
<1>12. \A ks, au : Apart(ks, au, P)
  BY <1>5, <1>11 DEF Apart
<1>13. \A k \in DOMAIN P : r.s <= P[k].lo /\ P[k].hi <= r.e
  BY <1>5, <1>10
<1> QED BY <1>12, <1>13 DEF P

\* The same of a grouping and its open span; and that x comes after both.
GroupApart(ks, au, g) == Apart(ks, au, g.spans) /\ (g.cur # NoSpan => Behind(ks, au, g.spans, g.cur.s))
GroupBehind(ks, au, g, x) == Behind(ks, au, g.spans, x) /\ (g.cur # NoSpan => Quiet(ks, au, x, g.cur.e))

\* Spans that follow on others: these are apart when each are and the later
\* come after the earlier.
LEMMA ConcatApart ==
  ASSUME NEW A, NEW a \in Seq(A), NEW b \in Seq(A), NEW ks, NEW au,
         Apart(ks, au, a), Apart(ks, au, b), \A j \in DOMAIN b : Behind(ks, au, a, b[j].lo)
  PROVE  /\ Apart(ks, au, a \o b)
         /\ \A x : Behind(ks, au, a, x) /\ Behind(ks, au, b, x) => Behind(ks, au, a \o b, x)
<1> DEFINE n == Len(a)
           m == Len(b)
           c == a \o b
<1>1. n \in Nat /\ m \in Nat /\ DOMAIN a = 1..n /\ DOMAIN b = 1..m /\ DOMAIN c = 1..(n + m)
  OBVIOUS
<1>2. \A i \in 1..n : c[i] = a[i]
  BY ConcatEntries
<1>3. \A j \in 1..m : c[n + j] = b[j]
  BY ConcatEntries
<1> HIDE DEF n, m, c
<1>4. \A i \in 1..(n + m) : i \in 1..n \/ (i - n \in 1..m /\ i = n + (i - n))
  BY <1>1
<1>5. ASSUME NEW i \in 1..(n + m), NEW j \in 1..(n + m), i < j
      PROVE  Quiet(ks, au, c[j].lo, c[i].hi) \/ (j = i + 1 /\ Seam(c[i], c[j]))
  <2>1. CASE j \in 1..n
    <3>1. i \in 1..n
      BY <1>1, <1>5, <2>1
    <3> QED BY <1>1, <1>2, <1>5, <2>1, <3>1 DEF Apart
  <2>2. CASE i \in 1..n /\ j - n \in 1..m
    <3>0. j = n + (j - n)
      BY <1>1
    <3>1. c[i] = a[i] /\ c[j] = b[j - n]
      BY <1>2, <1>3, <2>2, <3>0
    <3> DEFINE v == j - n
    <3>2. v \in DOMAIN b /\ i \in DOMAIN a
      BY <1>1, <2>2
    <3> HIDE DEF v
    <3>3. Quiet(ks, au, b[v].lo, a[i].hi)
      BY <3>2 DEF Behind
    <3> QED BY <3>1, <3>3 DEF v
  <2>3. CASE i - n \in 1..m /\ j - n \in 1..m
    <3>1. i - n < j - n /\ (j - n = (i - n) + 1 => j = i + 1)
      BY <1>1, <1>5
    <3>0. i = n + (i - n) /\ j = n + (j - n)
      BY <1>1
    <3>2. c[i] = b[i - n] /\ c[j] = b[j - n]
      BY <1>3, <2>3, <3>0
    <3> DEFINE u == i - n
               v == j - n
    <3>3. u \in DOMAIN b /\ v \in DOMAIN b /\ u < v
      BY <1>1, <2>3, <3>1
    <3> HIDE DEF u, v
    <3>4. Quiet(ks, au, b[v].lo, b[u].hi) \/ (v = u + 1 /\ Seam(b[u], b[v]))
      BY <3>3 DEF Apart
    <3> QED BY <3>1, <3>2, <3>4 DEF u, v
  <2> QED BY <1>4, <2>1, <2>2, <2>3
<1>6. ASSUME NEW x, Behind(ks, au, a, x), Behind(ks, au, b, x), NEW i \in 1..(n + m)
      PROVE  Quiet(ks, au, x, c[i].hi)
  <2>1. CASE i \in 1..n
    BY <1>1, <1>2, <1>6, <2>1 DEF Behind
  <2>2. CASE i - n \in 1..m
    <3>0. i = n + (i - n)
      BY <1>1
    <3>1. c[i] = b[i - n]
      BY <1>3, <2>2, <3>0
    <3> DEFINE u == i - n
    <3>2. u \in DOMAIN b
      BY <1>1, <2>2
    <3> HIDE DEF u
    <3>3. Quiet(ks, au, x, b[u].hi)
      BY <1>6, <3>2 DEF Behind
    <3> QED BY <3>1, <3>3 DEF u
  <2> QED BY <1>4, <2>1, <2>2
<1> QED BY <1>1, <1>5, <1>6 DEF Apart, Behind, c

\* A flush puts the open span after the others.
LEMMA FlushedApart ==
  ASSUME NEW t \in Nat, NEW g \in GroupType(t), NEW ks, NEW au, GroupApart(ks, au, g)
  PROVE  /\ Apart(ks, au, Flushed(g))
         /\ \A x : GroupBehind(ks, au, g, x) => Behind(ks, au, Flushed(g), x)
<1>1. g.spans \in Seq(Span(t)) /\ g.cur \in Stretch /\ g.cur.e - g.cur.s <= t
  BY DEF GroupType
<1>2. CASE g.cur = NoSpan
  BY <1>2 DEF Flushed, GroupApart, GroupBehind
<1>3. CASE g.cur # NoSpan
  <2> DEFINE d == [lo |-> g.cur.s, hi |-> g.cur.e, seam |-> FALSE]
             a == g.spans
  <2>1. d \in Span(t) /\ d.lo = g.cur.s /\ d.hi = g.cur.e
    BY <1>1 DEF Span, Stretch
  <2>2. Flushed(g) = Append(a, d)
    BY <1>3 DEF Flushed
  <2>3. Append(a, d) = a \o <<d>>
    <3> HIDE DEF a, d
    <3> QED BY <1>1 DEF a
  <2> DEFINE b == <<d>>
  <2>4. b \in Seq(Span(t)) /\ DOMAIN b = {1} /\ b[1] = d
    <3> HIDE DEF d
    <3> QED BY <2>1
  <2>5. Apart(ks, au, a) /\ Behind(ks, au, a, g.cur.s)
    BY <1>3 DEF GroupApart
  <2>6. Flushed(g) = a \o b /\ a \in Seq(Span(t))
    BY <1>1, <2>2, <2>3
  <2> HIDE DEF a, b, d
  <2>7. Apart(ks, au, b)
    BY <2>4 DEF Apart
  <2>8. \A j \in DOMAIN b : Behind(ks, au, a, b[j].lo)
    BY <2>1, <2>4, <2>5
  <2>9. /\ Apart(ks, au, a \o b)
        /\ \A x : Behind(ks, au, a, x) /\ Behind(ks, au, b, x) => Behind(ks, au, a \o b, x)
    BY <2>4, <2>5, <2>6, <2>7, <2>8, ConcatApart
  <2>10. \A x : GroupBehind(ks, au, g, x) => Behind(ks, au, a, x) /\ Behind(ks, au, b, x)
    BY <1>3, <2>1, <2>4 DEF GroupBehind, Behind, a
  <2> QED BY <2>6, <2>9, <2>10
<1> QED BY <1>2, <1>3

\* One turn of the loop keeps the spans apart, and what comes after the
\* region it is at stays after them.
LEMMA GroupedApart ==
  ASSUME NEW ks, NEW au, NEW g \in GroupType(Target), NEW r \in Stretch, r.s < r.e,
         GroupApart(ks, au, g), GroupBehind(ks, au, g, r.s)
  PROVE  LET h == Grouped(g, r, Target, SegOverlap)
         IN /\ GroupApart(ks, au, h)
            /\ \A x \in Int : GroupBehind(ks, au, g, x) /\ Quiet(ks, au, x, r.e) => GroupBehind(ks, au, h, x)
<1> DEFINE h == Grouped(g, r, Target, SegOverlap)
           F == Flushed(g)
           P == Pieces(r, Target, SegOverlap)
<1>1. /\ Target \in Nat \ {0} /\ SegOverlap \in Nat /\ SegOverlap < Target
      /\ r.s \in Int /\ r.e \in Int
  BY TargetAssumption DEF Stretch
<1>2. F \in Seq(Span(Target))
  BY <1>1, FlushKeeps
<1>3. Apart(ks, au, F) /\ \A x : GroupBehind(ks, au, g, x) => Behind(ks, au, F, x)
  BY <1>1, FlushedApart
<1>4. g = [spans |-> g.spans, cur |-> g.cur] /\ g.cur = [s |-> g.cur.s, e |-> g.cur.e]
  BY DEF GroupType, Stretch
<1>5. CASE r.e - r.s > Target
  <2>1. h = [spans |-> F \o P, cur |-> NoSpan]
    BY <1>5 DEF Grouped
  <2>2. /\ P \in Seq(Span(Target))
        /\ \A k \in DOMAIN P : r.s <= P[k].lo /\ P[k].hi <= r.e
        /\ Apart(ks, au, P)
    BY <1>1, <1>5, PiecesFitAndCover, PiecesApart
  <2>3. \A k \in DOMAIN P : P[k].lo \in Int /\ P[k].hi \in Int
    <3> HIDE DEF P
    <3>1. \A k \in DOMAIN P : P[k] \in Span(Target)
      BY <2>2
    <3> QED BY <3>1 DEF Span
  <2>4. \A i \in DOMAIN F : F[i].hi \in Int
    <3> HIDE DEF F
    <3>1. \A k \in DOMAIN F : F[k] \in Span(Target)
      BY <1>2
    <3> QED BY <3>1 DEF Span
  <2> HIDE DEF F, P
  <2>5. \A k \in DOMAIN P : Behind(ks, au, F, P[k].lo)
    <3> SUFFICES ASSUME NEW k \in DOMAIN P, NEW i \in DOMAIN F
                 PROVE  Quiet(ks, au, P[k].lo, F[i].hi)
      BY DEF Behind
    <3>1. Quiet(ks, au, r.s, F[i].hi)
      BY <1>3 DEF Behind
    <3> DEFINE y == F[i].hi
               v == P[k].lo
               z == r.s
    <3>2. Quiet(ks, au, z, y) /\ y \in Int /\ v \in Int /\ z \in Int /\ z <= v /\ y <= y
      BY <1>1, <2>2, <2>3, <2>4, <3>1
    <3> HIDE DEF y, v, z
    <3>3. Quiet(ks, au, v, y)
      BY ONLY <3>2, QuietLess
    <3> QED BY <3>3 DEF y, v
  <2>6. /\ Apart(ks, au, F \o P)
        /\ \A x : Behind(ks, au, F, x) /\ Behind(ks, au, P, x) => Behind(ks, au, F \o P, x)
    BY <1>2, <1>3, <2>2, <2>5, ConcatApart
  <2>7. \A x \in Int : Quiet(ks, au, x, r.e) => Behind(ks, au, P, x)
    <3> SUFFICES ASSUME NEW x \in Int, Quiet(ks, au, x, r.e), NEW i \in DOMAIN P
                 PROVE  Quiet(ks, au, x, P[i].hi)
      BY DEF Behind
    <3> DEFINE y == P[i].hi
               z == r.e
    <3>1. Quiet(ks, au, x, z) /\ y \in Int /\ z \in Int /\ y <= z /\ x <= x
      BY <1>1, <2>2, <2>3
    <3> HIDE DEF y, z
    <3>2. Quiet(ks, au, x, y)
      BY ONLY <3>1, x \in Int, QuietLess
    <3> QED BY <3>2 DEF y
  <2> QED BY <1>3, <2>1, <2>6, <2>7 DEF GroupApart, GroupBehind
<1>6. CASE ~(r.e - r.s > Target) /\ g.cur # NoSpan /\ r.e - g.cur.s <= Target
  <2> DEFINE c == [s |-> g.cur.s, e |-> r.e]
  <2>1. h = [spans |-> g.spans, cur |-> c]
    BY <1>4, <1>6 DEF Grouped
  <2>2. c.s = g.cur.s /\ c.e = r.e
    OBVIOUS
  <2> HIDE DEF c
  <2>3. h.spans = g.spans /\ h.cur = c
    BY <2>1
  <2> HIDE DEF h
  <2> QED BY <1>6, <2>2, <2>3 DEF GroupApart, GroupBehind, h
<1>7. CASE ~(r.e - r.s > Target) /\ ~(g.cur # NoSpan /\ r.e - g.cur.s <= Target)
  <2>1. h = [spans |-> F, cur |-> r]
    BY <1>7 DEF Grouped
  <2>2. h.spans = F /\ h.cur = r
    BY <2>1
  <2> HIDE DEF h, F
  <2> QED BY <1>3, <2>2 DEF GroupApart, GroupBehind, h
<1> QED BY <1>5, <1>6, <1>7

\* Spans are apart, and the regions that the grouping has not reached lie after
\* them and after each other.
AfterEach(ks, au, rest) == \A q, r \in rest : q.s < r.s => Quiet(ks, au, r.s, q.e)

ApartInv ==
  /\ GroupApart(kept, audio, group) /\ AfterEach(kept, audio, todo)
  /\ \A r \in todo : GroupBehind(kept, audio, group, r.s)

LEMMA NoneApart ==
  ASSUME NEW ks, NEW au
  PROVE  GroupApart(ks, au, Ungrouped) /\ \A x : GroupBehind(ks, au, Ungrouped, x)
BY DEF GroupApart, GroupBehind, Apart, Behind, Ungrouped

LEMMA NextApart ==
  ASSUME ChunkInv, SpansInv, ApartInv, [Next]_vars
  PROVE  ApartInv'
<1>1. CASE Preprocess
  <2>1. group' = Ungrouped /\ todo' = {}
    BY <1>1 DEF Preprocess, SpansInv
  <2> QED BY <2>1, NoneApart DEF ApartInv, AfterEach
<1>2. CASE Detect
  <2>1. /\ group' = Ungrouped /\ todo' = Padded(Regions(kept)) /\ kept' = kept /\ audio' = audio
        /\ Len(kept) \in Nat
    BY <1>2 DEF Detect, ChunkInv, FitInv
  <2>2. AfterEach(kept, audio, Padded(Regions(kept)))
    BY <2>1, PaddedQuiet DEF AfterEach
  <2> QED BY <2>1, <2>2, NoneApart DEF ApartInv
<1>3. CASE GroupRegion
  <2>1. /\ stage = "group" /\ kept' = kept /\ audio' = audio
        /\ Len(kept) \in Nat /\ group \in GroupType(Target) /\ todo \subseteq Padded(Regions(kept))
    BY <1>3 DEF GroupRegion, ChunkInv, FitInv, CoverInv, Grouping, PaddedRegion, Region
  <2>2. PICK r \in todo : /\ \A q \in todo : r.s <= q.s
                          /\ todo' = todo \ {r}
                          /\ group' = Grouped(group, r, Target, SegOverlap)
    BY <1>3 DEF GroupRegion
  <2>3. /\ \A q \in todo : q \in Stretch /\ q.s < q.e
        /\ \A p, q \in todo : p.s <= q.s => p = q \/ p.e <= q.e
    BY <2>1, PaddedInOrder
  <2>4. \A q \in todo \ {r} : r.s < q.s /\ q.s \in Int
    <3> TAKE q \in todo \ {r}
    <3>1. /\ q \in Stretch /\ r \in Stretch /\ r.s <= q.s /\ r # q
          /\ (r.s <= q.s => r.e <= q.e) /\ (q.s <= r.s => q.e <= r.e)
      BY <2>2, <2>3
    <3>2. r.s \in Int /\ q.s \in Int /\ r.e \in Int /\ q.e \in Int /\ (r.s # q.s \/ r.e # q.e)
      BY <3>1 DEF Stretch
    <3> QED BY <3>1, <3>2
  <2>5. /\ GroupApart(kept, audio, group) /\ GroupBehind(kept, audio, group, r.s)
        /\ r \in Stretch /\ r.s < r.e
    BY <2>3 DEF ApartInv
  <2>6. /\ GroupApart(kept, audio, group')
        /\ \A x \in Int : GroupBehind(kept, audio, group, x) /\ Quiet(kept, audio, x, r.e)
                            => GroupBehind(kept, audio, group', x)
    BY <2>1, <2>2, <2>5, GroupedApart
  <2>7. \A q \in todo \ {r} : GroupBehind(kept, audio, group', q.s)
    <3> TAKE q \in todo \ {r}
    <3>1. Quiet(kept, audio, q.s, r.e) /\ GroupBehind(kept, audio, group, q.s)
      BY <2>4 DEF ApartInv, AfterEach
    <3> QED BY <2>4, <2>6, <3>1
  <2>8. AfterEach(kept, audio, todo \ {r})
    BY DEF ApartInv, AfterEach
  <2> QED BY <2>1, <2>2, <2>6, <2>7, <2>8 DEF ApartInv
<1>4. CASE Chunk
  <2>1. /\ stage = "group" /\ todo = {} /\ todo' = {} /\ kept' = kept /\ audio' = audio
        /\ group' = [spans |-> Flushed(group), cur |-> NoSpan]
        /\ group \in GroupType(Target) /\ Target \in Nat
    BY <1>4, TargetAssumption DEF Chunk, ChunkInv, FitInv
  <2>2. Apart(kept, audio, Flushed(group))
    BY <2>1, FlushedApart DEF ApartInv
  <2>3. GroupApart(kept', audio', group')
    BY <2>1, <2>2 DEF GroupApart
  <2> QED BY <2>1, <2>3 DEF ApartInv, AfterEach
<1>5. CASE DecodeBatch \/ Align \/ Replace \/ Finish \/ Cancel \/ UNCHANGED vars
  <2>1. kept' = kept /\ audio' = audio /\ todo' = todo /\ group' = group
    BY <1>5 DEF DecodeBatch, Align, Replace, Finish, Cancel, vars
  <2> QED BY <2>1 DEF ApartInv
<1>6. CASE Fail \/ Stop
  <2>1. todo' = {} /\ group' = Ungrouped
    BY <1>6 DEF Fail, Stop, Unwound
  <2> QED BY <2>1, NoneApart DEF ApartInv, AfterEach
<1> QED BY <1>1, <1>2, <1>3, <1>4, <1>5, <1>6 DEF Next

-----------------------------------------------------------------------------
(* What two pieces share                                                   *)

\* Two sets of which the second starts with what the first ends with: in their
\* orders too.
LEMMA SharedOrder ==
  ASSUME NEW S \in SUBSET Nat, NEW R \in SUBSET Nat, IsFiniteSet(S), IsFiniteSet(R),
         \A v \in S \cap R : \A u \in S : v <= u => u \in R,
         \A v \in S \cap R : \A u \in R : u <= v => u \in S
  PROVE  LET n == Cardinality(S \cap R)
         IN /\ n \in Nat /\ n <= Cardinality(S) /\ n <= Cardinality(R)
            /\ \A k \in 1..n : InOrder(S)[Cardinality(S) - n + k] = InOrder(R)[k]
            /\ \A k \in 1..Cardinality(R) : InOrder(R)[k] \in S => k <= n
<1> DEFINE V == S \cap R
           n == Cardinality(V)
           s == Cardinality(S)
           r == Cardinality(R)
           Upto(T, u) == {v \in T : v <= u}
<1>1. /\ IsFiniteSet(V) /\ n \in Nat /\ s \in Nat /\ r \in Nat /\ n <= s /\ n <= r
  <2>1. V \subseteq S /\ V \subseteq R
    OBVIOUS
  <2> HIDE DEF V
  <2>2. IsFiniteSet(V) /\ Cardinality(V) <= Cardinality(S) /\ Cardinality(V) <= Cardinality(R)
    BY <2>1, FS_Subset
  <2> QED BY <2>2, FS_CardinalityType
<1>2. V \in SUBSET Nat
  OBVIOUS
<1>3. \A v \in V : /\ v \in S /\ v \in R /\ v \in Nat
                   /\ \A u \in S : v <= u => u \in V
                   /\ \A u \in R : u <= v => u \in V
  OBVIOUS
<1>4. \A u \in S : u \in R => u \in V
  OBVIOUS
<1>5. S \cap R = V
  OBVIOUS
<1> HIDE DEF V
<1>6. ASSUME NEW v \in V
      PROVE  Upto(R, v) = Upto(V, v)
  BY <1>3
<1>7. ASSUME NEW v \in V
      PROVE  Cardinality(Upto(S, v)) = s - n + Cardinality(Upto(V, v))
  <2>1. Upto(S, v) = (S \ V) \cup Upto(V, v)
    <3>1. \A u \in S \ V : u <= v
      <4> TAKE u \in S \ V
      <4>1. u \in Nat /\ v \in Nat /\ ~(v <= u)
        BY <1>3
      <4> QED BY <4>1
    <3> QED BY <1>3, <3>1
  <2>2. (S \ V) \cap Upto(V, v) = {}
    OBVIOUS
  <2>3. IsFiniteSet(S \ V) /\ Cardinality(S \ V) = s - n
    <3>1. S \cap V = V
      BY <1>3
    <3> QED BY <3>1, FS_Difference
  <2>4. IsFiniteSet(Upto(V, v))
    BY <1>1, FS_Subset
  <2> DEFINE A == S \ V
             B == Upto(V, v)
  <2>5. IsFiniteSet(A) /\ IsFiniteSet(B) /\ A \cap B = {} /\ Upto(S, v) = A \cup B /\ Cardinality(A) = s - n
    BY <2>1, <2>2, <2>3, <2>4
  <2> HIDE DEF A, B, Upto
  <2>6. Cardinality(A \cup B) = Cardinality(A) + Cardinality(B) - 0
    BY <2>5, FS_Union, FS_EmptySet
  <2>7. Cardinality(B) \in Nat
    BY <2>5, FS_CardinalityType
  <2> HIDE DEF s, n
  <2> QED BY <1>1, <2>5, <2>6, <2>7 DEF B
<1>8. /\ \A k \in 1..n : InOrder(V)[k] \in V /\ Cardinality(Upto(V, InOrder(V)[k])) = k
      /\ \A k \in 1..r : InOrder(R)[k] \in R /\ Cardinality(Upto(R, InOrder(R)[k])) = k
  <2> DEFINE f(T) == InOrder(T)
  <2>1. \A T \in SUBSET Nat : IsFiniteSet(T) =>
          /\ f(T) \in Seq(T) /\ Len(f(T)) = Cardinality(T)
          /\ \A k \in 1..Cardinality(T) : Cardinality(Upto(T, f(T)[k])) = k
    BY InOrderIs
  <2> HIDE DEF Upto, f
  <2>2. \A T \in SUBSET Nat : IsFiniteSet(T) => \A k \in 1..Cardinality(T) : f(T)[k] \in T
    BY <2>1
  <2> QED BY <1>1, <1>2, <2>1, <2>2 DEF f
<1>9. ASSUME NEW T \in SUBSET Nat, IsFiniteSet(T), NEW u \in T
      PROVE  InOrder(T)[Cardinality(Upto(T, u))] = u
  <2>1. PICK i \in 1..Cardinality(T) : InOrder(T)[i] = u
    BY <1>9, InOrderIs
  <2>2. Cardinality(Upto(T, InOrder(T)[i])) = i
    BY <1>9, InOrderIs
  <2> HIDE DEF Upto
  <2> QED BY <2>1, <2>2
<1> HIDE DEF n, s, r, Upto
<1>10. ASSUME NEW k \in 1..n
       PROVE  InOrder(S)[s - n + k] = InOrder(R)[k]
  <2> DEFINE v == InOrder(V)[k]
  <2>1. v \in V /\ Cardinality(Upto(V, v)) = k
    BY <1>8
  <2> HIDE DEF v
  <2>2. v \in S /\ v \in R
    BY <1>3, <2>1
  <2>3. InOrder(R)[k] = v
    BY <1>6, <1>9, <2>1, <2>2
  <2>4. InOrder(S)[s - n + k] = v
    BY <1>7, <1>9, <2>1, <2>2
  <2> QED BY <2>3, <2>4
<1>11. ASSUME NEW k \in 1..r, InOrder(R)[k] \in S
       PROVE  k <= n
  <2> DEFINE v == InOrder(R)[k]
  <2>1. v \in R /\ v \in V /\ Cardinality(Upto(R, v)) = k
    BY <1>4, <1>8, <1>11
  <2> HIDE DEF v
  <2>2. Cardinality(Upto(V, v)) = k
    BY <1>6, <2>1
  <2>3. Cardinality(Upto(V, v)) <= n
    <3>1. Upto(V, v) \subseteq V
      BY DEF Upto
    <3> QED BY <1>1, <3>1, FS_Subset DEF n
  <2> QED BY <2>2, <2>3
<1> QED BY <1>1, <1>5, <1>10, <1>11 DEF n, s, r

\* The units of a stretch in which something is said.
Uttered(c) == {u \in Units(kept, c) : audio[u] # Silence}

\* What is heard of a stretch, word by word.
LEMMA HeardWords ==
  ASSUME KeptInOrder, NEW c, Bounded(c)
  PROVE  /\ Uttered(c) \in SUBSET Nat /\ IsFiniteSet(Uttered(c)) /\ Cardinality(Uttered(c)) \in Nat
         /\ Uttered(c) \subseteq 1..Length
         /\ Len(Heard(c, TRUE)) = Cardinality(Uttered(c))
         /\ DOMAIN Heard(c, TRUE) = 1..Cardinality(Uttered(c))
         /\ \A k \in 1..Cardinality(Uttered(c)) :
              /\ InOrder(Uttered(c))[k] \in Uttered(c)
              /\ Heard(c, TRUE)[k] = [at |-> InOrder(Uttered(c))[k], word |-> audio[InOrder(Uttered(c))[k]], ko |-> TRUE]
<1> DEFINE S == Uttered(c)
           u == InOrder(S)
<1>1. Units(kept, c) \subseteq 1..Length
  BY UnitsAreUnits
<1>2. S \subseteq 1..Length
  BY <1>1 DEF Uttered
<1>3. Length \in Nat /\ IsFiniteSet(1..Length)
  <2>1. Length \in Nat /\ 1 \in Int /\ Length \in Int
    BY BoundsAreNumbers
  <2>2. IsFiniteSet(1..Length)
    BY <2>1, FS_Interval
  <2> QED BY <2>1, <2>2
<1>4. Heard(c, TRUE) = [k \in 1..Len(u) |-> [at |-> u[k], word |-> audio[u[k]], ko |-> TRUE]]
  BY DEF Heard, Units, Uttered
<1> HIDE DEF S
<1>5. S \in SUBSET Nat /\ IsFiniteSet(S)
  <2>1. 1..Length \subseteq Nat
    BY <1>3
  <2>2. S \in SUBSET (1..Length)
    BY <1>2
  <2> QED BY <1>3, <2>1, <2>2, FS_Subset
<1>6. u \in Seq(S) /\ Len(u) = Cardinality(S) /\ Cardinality(S) \in Nat
  BY <1>5, InOrderIs
<1> HIDE DEF u
<1>7. \A k \in 1..Cardinality(S) : u[k] \in S
  BY <1>6, SeqGrows
<1> DEFINE h == Heard(c, TRUE)
<1>8. h = [k \in 1..Len(u) |-> [at |-> u[k], word |-> audio[u[k]], ko |-> TRUE]]
  BY <1>4
<1> HIDE DEF h
<1>9. /\ Len(h) = Cardinality(S) /\ DOMAIN h = 1..Cardinality(S)
      /\ \A k \in 1..Cardinality(S) : h[k] = [at |-> u[k], word |-> audio[u[k]], ko |-> TRUE]
  BY <1>6, <1>8
<1> QED BY <1>2, <1>5, <1>6, <1>7, <1>9 DEF S, u, h

\* Each is the unit of a frame, and later frames have later units.
LEMMA UnitsInOrder ==
  ASSUME KeptInOrder, NEW c, Bounded(c), NEW u \in Units(kept, c)
  PROVE  \E p \in 0..(Len(kept) - 1) : c.lo <= p /\ p < c.hi /\ u = kept[p + 1]
<1>1. PICK p \in c.lo .. (c.hi - 1) : u = kept[p + 1]
  BY DEF Units
<1>2. c.lo \in Nat /\ c.hi \in Int /\ c.hi <= Len(kept) /\ Len(kept) \in Nat
  BY DEF Bounded, KeptInOrder
<1>3. p \in 0..(Len(kept) - 1) /\ c.lo <= p /\ p < c.hi
  <2> DEFINE a == c.lo
             b == c.hi
             n == Len(kept)
  <2>1. a \in Nat /\ b \in Int /\ b <= n /\ n \in Nat /\ p \in a .. (b - 1)
    BY <1>2
  <2> HIDE DEF a, b, n
  <2>2. p \in 0..(n - 1) /\ a <= p /\ p < b
    BY ONLY <2>1
  <2> QED BY <2>2 DEF a, b, n
<1> QED BY <1>1, <1>3

LEMMA KeptGrows ==
  ASSUME KeptInOrder, NEW p \in 0..(Len(kept) - 1), NEW q \in 0..(Len(kept) - 1)
  PROVE  kept[p + 1] <= kept[q + 1] <=> p <= q
<1>1. Len(kept) \in Nat /\ DOMAIN kept = 1..Len(kept) /\ \A i \in 1..Len(kept) : kept[i] \in 1..Length
  <2>1. kept \in Seq(1..Length)
    BY DEF KeptInOrder
  <2> QED BY ONLY <2>1, SeqGrows
<1>2. p + 1 \in 1..Len(kept) /\ q + 1 \in 1..Len(kept) /\ p \in Int /\ q \in Int
  BY <1>1
<1>3. \A i, j \in 1..Len(kept) : i < j => kept[i] < kept[j]
  BY <1>1 DEF KeptInOrder
<1>4. kept[p + 1] \in Int /\ kept[q + 1] \in Int
  BY <1>1, <1>2
<1>5. p < q => kept[p + 1] < kept[q + 1]
  <2> HAVE p < q
  <2>1. p + 1 < q + 1
    BY <1>2
  <2> QED BY <1>2, <1>3, <2>1
<1>6. q < p => kept[q + 1] < kept[p + 1]
  <2> HAVE q < p
  <2>1. q + 1 < p + 1
    BY <1>2
  <2> QED BY <1>2, <1>3, <2>1
<1>7. p < q \/ q < p \/ p = q
  BY <1>2
<1> QED BY <1>2, <1>4, <1>5, <1>6, <1>7

\* Stretches with nothing said between the start of the second and the end of
\* the first have no word in common.
LEMMA QuietUttersNone ==
  ASSUME KeptInOrder, NEW c, Bounded(c), NEW d, Bounded(d), Quiet(kept, audio, d.lo, c.hi)
  PROVE  Uttered(c) \cap Uttered(d) = {}
<1> SUFFICES ASSUME NEW u \in Uttered(c), u \in Uttered(d)
             PROVE  FALSE
  OBVIOUS
<1>1. u \in Units(kept, c) /\ u \in Units(kept, d) /\ audio[u] # Silence
  BY DEF Uttered
<1>2. PICK p \in 0..(Len(kept) - 1) : c.lo <= p /\ p < c.hi /\ u = kept[p + 1]
  BY <1>1, UnitsInOrder
<1>3. PICK q \in 0..(Len(kept) - 1) : d.lo <= q /\ q < d.hi /\ u = kept[q + 1]
  BY <1>1, UnitsInOrder
<1>4. u \in 1..Length
  BY <1>1, UnitsAreUnits
<1>5. u <= u
  BY <1>4, BoundsAreNumbers
<1>6. p <= q /\ q <= p
  BY <1>2, <1>3, <1>5, KeptGrows
<1>7. p = q
  BY <1>6
<1> QED BY <1>1, <1>2, <1>3, <1>7 DEF Quiet

\* What two pieces share ends the first, starts the second, and is no more than
\* the overlap.
LEMMA SeamShares ==
  ASSUME KeptInOrder, NEW c, Bounded(c), NEW d, Bounded(d), Seam(c, d)
  PROVE  /\ \A v \in Uttered(c) \cap Uttered(d) : \A u \in Uttered(c) : v <= u => u \in Uttered(d)
         /\ \A v \in Uttered(c) \cap Uttered(d) : \A u \in Uttered(d) : u <= v => u \in Uttered(c)
         /\ Cardinality(Uttered(c) \cap Uttered(d)) <= SegOverlap
<1>1. /\ c.lo \in Nat /\ c.hi \in Int /\ d.lo \in Nat /\ d.hi \in Int /\ SegOverlap \in Nat
      /\ c.lo <= d.lo /\ c.hi <= d.hi /\ c.hi - d.lo <= SegOverlap
  BY BoundsAreNumbers DEF Bounded, Seam
<1> DEFINE F(e, u) == \E p \in 0..(Len(kept) - 1) : e.lo <= p /\ p < e.hi /\ u = kept[p + 1]
<1>2. \A u \in Uttered(c) : audio[u] # Silence /\ F(c, u)
  BY UnitsInOrder DEF Uttered
<1>3. \A u \in Uttered(d) : audio[u] # Silence /\ F(d, u)
  BY UnitsInOrder DEF Uttered
<1>4. ASSUME NEW e, e.lo \in Nat, e.hi \in Int, NEW p \in Int, e.lo <= p, p < e.hi, audio[kept[p + 1]] # Silence
      PROVE  kept[p + 1] \in Uttered(e)
  <2>1. p \in e.lo .. (e.hi - 1)
    BY <1>4
  <2> QED BY <1>4, <2>1 DEF Uttered, Units
<1>5. \A e : \A u : u \in Uttered(e) => u \in Units(kept, e)
  BY DEF Uttered
<1>6. ASSUME NEW v \in Uttered(c), v \in Uttered(d), NEW u \in Uttered(c), v <= u
      PROVE  u \in Uttered(d)
  <2>1. PICK p \in 0..(Len(kept) - 1) : d.lo <= p /\ p < d.hi /\ v = kept[p + 1]
    BY <1>3, <1>6
  <2>2. PICK q \in 0..(Len(kept) - 1) : c.lo <= q /\ q < c.hi /\ u = kept[q + 1]
    BY <1>2
  <2>3. p <= q
    BY <1>6, <2>1, <2>2, KeptGrows
  <2>4. p \in Int /\ q \in Int
    OBVIOUS
  <2>5. d.lo <= q /\ q < d.hi
    BY ONLY <1>1, <2>1, <2>2, <2>3, <2>4
  <2> QED BY <1>1, <1>2, <1>4, <2>2, <2>4, <2>5
<1>7. ASSUME NEW v \in Uttered(d), v \in Uttered(c), NEW u \in Uttered(d), u <= v
      PROVE  u \in Uttered(c)
  <2>1. PICK p \in 0..(Len(kept) - 1) : c.lo <= p /\ p < c.hi /\ v = kept[p + 1]
    BY <1>2, <1>7
  <2>2. PICK q \in 0..(Len(kept) - 1) : d.lo <= q /\ q < d.hi /\ u = kept[q + 1]
    BY <1>3
  <2>3. q <= p
    BY <1>7, <2>1, <2>2, KeptGrows
  <2>4. p \in Int /\ q \in Int
    OBVIOUS
  <2>5. c.lo <= q /\ q < c.hi
    BY ONLY <1>1, <2>1, <2>2, <2>3, <2>4
  <2> QED BY <1>1, <1>3, <1>4, <2>2, <2>4, <2>5
<1>8. Cardinality(Uttered(c) \cap Uttered(d)) <= SegOverlap
  <2> DEFINE V == Uttered(c) \cap Uttered(d)
             I == d.lo .. (c.hi - 1)
             T == {kept[p + 1] : p \in I}
             f == [p \in I |-> kept[p + 1]]
  <2>1. V \subseteq T
    <3> SUFFICES ASSUME NEW u \in Uttered(c), u \in Uttered(d)
                 PROVE  u \in T
      OBVIOUS
    <3>1. PICK p \in 0..(Len(kept) - 1) : c.lo <= p /\ p < c.hi /\ u = kept[p + 1]
      BY <1>2
    <3>2. PICK q \in 0..(Len(kept) - 1) : d.lo <= q /\ q < d.hi /\ u = kept[q + 1]
      BY <1>3
    <3>3. p = q
      <4>1. u \in 1..Length
        BY UnitsAreUnits DEF Uttered
      <4>2. u <= u
        BY <4>1, BoundsAreNumbers
      <4>3. p <= q /\ q <= p
        BY <3>1, <3>2, <4>2, KeptGrows
      <4> QED BY <4>3
    <3>4. p \in I
      BY <1>1, <3>1, <3>2, <3>3
    <3> QED BY <3>1, <3>4
  <2>2. IsFiniteSet(I) /\ Cardinality(I) <= SegOverlap
    <3>1. d.lo \in Int /\ c.hi - 1 \in Int
      BY <1>1
    <3>2. /\ IsFiniteSet(I)
          /\ Cardinality(I) = IF d.lo > c.hi - 1 THEN 0 ELSE (c.hi - 1) - d.lo + 1
      BY <3>1, FS_Interval
    <3> HIDE DEF I
    <3> QED BY <1>1, <3>2
  <2>3. f \in Surjection(I, T)
    <3> HIDE DEF I
    <3> QED BY DEF Surjection
  <2> HIDE DEF f, T, I
  <2>4. IsFiniteSet(T) /\ Cardinality(T) <= Cardinality(I)
    BY <2>2, <2>3, FS_Surjection
  <2> HIDE DEF V
  <2>5. Cardinality(V) <= Cardinality(T)
    BY <2>1, <2>4, FS_Subset
  <2>6. Cardinality(V) \in Nat /\ Cardinality(T) \in Nat /\ Cardinality(I) \in Nat
    BY <2>1, <2>2, <2>4, FS_CardinalityType, FS_Subset
  <2>7. Cardinality(V) <= SegOverlap
    BY <1>1, <2>2, <2>4, <2>5, <2>6
  <2> QED BY <2>7 DEF V
<1> QED BY <1>6, <1>7, <1>8

\* The merge finds what two pieces share, when the end of the text before is
\* still there and the overlap is no longer than the merge looks: what it
\* leaves of the later text was not said in the piece before.
LEMMA SeamFound ==
  ASSUME KeptInOrder, NEW c, Bounded(c), NEW d, Bounded(d), Seam(c, d), SegOverlap <= DedupMax,
         NEW A, Heard(c, TRUE) \in Seq(A), Heard(d, TRUE) \in Seq(A),
         NEW x \in 0..Len(Heard(c, TRUE)), \A k \in 1..x : Heard(c, TRUE)[k].at \notin Uttered(d),
         NEW k \in 1..Len(Heard(d, TRUE)),
         k > SeamLength(SubSeq(Heard(c, TRUE), x + 1, Len(Heard(c, TRUE))), Heard(d, TRUE))
  PROVE  Heard(d, TRUE)[k].at \notin Uttered(c)
<1> DEFINE S == Uttered(c)
           R == Uttered(d)
           t == Heard(c, TRUE)
           b == Heard(d, TRUE)
           s == Cardinality(S)
           r == Cardinality(R)
           n == Cardinality(S \cap R)
           a == SubSeq(t, x + 1, Len(t))
           m == Len(a)
<1>1. /\ S \in SUBSET Nat /\ IsFiniteSet(S) /\ s \in Nat /\ Len(t) = s /\ DOMAIN t = 1..s
      /\ \A i \in 1..s : InOrder(S)[i] \in S /\ t[i] = [at |-> InOrder(S)[i], word |-> audio[InOrder(S)[i]], ko |-> TRUE]
  BY HeardWords
<1>2. /\ R \in SUBSET Nat /\ IsFiniteSet(R) /\ r \in Nat /\ Len(b) = r /\ DOMAIN b = 1..r
      /\ \A i \in 1..r : InOrder(R)[i] \in R /\ b[i] = [at |-> InOrder(R)[i], word |-> audio[InOrder(R)[i]], ko |-> TRUE]
  BY HeardWords
<1>3. /\ \A v \in S \cap R : \A u \in S : v <= u => u \in R
      /\ \A v \in S \cap R : \A u \in R : u <= v => u \in S
      /\ n <= SegOverlap
  BY SeamShares
<1> HIDE DEF S, R
<1>4. /\ n \in Nat /\ n <= s /\ n <= r
      /\ \A i \in 1..n : InOrder(S)[s - n + i] = InOrder(R)[i]
      /\ \A i \in 1..r : InOrder(R)[i] \in S => i <= n
  BY <1>1, <1>2, <1>3, SharedOrder
<1>5. t \in Seq(A) /\ b \in Seq(A) /\ x \in 0..s /\ k \in 1..r /\ k > SeamLength(a, b)
      /\ \A i \in 1..x : t[i].at \notin R
  BY <1>1, <1>2 DEF R
<1> HIDE DEF t, b, s, r, n
<1>6. \A i \in 1..n : s - n + i \in 1..s /\ i \in 1..r /\ t[s - n + i] = b[i] /\ t[s - n + i].at \in R
  <2> TAKE i \in 1..n
  <2>1. s - n + i \in 1..s /\ i \in 1..r
    BY <1>1, <1>2, <1>4
  <2>2. InOrder(S)[s - n + i] = InOrder(R)[i]
    BY <1>4
  <2> DEFINE j == s - n + i
             p == InOrder(S)
             q == InOrder(R)
  <2>4. /\ j \in 1..s /\ i \in 1..r /\ p[j] = q[i]
        /\ t[j] = [at |-> p[j], word |-> audio[p[j]], ko |-> TRUE]
        /\ b[i] = [at |-> q[i], word |-> audio[q[i]], ko |-> TRUE]
    BY <1>1, <1>2, <2>1, <2>2
  <2> HIDE DEF j, p, q
  <2>5. t[j].at = q[i] /\ t[j] = b[i]
    BY ONLY <2>4
  <2>3. t[s - n + i].at = InOrder(R)[i] /\ t[s - n + i] = b[i]
    BY <2>5 DEF j, q
  <2> QED BY <1>2, <2>1, <2>3
<1>7. x + n <= s
  <2> SUFFICES ASSUME x + n > s
               PROVE  FALSE
    BY <1>1, <1>4, <1>5
  <2> DEFINE i == x - (s - n)
  <2>1. i \in 1..n /\ s - n + i = x /\ x \in 1..x
    BY <1>1, <1>4, <1>5
  <2> HIDE DEF i
  <2>2. t[x].at \in R
    BY <1>6, <2>1
  <2> QED BY <1>5, <2>1, <2>2
<1>8. a \in Seq(A) /\ m = s - x /\ \A i \in 1..m : a[i] = t[x + i]
  BY <1>1, <1>5
<1> HIDE DEF a, m
<1>9. n # 0 => n \in SeamFits(a, b)
  <2> HAVE n # 0
  <2>1. DedupMax \in Nat /\ SegOverlap \in Nat /\ m \in Nat
    BY <1>1, <1>5, <1>8, CountAssumption, BoundsAreNumbers
  <2>2. n \in 1..MinOf(DedupMax, MinOf(m, r))
    BY <1>1, <1>2, <1>3, <1>4, <1>5, <1>7, <1>8, <2>1 DEF MinOf
  <2> DEFINE y == SubSeq(a, m - n + 1, m)
             z == SubSeq(b, 1, n)
  <2>3. n <= m /\ n \in Nat /\ m \in Nat /\ n <= r /\ r \in Nat
    BY <1>1, <1>2, <1>4, <1>5, <1>7, <1>8
  <2>4. Len(a) = m /\ Len(b) = r
    BY <1>2 DEF m
  <2>5. DOMAIN y = 1..n /\ \A i \in 1..n : y[i] = a[m - n + i]
    <3> DEFINE p == m - n
    <3>1. a \in Seq(A) /\ p \in Nat /\ n \in Nat /\ Len(a) = p + n /\ m = p + n
      BY <1>8, <2>3, <2>4
    <3> HIDE DEF p
    <3>2. DOMAIN SubSeq(a, p + 1, p + n) = 1..n /\ \A i \in 1..n : SubSeq(a, p + 1, p + n)[i] = a[p + i]
      BY ONLY <3>1
    <3> QED BY <3>1, <3>2 DEF p
  <2>6. DOMAIN z = 1..n /\ \A i \in 1..n : z[i] = b[i]
    <3>1. b \in Seq(A) /\ n \in Nat /\ n <= Len(b)
      BY <1>5, <2>3, <2>4
    <3>2. DOMAIN SubSeq(b, 1, n) = 1..n /\ \A i \in 1..n : SubSeq(b, 1, n)[i] = b[i]
      BY ONLY <3>1
    <3> QED BY <3>2
  <2>7. \A i \in 1..n : a[m - n + i] = b[i]
    <3> TAKE i \in 1..n
    <3>1. m - n + i \in 1..m /\ x + (m - n + i) = s - n + i
      BY <1>1, <1>5, <1>8, <2>3
    <3>2. a[m - n + i] = t[s - n + i]
      BY <1>8, <3>1
    <3> QED BY <1>6, <3>2
  <2> HIDE DEF y, z
  <2>8. \A i \in 1..n : y[i] = z[i]
    BY <2>5, <2>6, <2>7
  <2>9. Tokens(y) = Tokens(z)
    BY ONLY <2>5, <2>6, <2>8 DEF Tokens
  <2> QED BY <2>2, <2>4, <2>9 DEF SeamFits, y, z
<1>10. \A j \in SeamFits(a, b) : j <= SeamLength(a, b)
  BY <1>5, <1>8, SeamChosen
<1>11. SeamLength(a, b) \in 0..r
  BY <1>2, <1>5, <1>8, SeamWithin
<1>12. n < k
  <2> DEFINE L == SeamLength(a, b)
  <2>1. L \in 0..r /\ k > L /\ (n # 0 => n <= L)
    BY <1>5, <1>9, <1>10, <1>11
  <2> HIDE DEF L
  <2> QED BY <1>2, <1>4, <1>5, <2>1
<1>13. b[k].at = InOrder(R)[k] /\ InOrder(R)[k] \notin S
  BY <1>2, <1>4, <1>5, <1>12
<1> QED BY <1>13 DEF b, S

\* What the merge leaves out of a text was said in the stretch before, when no
\* word is said twice.
LEMMA SeamInStretch ==
  ASSUME KeptInOrder, \A u \in 1..Length : audio[u] \in {Silence, u}, NEW c, Bounded(c), NEW d, Bounded(d),
         NEW A, NEW a \in Seq(A), Heard(d, TRUE) \in Seq(A),
         \A i \in DOMAIN a : a[i].at \in Uttered(c) /\ a[i].word = audio[a[i].at],
         NEW k \in 1..SeamLength(a, Heard(d, TRUE))
  PROVE  Heard(d, TRUE)[k].at \in Uttered(c)
<1> DEFINE b == Heard(d, TRUE)
           i == Len(a) - SeamLength(a, b) + k
<1>0. b \in Seq(A) /\ a \in Seq(A) /\ k \in 1..SeamLength(a, b)
  OBVIOUS
<1> HIDE DEF b
<1>1. i \in DOMAIN a /\ Token(a[i]) = Token(b[k])
  BY ONLY <1>0, SeamRepeats
<1>2. SeamLength(a, b) \in 0..Len(b)
  BY ONLY <1>0, SeamWithin
<1>3. /\ Uttered(d) \subseteq 1..Length /\ Len(b) = Cardinality(Uttered(d)) /\ Len(b) \in Nat
      /\ \A j \in 1..Cardinality(Uttered(d)) :
           /\ InOrder(Uttered(d))[j] \in Uttered(d)
           /\ b[j] = [at |-> InOrder(Uttered(d))[j], word |-> audio[InOrder(Uttered(d))[j]], ko |-> TRUE]
  BY HeardWords DEF b
<1> DEFINE L == SeamLength(a, b)
<1>4. k \in 1..Len(b)
  <2>1. L \in 0..Len(b) /\ k \in 1..L
    BY <1>0, <1>2
  <2> HIDE DEF L
  <2> QED BY <1>3, <2>1
<1> HIDE DEF i, L
<1>5. b[k].at \in Uttered(d) /\ b[k].word = audio[b[k].at]
  BY <1>3, <1>4
<1>6. a[i].at \in Uttered(c) /\ a[i].word = audio[a[i].at]
  BY <1>1
<1>7. a[i].word = b[k].word
  BY <1>1 DEF Token
<1>8. /\ a[i].at \in 1..Length /\ audio[a[i].at] # Silence
      /\ b[k].at \in 1..Length /\ audio[b[k].at] # Silence
  <2>1. Uttered(c) \subseteq 1..Length
    BY HeardWords
  <2> QED BY <1>3, <1>5, <1>6, <2>1 DEF Uttered
<1>9. audio[a[i].at] = a[i].at /\ audio[b[k].at] = b[k].at
  BY <1>8
<1>10. a[i].at = b[k].at
  BY <1>5, <1>6, <1>7, <1>9
<1> QED BY <1>6, <1>10 DEF b

-----------------------------------------------------------------------------
(* No word comes twice                                                     *)

\* No two words of texts were said in the same unit.
EachOnce(ts) ==
  \A i, j \in DOMAIN ts : \A k \in DOMAIN ts[i] : \A l \in DOMAIN ts[j] :
    ts[i][k].at = ts[j][l].at => i = j /\ k = l

\* The merge of what is heard of spans that are apart has each word once.
LEMMA MergedOnce ==
  ASSUME KeptInOrder, SegOverlap <= DedupMax, \A u \in 1..Length : audio[u] \in {Silence, u},
         NEW n \in Nat, NEW spans, DOMAIN spans = 1..n, \A i \in 1..n : Bounded(spans[i]),
         Apart(kept, audio, spans),
         NEW ts, DOMAIN ts = 1..n, \A i \in 1..n : ts[i] = Heard(spans[i], TRUE)
  PROVE  EachOnce(Merged(spans, ts))
<1> DEFINE merged == Merged(spans, ts)
           A == WordsOf(kept, audio, Whole(kept))
           Cut(i) == Repeated(spans, ts, merged, i)
           U(i) == Uttered(spans[i])
           c(i) == Cardinality(U(i))
<1>1. \A i \in 1..n : ts[i] \in Seq(A)
  <2> TAKE i \in 1..n
  <2>1. Bounded(spans[i]) /\ ts[i] = Heard(spans[i], TRUE)
    OBVIOUS
  <2>2. Heard(spans[i], TRUE) \in TextsOf(kept, audio, spans[i])
    BY <2>1, HeardThere
  <2>3. TextsOf(kept, audio, spans[i]) \subseteq TextsOf(kept, audio, Whole(kept))
    BY <2>1, SaidSomewhere DEF Bounded
  <2> QED BY <2>1, <2>2, <2>3 DEF TextsOf
<1> HIDE DEF A
<1>2. /\ DOMAIN merged = 1..n
      /\ \A i \in 1..n : merged[i] = SubSeq(ts[i], Cut(i) + 1, Len(ts[i]))
      /\ \A i \in 1..n : merged[i] \in Seq(A) /\ Cut(i) \in 0..Len(ts[i])
  BY <1>1, MergedUnfolds, MergedFits
<1>3. \A i \in 1..n : \A k \in 1..Cut(i) : i > 1 /\ spans[i].seam /\ Cut(i) = SeamLength(merged[i - 1], ts[i])
  <2> SUFFICES ASSUME NEW i \in 1..n, NEW k \in 1..Cut(i), ~(i > 1 /\ spans[i].seam)
               PROVE  FALSE
    BY DEF Repeated
  <2>1. Cut(i) = 0
    BY DEF Repeated
  <2> HIDE DEF Cut
  <2> QED BY <2>1
<1>4. \A i \in 1..n : i > 1 /\ spans[i].seam => Cut(i) = SeamLength(merged[i - 1], ts[i])
  BY DEF Repeated
<1>5. ASSUME NEW i \in 1..n
      PROVE  /\ c(i) \in Nat /\ Len(ts[i]) = c(i) /\ DOMAIN ts[i] = 1..c(i) /\ U(i) \subseteq 1..Length
             /\ \A k \in 1..c(i) : ts[i][k].at \in U(i) /\ ts[i][k].word = audio[ts[i][k].at]
             /\ \A k, l \in 1..c(i) : k < l => ts[i][k].at < ts[i][l].at
  <2> DEFINE S == Uttered(spans[i])
             s == Cardinality(S)
             p == InOrder(S)
             h == ts[i]
  <2>1. Bounded(spans[i]) /\ h = Heard(spans[i], TRUE)
    OBVIOUS
  <2>2. /\ S \in SUBSET Nat /\ IsFiniteSet(S) /\ s \in Nat /\ S \subseteq 1..Length
        /\ Len(h) = s /\ DOMAIN h = 1..s
        /\ \A k \in 1..s : p[k] \in S /\ h[k] = [at |-> p[k], word |-> audio[p[k]], ko |-> TRUE]
    BY <2>1, HeardWords
  <2> HIDE DEF S, h
  <2>3. \A k, l \in 1..s : k < l => p[k] < p[l]
    BY <2>2, InOrderIs
  <2> HIDE DEF s, p
  <2>4. /\ s \in Nat /\ Len(h) = s /\ DOMAIN h = 1..s /\ S \subseteq 1..Length
        /\ \A k \in 1..s : h[k].at \in S /\ h[k].word = audio[h[k].at]
        /\ \A k, l \in 1..s : k < l => h[k].at < h[l].at
    BY ONLY <2>2, <2>3
  <2> QED BY <2>4 DEF S, s, h
<1> HIDE DEF merged, Cut, U, c
<1>6. ASSUME NEW i \in 1..n, NEW k \in DOMAIN merged[i]
      PROVE  /\ k \in Nat \ {0} /\ Cut(i) \in Nat /\ Cut(i) + k \in 1..c(i) /\ merged[i][k] = ts[i][Cut(i) + k]
  <2> DEFINE h == ts[i]
             x == Cut(i)
             m == merged[i]
  <2>1. h \in Seq(A) /\ x \in 0..Len(h) /\ m = SubSeq(h, x + 1, Len(h)) /\ Len(h) = c(i) /\ k \in DOMAIN m
    BY <1>1, <1>2, <1>5
  <2> HIDE DEF h, x, m
  <2>2. k \in Nat \ {0} /\ x \in Nat /\ x + k \in 1..Len(h) /\ m[k] = h[x + k]
    BY ONLY <2>1
  <2> QED BY <2>1, <2>2 DEF h, x, m
<1>7. ASSUME NEW i \in 1..n, NEW k \in DOMAIN merged[i]
      PROVE  merged[i][k].at \in U(i) /\ merged[i][k].word = audio[merged[i][k].at]
  BY <1>5, <1>6
<1>8. ASSUME NEW i \in 1..n, NEW k \in 1..Cut(i)
      PROVE  i - 1 \in 1..n /\ ts[i][k].at \in U(i - 1)
  <2>1. i > 1 /\ Cut(i) = SeamLength(merged[i - 1], ts[i])
    BY <1>3
  <2>2. i - 1 \in 1..n /\ Bounded(spans[i - 1]) /\ Bounded(spans[i])
    BY <2>1
  <2> DEFINE a == merged[i - 1]
             e == spans[i - 1]
             d == spans[i]
  <2>3. /\ a \in Seq(A) /\ Bounded(e) /\ Bounded(d) /\ ts[i] = Heard(d, TRUE) /\ Heard(d, TRUE) \in Seq(A)
        /\ k \in 1..SeamLength(a, Heard(d, TRUE))
    BY <1>1, <1>2, <2>1, <2>2
  <2>4. \A j \in DOMAIN a : a[j].at \in Uttered(e) /\ a[j].word = audio[a[j].at]
    BY <1>7, <2>2 DEF U
  <2> HIDE DEF a, e, d
  <2>5. Heard(d, TRUE)[k].at \in Uttered(e)
    BY <2>3, <2>4, SeamInStretch
  <2> QED BY <2>2, <2>3, <2>5 DEF U, e
<1>9. ASSUME NEW i \in 1..n, NEW j \in 1..n, i < j, ~(j = i + 1 /\ Seam(spans[i], spans[j]))
      PROVE  U(i) \cap U(j) = {}
  <2>1. Quiet(kept, audio, spans[j].lo, spans[i].hi)
    BY <1>9 DEF Apart
  <2>2. Bounded(spans[i]) /\ Bounded(spans[j])
    OBVIOUS
  <2> QED BY <2>1, <2>2, QuietUttersNone DEF U
<1>10. ASSUME NEW i \in 1..n, i + 1 \in 1..n, Seam(spans[i], spans[i + 1]),
              NEW k \in 1..c(i + 1), k > Cut(i + 1)
       PROVE  ts[i + 1][k].at \notin U(i)
  <2> DEFINE j == i + 1
             e == spans[i]
             d == spans[j]
             x == Cut(i)
             t == ts[i]
  <2>1. /\ j \in 1..n /\ j > 1 /\ Seam(e, d) /\ Bounded(e) /\ Bounded(d) /\ t = Heard(e, TRUE)
        /\ ts[j] = Heard(d, TRUE) /\ j - 1 = i /\ k \in 1..c(j) /\ k > Cut(j)
    <3>1. j \in 1..n /\ j > 1 /\ j - 1 = i /\ Seam(e, d) /\ k \in 1..c(j) /\ k > Cut(j)
      BY <1>10
    <3> HIDE DEF j
    <3>2. Bounded(e) /\ Bounded(d) /\ t = Heard(e, TRUE) /\ ts[j] = Heard(d, TRUE)
      BY <3>1
    <3> QED BY <3>1, <3>2
  <2>2. /\ Heard(e, TRUE) \in Seq(A) /\ Heard(d, TRUE) \in Seq(A) /\ x \in 0..Len(Heard(e, TRUE))
        /\ k \in 1..Len(Heard(d, TRUE)) /\ merged[i] = SubSeq(Heard(e, TRUE), x + 1, Len(Heard(e, TRUE)))
    <3>1. ts[i] \in Seq(A) /\ ts[j] \in Seq(A) /\ Cut(i) \in 0..Len(ts[i]) /\ Len(ts[j]) = c(j)
          /\ merged[i] = SubSeq(ts[i], Cut(i) + 1, Len(ts[i]))
      BY <1>1, <1>2, <1>5, <2>1
    <3> QED BY <2>1, <3>1
  <2>3. Cut(j) = SeamLength(merged[i], Heard(d, TRUE))
    BY <1>4, <2>1 DEF Seam
  <2>4. \A l \in 1..x : Heard(e, TRUE)[l].at \notin Uttered(d)
    <3> TAKE l \in 1..x
    <3>1. i - 1 \in 1..n /\ t[l].at \in U(i - 1)
      BY <1>8
    <3> DEFINE h == i - 1
    <3>2. h \in 1..n /\ h < j /\ j # h + 1
      BY <3>1
    <3> HIDE DEF h
    <3>4. U(h) \cap U(j) = {}
      BY <1>9, <2>1, <3>2
    <3>3. U(i - 1) \cap U(j) = {}
      BY <3>4 DEF h
    <3> QED BY <2>1, <3>1, <3>3 DEF U
  <2> HIDE DEF e, d, x, t, j
  <2>5. k > SeamLength(SubSeq(Heard(e, TRUE), x + 1, Len(Heard(e, TRUE))), Heard(d, TRUE))
    BY <2>1, <2>2, <2>3
  <2>6. Heard(d, TRUE)[k].at \notin Uttered(e)
    BY <2>1, <2>2, <2>4, <2>5, SeamFound
  <2> QED BY <2>1, <2>6 DEF U, e, j
<1>11. ASSUME NEW i \in 1..n, NEW j \in 1..n, i < j, NEW k \in DOMAIN merged[i], NEW l \in DOMAIN merged[j]
       PROVE  merged[i][k].at # merged[j][l].at
  <2>1. merged[i][k].at \in U(i) /\ merged[j][l].at \in U(j)
    BY <1>7
  <2>2. CASE ~(j = i + 1 /\ Seam(spans[i], spans[j]))
    BY <1>9, <1>11, <2>1, <2>2
  <2>3. CASE j = i + 1 /\ Seam(spans[i], spans[j])
    <3> DEFINE m == Cut(j) + l
    <3>1. m \in 1..c(j) /\ m > Cut(j) /\ merged[j][l] = ts[j][m]
      BY <1>6
    <3> HIDE DEF m
    <3>2. ts[j][m].at \notin U(i)
      BY <1>10, <2>3, <3>1
    <3> QED BY <2>1, <3>1, <3>2
  <2> QED BY <2>2, <2>3
<1>12. ASSUME NEW i \in 1..n, NEW k \in DOMAIN merged[i], NEW l \in DOMAIN merged[i],
              merged[i][k].at = merged[i][l].at
       PROVE  k = l
  <2> DEFINE x == Cut(i)
  <2>1. /\ k \in Nat /\ l \in Nat /\ x \in Nat /\ x + k \in 1..c(i) /\ x + l \in 1..c(i)
        /\ merged[i][k] = ts[i][x + k] /\ merged[i][l] = ts[i][x + l]
    BY <1>6
  <2> HIDE DEF x
  <2> DEFINE p == x + k
             q == x + l
  <2>2. p \in 1..c(i) /\ q \in 1..c(i) /\ ts[i][p].at = ts[i][q].at
    BY <1>12, <2>1
  <2>3. ts[i][p].at \in Nat
    <3>1. ts[i][p].at \in 1..Length
      BY <1>5, <2>2
    <3> QED BY <3>1, BoundsAreNumbers
  <2> HIDE DEF p, q
  <2>4. ~(p < q) /\ ~(q < p)
    BY <1>5, <2>2, <2>3
  <2>5. p = q
    BY <1>5, <2>2, <2>4
  <2> QED BY <2>1, <2>5 DEF p, q
<1>13. EachOnce(merged)
  <2> SUFFICES ASSUME NEW i \in 1..n, NEW j \in 1..n, NEW k \in DOMAIN merged[i], NEW l \in DOMAIN merged[j],
                      merged[i][k].at = merged[j][l].at
               PROVE  i = j /\ k = l
    BY <1>2 DEF EachOnce
  <2>1. i < j \/ j < i \/ i = j
    OBVIOUS
  <2> QED BY <1>11, <1>12, <2>1
<1> QED BY <1>13 DEF merged

\* Every unit holds silence, a word of its own, or the filler.
Named == \A u \in 1..Length : audio[u] \in {Silence, Filler, u}

\* Until a text drifts, each is what is heard of its stretch in Korean, and
\* nothing is decoded again.
AsHeard ==
  drifts = 0 =>
    /\ stage # "redecode"
    /\ \A k \in 1..taken : decoded[k] = Heard(inputs[k], TRUE)
    /\ stage = "merge" => \A i \in 1..Len(group.spans) : texts[i] = Heard(group.spans[i], TRUE)

OnceInv == Named /\ drifts \in Nat /\ (stage # "done" => out = <<>>) /\ AsHeard /\ OncePerWord

LEMMA SameHeard ==
  ASSUME UNCHANGED <<kept, audio>>
  PROVE  \A c, korean : Heard(c, korean)' = Heard(c, korean)
BY DEF Heard

\* A text that is all Korean is no candidate, so nothing is decoded again.
LEMMA KoreanStays ==
  ASSUME KeptInOrder, NEW n \in Nat, NEW ts, DOMAIN ts = 1..n,
         \A i \in 1..n : \E c : Bounded(c) /\ ts[i] = Heard(c, TRUE)
  PROVE  Redecoded(ts) = <<>>
<1>1. ASSUME NEW i \in 1..n
      PROVE  Korean(ts[i]) = Len(ts[i]) /\ Len(ts[i]) \in Nat
  <2>1. PICK c : Bounded(c) /\ ts[i] = Heard(c, TRUE)
    OBVIOUS
  <2> DEFINE t == ts[i]
             s == Cardinality(Uttered(c))
  <2>2. /\ s \in Nat /\ Len(t) = s /\ DOMAIN t = 1..s
        /\ \A k \in 1..s : t[k] = [at |-> InOrder(Uttered(c))[k], word |-> audio[InOrder(Uttered(c))[k]], ko |-> TRUE]
    BY <2>1, HeardWords
  <2> HIDE DEF t, s
  <2>3. {k \in DOMAIN t : t[k].ko} = 1..s
    BY <2>2
  <2>4. Cardinality(1..s) = s
    <3>1. 1 \in Int /\ s \in Int
      BY <2>2
    <3>2. Cardinality(1..s) = IF 1 > s THEN 0 ELSE s - 1 + 1
      BY <3>1, FS_Interval
    <3> QED BY <2>2, <3>2
  <2> QED BY <2>2, <2>3, <2>4 DEF Korean, t
<1>2. Candidates(ts) = {}
  <2> SUFFICES ASSUME NEW i \in 1..n, 100 * Korean(ts[i]) < 45 * Len(ts[i])
               PROVE  FALSE
    BY DEF Candidates
  <2> DEFINE x == Len(ts[i])
  <2>1. x \in Nat /\ 100 * x < 45 * x
    BY <1>1
  <2> HIDE DEF x
  <2> QED BY <2>1
<1> DEFINE s == [i \in DOMAIN ts |-> IF i \in Candidates(ts) THEN PiecesOf(i) ELSE <<>>]
<1>3. s = [i \in 1..n |-> <<>>]
  BY <1>2
<1>4. Redecoded(ts) \in {<<>>, FlattenSeq(s)}
  BY DEF Redecoded
<1> HIDE DEF s
<1>5. s \in Seq(Seq({}))
  BY <1>3
<1>6. FlattenSeq(s) \in Seq({})
  BY <1>5, FlattenFits
<1> DEFINE x == FlattenSeq(s)
<1>7. x = <<>>
  <2> HIDE DEF x
  <2>1. x \in Seq({})
    BY <1>6 DEF x
  <2>2. Len(x) \in Nat /\ \A k \in 1..Len(x) : x[k] \in {}
    BY <2>1
  <2>3. Len(x) = 0
    BY <2>2
  <2> QED BY <2>1, <2>3
<1> QED BY <1>4, <1>7

LEMMA SameStretch ==
  ASSUME NEW c, NEW d, c.lo = d.lo, c.hi = d.hi, NEW korean
  PROVE  Heard(c, korean) = Heard(d, korean)
BY DEF Heard

LEMMA BatchOnce ==
  ASSUME PlacedInv, ChunkInv, OnceInv, Target <= ModelLimit \/ BatchSize <= 1, DecodeBatch
  PROVE  OnceInv'
<1>1. /\ kept' = kept /\ audio' = audio /\ stage' = stage /\ group' = group
      /\ inputs' = inputs /\ texts' = texts /\ out' = out
      /\ stage \in {"decode", "redecode"}
  BY DEF DecodeBatch
<1>2. PICK odd : odd \subseteq Batch /\ drifts' = drifts + Cardinality(odd)
  BY DEF DecodeBatch
<1>3. Len(inputs) \in Nat /\ taken \in 0..Len(inputs) /\ drifts \in Nat
  BY DEF PlacedInv, InputsInv, TextsInv, OnceInv
<1>4. drifts' \in Nat /\ (drifts' = 0 => drifts = 0)
  <2>1. IsFiniteSet(Batch)
    BY <1>3, BatchFinite
  <2>2. Cardinality(odd) \in Nat
    BY <1>2, <2>1, FS_Subset, FS_CardinalityType
  <2> QED BY <1>2, <1>3, <2>2
<1>5. /\ taken' \in taken .. Len(inputs)
      /\ \A k \in 1..taken : decoded'[k] = decoded[k]
      /\ (drifts' = 0 => \A k \in (taken + 1)..taken' : decoded'[k] = Heard(inputs[k], TRUE))
  BY <1>3, BatchHeard
<1>6. ASSUME drifts' = 0, NEW k \in 1..taken'
      PROVE  decoded'[k] = Heard(inputs[k], TRUE)
  <2>1. CASE k <= taken
    <3>1. k \in 1..taken
      BY <1>3, <1>5, <2>1
    <3> QED BY <1>4, <1>5, <1>6, <3>1 DEF OnceInv, AsHeard
  <2>2. CASE ~(k <= taken)
    <3>1. k \in (taken + 1)..taken'
      BY <1>3, <1>5, <2>2
    <3> QED BY <1>5, <1>6, <3>1
  <2> QED BY <2>1, <2>2
<1>7. AsHeard'
  <2>1. \A c : Heard(c, TRUE)' = Heard(c, TRUE)
    BY <1>1, SameHeard
  <2>2. drifts' = 0 => stage # "redecode"
    BY <1>4 DEF OnceInv, AsHeard
  <2> QED BY <1>1, <1>6, <2>1, <2>2 DEF AsHeard
<1>8. Named' /\ (stage' # "done" => out' = <<>>)
  BY <1>1 DEF OnceInv, Named
<1>9. OncePerWord'
  BY <1>1, <1>8 DEF OncePerWord
<1> QED BY <1>4, <1>7, <1>8, <1>9 DEF OnceInv

LEMMA AlignOnce ==
  ASSUME PlacedInv, ChunkInv, HeardInv, OnceInv, Align
  PROVE  OnceInv'
<1>1. /\ stage = "decode" /\ taken = Len(inputs) /\ kept' = kept /\ audio' = audio /\ group' = group
      /\ drifts' = drifts /\ out' = out /\ texts' = Zipped /\ stage' \in {"failed", "merge", "redecode"}
  BY DEF Align
<1>2. /\ Zipped = decoded /\ Len(inputs) \in Nat /\ Len(decoded) = Len(inputs)
      /\ DOMAIN decoded = 1..Len(inputs) /\ Len(inputs) = Len(group.spans)
  <2>1. Zipped = decoded /\ Said(kept, audio, inputs, decoded, Len(inputs)) /\ Len(inputs) \in Nat
    BY <1>1, AllZipped DEF PlacedInv
  <2>2. Len(decoded) = Len(inputs) /\ decoded \in Seq(TextsOf(kept, audio, Whole(kept)))
    BY <2>1 DEF Said
  <2>3. DOMAIN decoded = 1..Len(inputs)
    BY <2>2
  <2> QED BY <1>1, <2>1, <2>2, <2>3 DEF PlacedInv, InputsInv
<1>3. Named' /\ drifts' \in Nat /\ out' = <<>> /\ (stage' # "done" => out' = <<>>)
  BY <1>1 DEF OnceInv, Named
<1>4. OncePerWord'
  BY <1>3 DEF OncePerWord
<1>5. ASSUME drifts = 0, NEW i \in 1..Len(group.spans)
      PROVE  decoded[i] = Heard(group.spans[i], TRUE) /\ Bounded(group.spans[i])
  <2> DEFINE x == inputs[i]
             d == group.spans[i]
  <2>1. x.lo = d.lo /\ x.hi = d.hi
    BY <1>1, <1>2 DEF HeardInv, ChunksAsked
  <2>2. decoded[i] = Heard(x, TRUE)
    BY <1>1, <1>2, <1>5 DEF OnceInv, AsHeard
  <2>3. Bounded(d)
    BY ChunkPlace DEF PlacedInv, Bounded
  <2> HIDE DEF x, d
  <2>4. Heard(x, TRUE) = Heard(d, TRUE)
    BY <2>1, SameStretch
  <2> QED BY <2>2, <2>3, <2>4 DEF d
<1>6. AsHeard'
  <2>1. \A c : Heard(c, TRUE)' = Heard(c, TRUE)
    BY <1>1, SameHeard
  <2>2. ASSUME drifts = 0
        PROVE  Redecoded(Zipped) = <<>>
    <3>1. \A i \in 1..Len(inputs) : \E c : Bounded(c) /\ decoded[i] = Heard(c, TRUE)
      BY <1>2, <1>5, <2>2
    <3> QED BY <1>2, <3>1, KoreanStays DEF PlacedInv
  <2>3. drifts = 0 => stage' # "redecode" /\ inputs' = inputs /\ taken' = taken /\ decoded' = decoded
    BY <2>2 DEF Align
  <2>4. drifts = 0 => \A k \in 1..taken : decoded[k] = Heard(inputs[k], TRUE)
    BY DEF OnceInv, AsHeard
  <2>5. drifts = 0 => \A i \in 1..Len(group.spans) : texts'[i] = Heard(group.spans[i], TRUE)
    BY <1>1, <1>2, <1>5
  <2> QED BY <1>1, <2>1, <2>3, <2>4, <2>5 DEF AsHeard
<1> QED BY <1>3, <1>4, <1>6 DEF OnceInv

\* The merge takes out what overlaps.
LEMMA FinishOnce ==
  ASSUME PlacedInv, ChunkInv, ApartInv, OnceInv, SegOverlap <= DedupMax, Finish
  PROVE  OnceInv'
<1> DEFINE n == Len(group.spans)
           merged == Merged(group.spans, texts)
<1>1. /\ stage = "merge" /\ stage' = "done" /\ kept' = kept /\ audio' = audio /\ group' = group
      /\ inputs' = inputs /\ taken' = taken /\ decoded' = decoded /\ drifts' = drifts
      /\ out' = [i \in DOMAIN merged |->
                   [start |-> Remap(group.spans[i].lo), end |-> Remap(group.spans[i].hi),
                    text |-> Collapsed(merged[i]), original |-> merged[i]]]
  BY DEF Finish, decoding
<1>2. Named' /\ drifts' \in Nat
  BY <1>1 DEF OnceInv, Named
<1>3. AsHeard'
  <2>1. \A c : Heard(c, TRUE)' = Heard(c, TRUE)
    BY <1>1, SameHeard
  <2> QED BY <1>1, <2>1 DEF OnceInv, AsHeard
<1>4. n \in Nat /\ DOMAIN group.spans = 1..n /\ DOMAIN texts = 1..n
  <2>1. /\ group.spans \in Seq(Within(Whole(kept)))
        /\ texts \in Seq(TextsOf(kept, audio, Whole(kept))) /\ Len(texts) = Len(group.spans)
    BY <1>1 DEF PlacedInv, SpansInv, GroupWithin, TextsInv, Said
  <2> QED BY <2>1
<1>5. ASSUME drifts = 0, \A u \in 1..Length : audio[u] # Filler
      PROVE  EachOnce(merged)
  <2> DEFINE spans == group.spans
  <2>1. \A i \in 1..n : Bounded(spans[i]) /\ texts[i] = Heard(spans[i], TRUE)
    <3> TAKE i \in 1..n
    <3>1. Bounded(spans[i])
      BY ChunkPlace DEF PlacedInv, Bounded
    <3>2. texts[i] = Heard(spans[i], TRUE)
      BY <1>1, <1>5 DEF OnceInv, AsHeard
    <3> QED BY <3>1, <3>2
  <2>2. \A u \in 1..Length : audio[u] \in {Silence, u}
    BY <1>5 DEF OnceInv, Named
  <2>3. Apart(kept, audio, spans) /\ KeptInOrder
    BY DEF ApartInv, GroupApart, PlacedInv
  <2> HIDE DEF n, spans
  <2>4. EachOnce(Merged(spans, texts))
    BY <1>4, <2>1, <2>2, <2>3, MergedOnce DEF spans
  <2> QED BY <2>4 DEF spans
<1> HIDE DEF merged
<1>6. DOMAIN out' = DOMAIN merged /\ \A i \in DOMAIN merged : out'[i].original = merged[i]
  BY <1>1
<1>7. OncePerWord'
  <2> SUFFICES ASSUME drifts = 0, \A u \in 1..Length : audio[u] # Filler,
                      NEW i \in DOMAIN merged, NEW j \in DOMAIN merged,
                      NEW k \in DOMAIN merged[i], NEW l \in DOMAIN merged[j],
                      merged[i][k].at = merged[j][l].at
               PROVE  i = j /\ k = l
    BY <1>1, <1>6 DEF OncePerWord
  <2> QED BY <1>5 DEF EachOnce
<1> QED BY <1>1, <1>2, <1>3, <1>7 DEF OnceInv

LEMMA RestOnce ==
  ASSUME PlacedInv, OnceInv,
         Preprocess \/ Detect \/ GroupRegion \/ Chunk \/ Replace \/ Fail \/ Stop \/ Cancel \/ UNCHANGED vars
  PROVE  OnceInv'
<1>1. CASE Preprocess \/ Detect \/ GroupRegion \/ Chunk \/ Fail \/ Stop
  <2>1. /\ taken' = 0 /\ audio' = audio /\ out' = out /\ out = <<>> /\ drifts' \in Nat
        /\ stage' \in {"detect", "group", "decode", "failed", "cancelled"}
    BY <1>1 DEF Preprocess, Detect, GroupRegion, Chunk, Fail, Stop, Unwound, PlacedInv, InputsInv, decoding, OnceInv, Ends
  <2>2. Named'
    BY <2>1 DEF OnceInv, Named
  <2>3. AsHeard'
    <3>1. stage' # "redecode" /\ stage' # "merge" /\ 1..taken' = {}
      BY <2>1
    <3> QED BY <3>1 DEF AsHeard
  <2>4. OncePerWord'
    BY <2>1 DEF OncePerWord
  <2> QED BY <2>1, <2>2, <2>3, <2>4 DEF OnceInv
<1>2. CASE Replace
  <2>1. /\ stage = "redecode" /\ stage' = "merge" /\ audio' = audio /\ out' = out /\ drifts' = drifts
    BY <1>2 DEF Replace, decoding
  <2>2. drifts' # 0 /\ drifts' \in Nat /\ out' = <<>>
    BY <2>1 DEF OnceInv, AsHeard
  <2>3. Named' /\ AsHeard' /\ OncePerWord'
    BY <2>1, <2>2 DEF OnceInv, Named, AsHeard, OncePerWord
  <2> QED BY <2>2, <2>3 DEF OnceInv
<1>3. CASE Cancel \/ UNCHANGED vars
  <2>1. /\ kept' = kept /\ audio' = audio /\ group' = group /\ stage' = stage /\ drifts' = drifts
        /\ inputs' = inputs /\ taken' = taken /\ decoded' = decoded /\ texts' = texts /\ out' = out
    BY <1>3 DEF Cancel, vars, decoding
  <2>2. \A c : Heard(c, TRUE)' = Heard(c, TRUE)
    BY <2>1, SameHeard
  <2>3. AsHeard'
    BY <2>1, <2>2 DEF OnceInv, AsHeard
  <2>4. Named' /\ OncePerWord' /\ drifts' \in Nat /\ (stage' # "done" => out' = <<>>)
    BY <2>1 DEF OnceInv, Named, OncePerWord
  <2> QED BY <2>3, <2>4 DEF OnceInv
<1> QED BY <1>1, <1>2, <1>3

LEMMA InitOnce == Init => OnceInv /\ ApartInv
<1> SUFFICES ASSUME Init
             PROVE  OnceInv /\ ApartInv
  OBVIOUS
<1>1. stage = "prepare" /\ taken = 0 /\ out = <<>> /\ drifts = 0 /\ todo = {} /\ group = Ungrouped
  BY DEF Init
<1>2. Named
  BY DEF Init, Named
<1>3. AsHeard /\ OncePerWord
  BY <1>1 DEF AsHeard, OncePerWord
<1>4. ApartInv
  BY <1>1, NoneApart DEF ApartInv, AfterEach
<1> QED BY <1>1, <1>2, <1>3, <1>4 DEF OnceInv

\* When no word is said twice and no text drifts, no word is in the result
\* twice: however the regions lie, the merge finds what pieces of a hard split
\* share, as long as their overlap (overlap_sec) has no more words than it
\* looks at (SEAM_DEDUP_MAX_WORDS).
THEOREM WordsComeOnce ==
  ASSUME Target <= ModelLimit \/ BatchSize <= 1, SegOverlap <= DedupMax
  PROVE  Spec => []OncePerWord
<1>1. PlacedInv /\ ChunkInv /\ HeardInv /\ ApartInv /\ OnceInv /\ [Next]_vars => OnceInv' /\ ApartInv'
  <2> SUFFICES ASSUME PlacedInv, ChunkInv, HeardInv, ApartInv, OnceInv, [Next]_vars
               PROVE  OnceInv' /\ ApartInv'
    OBVIOUS
  <2>1. ApartInv'
    BY NextApart DEF PlacedInv
  <2>2. OnceInv'
    BY RestOnce, BatchOnce, AlignOnce, FinishOnce DEF Next
  <2> QED BY <2>1, <2>2
<1>2. OnceInv => OncePerWord
  BY DEF OnceInv
<1>3. Spec => []ChunkInv /\ []PlacedInv
  BY ChunkInvariant, PlacedInvariant, PTL
<1>4. Spec => []HeardInv
  BY HeardInvariant
<1> QED BY <1>1, <1>2, <1>3, <1>4, InitOnce, PTL DEF Spec

-----------------------------------------------------------------------------
(* The collation of action items.                                          *)

Marks == Meant \cup {"none"}

Collated(lines) ==
  [text : {a.text : a \in AgentItems}, ev : SUBSET lines, meant : Marks, flag : Marks \cup {"review"}]

\* Reviewed exactly without a line.
Sound(it) == it.ev = {} <=> it.flag = "review"

\* An item of the agent is in a list with its lines and its mark.
Listed(a, lines, it) ==
  /\ it.text = a.text /\ a.ev \cap lines \subseteq it.ev
  /\ a.flag \in Meant /\ a.ev \cap lines # {} => it.flag # "none"

ListedIn(a, lines, list) == \E k \in DOMAIN list : Listed(a, lines, list[k])

SoundList(list, lines) == list \in Seq(Collated(lines)) /\ \A k \in DOMAIN list : Sound(list[k])

\* One item, checked against the lines of the work-order.
LEMMA CheckedIsListed ==
  ASSUME NEW lines, NEW a \in AgentItems
  PROVE  /\ Checked(a, lines) \in Collated(lines) /\ Sound(Checked(a, lines))
         /\ Listed(a, lines, Checked(a, lines))
         /\ Checked(a, lines).text = a.text /\ Checked(a, lines).ev = a.ev \cap lines
         /\ a.flag \in Meant => Checked(a, lines).meant # "none"
<1> DEFINE e == a.ev \cap lines
           m == IF a.flag \in Meant THEN a.flag ELSE "none"
           f == IF e = {} THEN "review"
                ELSE IF m # "none" THEN m
                ELSE IF a.inferred THEN "inferred" ELSE "none"
           c == Checked(a, lines)
<1>1. c = [text |-> a.text, ev |-> e, meant |-> m, flag |-> f]
  BY DEF Checked
<1>2. m \in Marks /\ (a.flag \in Meant => m # "none")
  BY DEF Marks, Meant
<1>3. e \in SUBSET lines
  OBVIOUS
<1> HIDE DEF m, e
<1>4. /\ f \in Marks \cup {"review"} /\ (e = {} <=> f = "review")
      /\ e # {} /\ m # "none" => f # "none"
  <2>1. CASE e = {}
    BY <2>1
  <2>2. CASE e # {} /\ m # "none"
    <3>1. f = m
      BY <2>2
    <3> QED BY <1>2, <2>2, <3>1 DEF Marks, Meant
  <2>3. CASE e # {} /\ m = "none"
    <3>1. f \in {"inferred", "none"}
      BY <2>3
    <3> QED BY <2>3, <3>1 DEF Marks, Meant
  <2> QED BY <2>1, <2>2, <2>3
<1> HIDE DEF f, c
<1>5. c.text = a.text /\ c.ev = e /\ c.meant = m /\ c.flag = f
  BY <1>1
<1>6. c \in Collated(lines)
  BY <1>1, <1>2, <1>3, <1>4 DEF Collated
<1>7. Sound(c)
  BY <1>4, <1>5 DEF Sound
<1>8. Listed(a, lines, c)
  BY <1>2, <1>4, <1>5 DEF Listed, e
<1> QED BY <1>2, <1>5, <1>6, <1>7, <1>8 DEF c, e

\* What two items of one text give: the lines of both, and their marks.
IsMerged(r, x, y, lines) ==
  /\ r \in Collated(lines) /\ Sound(r)
  /\ r.text = x.text /\ r.ev = x.ev \cup y.ev
  /\ x.ev # {} /\ x.flag # "none" => r.flag # "none"
  /\ y.ev # {} /\ y.meant # "none" => r.flag # "none"

\* Two items of one text: the lines of both, and a mark if either has one.
LEMMA MergedKeeps ==
  ASSUME NEW lines, NEW x \in Collated(lines), NEW y \in Collated(lines), Sound(x), Sound(y)
  PROVE  IsMerged(MergedInto(x, y), x, y, lines)
<1> DEFINE e == x.ev \cup y.ev
           f == IF e # {} /\ x.flag = "review" THEN "none" ELSE x.flag
           g == IF f = "none" THEN y.meant ELSE f
           r == MergedInto(x, y)
<1>1. r = [x EXCEPT !.ev = e, !.flag = g]
  BY DEF MergedInto
<1>2. /\ x.ev \in SUBSET lines /\ y.ev \in SUBSET lines /\ y.meant \in Marks
      /\ x.flag \in Marks \cup {"review"}
  BY DEF Collated
<1>3. /\ g \in Marks \cup {"review"}
      /\ e = {} <=> g = "review"
      /\ x.ev # {} /\ x.flag # "none" => g # "none"
      /\ y.ev # {} /\ y.meant # "none" => g # "none"
  BY <1>2 DEF Sound, Marks, Meant
<1>4. e \in SUBSET lines
  BY <1>2
<1> HIDE DEF e, g, f, r
<1>5. r \in Collated(lines) /\ r.text = x.text /\ r.ev = e /\ r.flag = g
  BY <1>1, <1>3, <1>4 DEF Collated
<1> QED BY <1>3, <1>5 DEF IsMerged, Sound, r, e

LEMMA AddedKeeps ==
  ASSUME NEW lines, NEW c, SoundList(c, lines), NEW a \in AgentItems
  PROVE  LET d == Added(c, Checked(a, lines))
         IN  /\ SoundList(d, lines) /\ ListedIn(a, lines, d)
             /\ \A b : ListedIn(b, lines, c) => ListedIn(b, lines, d)
<1> DEFINE it == Checked(a, lines)
           d == Added(c, it)
           same == {k \in DOMAIN c : c[k].text = it.text}
           merged == [k \in DOMAIN c |-> IF k \in same THEN MergedInto(c[k], it) ELSE c[k]]
<1>1. /\ it \in Collated(lines) /\ Sound(it) /\ Listed(a, lines, it)
      /\ it.text = a.text /\ it.ev = a.ev \cap lines /\ (a.flag \in Meant => it.meant # "none")
  BY CheckedIsListed
<1>2. c \in Seq(Collated(lines)) /\ \A k \in DOMAIN c : c[k] \in Collated(lines) /\ Sound(c[k])
  BY DEF SoundList
<1>3. d = IF same = {} THEN Append(c, it) ELSE merged
  BY DEF Added
<1> HIDE DEF it, d
<1>4. CASE same = {}
  <2>1. d = Append(c, it)
    BY <1>3, <1>4
  <2>2. d \in Seq(Collated(lines)) /\ DOMAIN d = 1..(Len(c) + 1) /\ d[Len(c) + 1] = it
        /\ \A k \in DOMAIN c : k \in DOMAIN d /\ d[k] = c[k]
    BY <1>1, <1>2, <2>1
  <2>3. \A k \in DOMAIN d : k \in DOMAIN c \/ k = Len(c) + 1
    BY <1>2, <2>2
  <2>4. SoundList(d, lines)
    BY <1>1, <1>2, <2>2, <2>3 DEF SoundList
  <2>5. ListedIn(a, lines, d)
    <3>1. Len(c) + 1 \in DOMAIN d
      BY <1>2, <2>2
    <3> QED BY <1>1, <2>2, <3>1 DEF ListedIn
  <2>6. \A b : ListedIn(b, lines, c) => ListedIn(b, lines, d)
    BY <2>2 DEF ListedIn
  <2> QED BY <2>4, <2>5, <2>6 DEF d, it
<1>5. CASE same # {}
  <2>1. d = merged
    BY <1>3, <1>5
  <2>2. ASSUME NEW k \in DOMAIN c
        PROVE  /\ d[k] \in Collated(lines) /\ Sound(d[k])
               /\ k \in same => Listed(a, lines, d[k])
               /\ \A b : Listed(b, lines, c[k]) => Listed(b, lines, d[k])
    <3>1. CASE k \in same
      <4>1. d[k] = MergedInto(c[k], it) /\ c[k].text = it.text
        BY <2>1, <3>1
      <4>2. /\ d[k] \in Collated(lines) /\ Sound(d[k])
            /\ d[k].text = c[k].text /\ d[k].ev = c[k].ev \cup it.ev
            /\ c[k].ev # {} /\ c[k].flag # "none" => d[k].flag # "none"
            /\ it.ev # {} /\ it.meant # "none" => d[k].flag # "none"
        <5>1. /\ c[k] \in Collated(lines) /\ Sound(c[k])
              /\ it \in Collated(lines) /\ Sound(it)
          BY <1>1, <1>2
        <5> DEFINE x == c[k]
                   y == d[k]
        <5>2. y = MergedInto(x, it) /\ x \in Collated(lines) /\ Sound(x)
          BY <4>1, <5>1
        <5> HIDE DEF x, y
        <5>3. IsMerged(y, x, it, lines)
          BY ONLY <5>1, <5>2, MergedKeeps
        <5> QED BY <5>3 DEF x, y, IsMerged
      <4>3. Listed(a, lines, d[k])
        BY <1>1, <4>1, <4>2 DEF Listed
      <4>4. ASSUME NEW b, Listed(b, lines, c[k])
            PROVE  Listed(b, lines, d[k])
        BY <4>2, <4>4 DEF Listed
      <4> QED BY <4>2, <4>3, <4>4
    <3>2. CASE k \notin same
      BY <1>2, <2>1, <3>2
    <3> QED BY <3>1, <3>2
  <2>3. DOMAIN d = DOMAIN c
    BY <2>1
  <2>4. SoundList(d, lines)
    <3>1. Len(c) \in Nat /\ DOMAIN c = 1..Len(c)
      BY <1>2
    <3>2. d = [k \in 1..Len(c) |-> d[k]]
      BY <2>1, <3>1
    <3>3. \A k \in 1..Len(c) : d[k] \in Collated(lines)
      BY <2>2, <3>1
    <3>4. d \in Seq(Collated(lines))
      BY ONLY <3>1, <3>2, <3>3
    <3> QED BY <2>2, <2>3, <3>4 DEF SoundList
  <2>5. ListedIn(a, lines, d)
    <3>1. PICK k \in DOMAIN c : k \in same
      BY <1>5
    <3>2. k \in DOMAIN d /\ Listed(a, lines, d[k])
      BY <2>2, <2>3, <3>1
    <3> QED BY <3>2 DEF ListedIn
  <2>6. ASSUME NEW b, ListedIn(b, lines, c)
        PROVE  ListedIn(b, lines, d)
    <3>1. PICK k \in DOMAIN c : Listed(b, lines, c[k])
      BY <2>6 DEF ListedIn
    <3>2. k \in DOMAIN d /\ Listed(b, lines, d[k])
      BY <2>2, <2>3, <3>1
    <3> QED BY <3>2 DEF ListedIn
  <2> QED BY <2>4, <2>5, <2>6 DEF d, it
<1> QED BY <1>4, <1>5

\* The collation is what its recursion says.
LEMMA CollationUnfolds ==
  ASSUME NEW items, Len(items) \in Nat, NEW lines
  PROVE  \E u : /\ u = [n \in 0..Len(items) |->
                          IF n = 0 THEN <<>> ELSE Added(u[n - 1], Checked(items[n], lines))]
                /\ Collation(items, lines) = u[Len(items)]
<1> DEFINE Step(x, n) == Added(x, Checked(items[n], lines))
           Unfolds(u, m) == u = [n \in 0..m |-> IF n = 0 THEN <<>> ELSE Step(u[n - 1], n)]
           T == {m \in Nat : ~\E u : Unfolds(u, m)}
<1> HIDE DEF Step
<1>1. T = {}
  <2> SUFFICES ASSUME T # {}
               PROVE  FALSE
    OBVIOUS
  <2>1. PICK m \in T : \A k \in T : m <= k
    <3>1. T \in SUBSET Nat
      OBVIOUS
    <3> HIDE DEF T
    <3> QED BY <3>1, LeastOf
  <2>2. m # 0
    <3>1. Unfolds([n \in 0..0 |-> <<>>], 0)
      OBVIOUS
    <3> QED BY <3>1
  <2>3. m - 1 \in Nat /\ m - 1 \notin T
    <3>1. m \in Nat
      OBVIOUS
    <3> HIDE DEF T
    <3> QED BY <2>1, <2>2, <3>1
  <2>4. PICK u : Unfolds(u, m - 1)
    BY <2>3
  <2> DEFINE v == [n \in 0..m |-> IF n = 0 THEN <<>> ELSE Step(u[n - 1], n)]
  <2>5. \A n \in 0..(m - 1) : v[n] = u[n]
    <3>1. \A n \in 0..(m - 1) : u[n] = IF n = 0 THEN <<>> ELSE Step(u[n - 1], n)
      BY <2>4, Zenon
    <3>2. \A n \in 0..(m - 1) : n \in 0..m
      BY <2>2
    <3> QED BY <3>1, <3>2
  <2>6. \A n \in 0..m : n # 0 => n - 1 \in 0..(m - 1)
    BY <2>2
  <2>7. v = [n \in 0..m |-> IF n = 0 THEN <<>> ELSE Step(v[n - 1], n)]
    BY <2>5, <2>6
  <2> HIDE DEF v
  <2>8. Unfolds(v, m)
    BY <2>7
  <2> QED BY <2>1, <2>8
<1>2. PICK u : Unfolds(u, Len(items))
  BY <1>1
<1> DEFINE h == CHOOSE h1 : h1 = [n \in 0..Len(items) |-> IF n = 0 THEN <<>> ELSE Step(h1[n - 1], n)]
<1>3. h = [n \in 0..Len(items) |-> IF n = 0 THEN <<>> ELSE Step(h[n - 1], n)]
  BY <1>2
<1>4. Collation(items, lines) = h[Len(items)]
  BY DEF Collation, Step
<1> HIDE DEF h
<1> QED BY <1>3, <1>4 DEF Step

\* However many items there are and however they are merged.
LEMMA CollationKeeps ==
  ASSUME NEW items \in Seq(AgentItems), NEW lines
  PROVE  /\ SoundList(Collation(items, lines), lines)
         /\ \A i \in DOMAIN items : ListedIn(items[i], lines, Collation(items, lines))
<1>1. Len(items) \in Nat
  OBVIOUS
<1>2. PICK u : /\ u = [n \in 0..Len(items) |->
                         IF n = 0 THEN <<>> ELSE Added(u[n - 1], Checked(items[n], lines))]
               /\ Collation(items, lines) = u[Len(items)]
  BY <1>1, CollationUnfolds
<1>3. \A n \in 0..Len(items) : u[n] = IF n = 0 THEN <<>> ELSE Added(u[n - 1], Checked(items[n], lines))
  BY <1>2, Zenon
<1> DEFINE Good(n) == SoundList(u[n], lines) /\ \A i \in 1..n : ListedIn(items[i], lines, u[n])
           T == {n \in 0..Len(items) : ~Good(n)}
<1>4. T = {}
  <2> SUFFICES ASSUME T # {}
               PROVE  FALSE
    OBVIOUS
  <2>1. T \in SUBSET Nat
    OBVIOUS
  <2>2. PICK n \in T : \A m \in T : n <= m
    <3> HIDE DEF T
    <3> QED BY <2>1, LeastOf
  <2>3. n \in 0..Len(items) /\ ~Good(n)
    OBVIOUS
  <2>4. CASE n = 0
    <3>1. u[n] = <<>> /\ 1..n = {}
      BY <1>3, <2>3, <2>4
    <3>2. SoundList(<<>>, lines)
      BY DEF SoundList
    <3> QED BY <2>3, <3>1, <3>2
  <2>5. CASE n # 0
    <3>1. n - 1 \in 0..Len(items) /\ n \in 1..Len(items) /\ n \in Nat
      BY <1>1, <2>3, <2>5
    <3>2. n - 1 \notin T
      <4> HIDE DEF T
      <4> QED BY <2>2, <3>1
    <3>3. Good(n - 1)
      BY <3>1, <3>2
    <3>4. u[n] = Added(u[n - 1], Checked(items[n], lines)) /\ items[n] \in AgentItems
      BY <1>3, <2>3, <2>5, <3>1
    <3> HIDE DEF T
    <3> DEFINE c == u[n - 1]
    <3>5. SoundList(c, lines)
      BY <3>3
    <3>6. u[n] = Added(c, Checked(items[n], lines))
      BY <3>4
    <3> HIDE DEF c
    <3>7. /\ SoundList(u[n], lines) /\ ListedIn(items[n], lines, u[n])
          /\ \A b : ListedIn(b, lines, c) => ListedIn(b, lines, u[n])
      BY <3>4, <3>5, <3>6, AddedKeeps
    <3>8. \A i \in 1..n : i = n \/ i \in 1..(n - 1)
      BY <3>1
    <3>9. \A i \in 1..n : ListedIn(items[i], lines, u[n])
      BY <3>3, <3>7, <3>8 DEF c
    <3> QED BY <2>3, <3>7, <3>9
  <2> QED BY <2>4, <2>5
<1>5. Good(Len(items))
  <2>1. Len(items) \in 0..Len(items)
    BY <1>1
  <2> HIDE DEF Good
  <2> QED BY <1>4, <2>1
<1> QED BY <1>2, <1>5
-----------------------------------------------------------------------------
(* The outputs of the command line.                                        *)

\* What the outputs are: each file belongs to one of them.
LEMMA OutputNames ==
  /\ DOMAIN Outputs = {"clean", "extract"}
  /\ \A g \in DOMAIN Outputs : Len(Outputs[g]) \in Nat \ {0} /\ DOMAIN Outputs[g] = 1..Len(Outputs[g])
  /\ \A g, h \in DOMAIN Outputs : \A i \in DOMAIN Outputs[g], j \in DOMAIN Outputs[h] :
        Outputs[g][i] = Outputs[h][j] => g = h /\ i = j
  /\ \A g \in DOMAIN Outputs : ToSet(Outputs[g]) = {Outputs[g][i] : i \in DOMAIN Outputs[g]}
  /\ \A g \in DOMAIN Outputs : \A i \in DOMAIN Outputs[g] : Outputs[g][i] \in Files
<1>1. /\ DOMAIN Outputs = {"clean", "extract"}
      /\ Outputs["clean"] = <<"cleaned.json", "minutes", "diff">>
      /\ Outputs["extract"] = <<"actionitems.json", "list">>
  BY DEF Outputs
<1>2. /\ Len(Outputs["clean"]) = 3 /\ DOMAIN Outputs["clean"] = 1..3
      /\ Len(Outputs["extract"]) = 2 /\ DOMAIN Outputs["extract"] = 1..2
  BY <1>1
<1>3. \A g, h \in DOMAIN Outputs : \A i \in DOMAIN Outputs[g], j \in DOMAIN Outputs[h] :
        Outputs[g][i] = Outputs[h][j] => g = h /\ i = j
  BY <1>1, <1>2
<1>4. \A g \in DOMAIN Outputs : ToSet(Outputs[g]) = {Outputs[g][i] : i \in DOMAIN Outputs[g]}
  BY DEF ToSet
<1>5. \A g \in DOMAIN Outputs : \A i \in DOMAIN Outputs[g] : Outputs[g][i] \in Files
  BY <1>4 DEF Files
<1> QED BY <1>1, <1>2, <1>3, <1>4, <1>5

\* A command that is writing, and what it has written.
Writes(t, f, u) ==
  /\ t.kind \in DOMAIN Outputs /\ t.next \in DOMAIN Outputs[t.kind]
  /\ \A i \in 1..(t.next - 1) : f[Outputs[t.kind][i]] = t.by
  /\ t.next > 1 => t.kind \in u

FilesInv ==
  /\ DOMAIN files = Files
  /\ task # Nil =>
        /\ task = [kind |-> task.kind, next |-> task.next, by |-> task.by,
                   result |-> task.result, overwrite |-> task.overwrite]
        /\ Writes(task, files, torn)
  /\ OutputsAgree

LEMMA FilesHold == WordingSpec => []FilesInv
<1>1. HandInit => FilesInv
  <2> SUFFICES ASSUME HandInit
               PROVE  FilesInv
    OBVIOUS
  <2>1. files = [f \in Files |-> 0] /\ task = Nil
    BY DEF HandInit
  <2>2. OutputsAgree
    BY <2>1, OutputNames DEF OutputsAgree
  <2> QED BY <2>1, <2>2 DEF FilesInv
<1>2. FilesInv /\ [WordingNext]_<<wordVars, hand>> => FilesInv'
  <2> SUFFICES ASSUME FilesInv, [WordingNext]_<<wordVars, hand>>
               PROVE  FilesInv'
    OBVIOUS
  <2> USE DEF FilesInv
  <2>1. ASSUME UNCHANGED <<files, task, torn>>
        PROVE  FilesInv'
    BY <2>1 DEF OutputsAgree
  <2>2. ASSUME UNCHANGED <<files, torn>>, task' = Nil
        PROVE  FilesInv'
    BY <2>2 DEF OutputsAgree
  <2>3. ASSUME UNCHANGED <<files, torn>>, NEW k \in DOMAIN Outputs, NEW r, NEW o, Writing(k, r, o)
        PROVE  FilesInv'
    <3>1. task' = [kind |-> k, next |-> 1, by |-> count + 1, result |-> r, overwrite |-> o]
      BY <2>3 DEF Writing
    <3>2. 1 \in DOMAIN Outputs[k]
      BY OutputNames
    <3>3. Writes(task', files', torn')
      BY <3>1, <3>2 DEF Writes
    <3>4. OutputsAgree'
      BY <2>3 DEF OutputsAgree
    <3> QED BY <2>3, <3>1, <3>3, <3>4
  <2>4. CASE Write
    <3> DEFINE g == task.kind
               n == task.next
               names == Outputs[g]
    <3>1. /\ task # Nil /\ files' = [files EXCEPT ![names[n]] = task.by]
          /\ IF n < Len(names)
             THEN task' = [task EXCEPT !.next = n + 1] /\ torn' = torn \cup {g}
             ELSE task' = Nil /\ torn' = torn \ {g}
      BY <2>4 DEF Write
    <3>2. /\ g \in DOMAIN Outputs /\ n \in DOMAIN names
          /\ \A i \in 1..(n - 1) : files[names[i]] = task.by
      BY <3>1 DEF Writes
    <3>3. Len(names) \in Nat /\ DOMAIN names = 1..Len(names) /\ n \in 1..Len(names)
      BY <3>2, OutputNames
    <3>4. \A i \in DOMAIN names : names[i] \in DOMAIN files
      BY <3>2, OutputNames
    <3>5. \A h \in DOMAIN Outputs : h # g => \A i \in DOMAIN Outputs[h] : files'[Outputs[h][i]] = files[Outputs[h][i]]
      <4> TAKE h \in DOMAIN Outputs
      <4> HAVE h # g
      <4> TAKE i \in DOMAIN Outputs[h]
      <4>1. Outputs[h][i] # names[n] /\ Outputs[h][i] \in DOMAIN files
        BY <3>2, OutputNames
      <4> QED BY <3>1, <4>1
    <3>6. \A i \in 1..n : files'[names[i]] = task.by
      <4> TAKE i \in 1..n
      <4>1. i \in DOMAIN names /\ names[i] \in DOMAIN files
        BY <3>3, <3>4
      <4>2. CASE i = n
        BY <3>1, <4>1, <4>2
      <4>3. CASE i # n
        <5>1. i \in 1..(n - 1) /\ names[i] # names[n]
          BY <3>2, <3>3, <4>1, <4>3, OutputNames
        <5> QED BY <3>1, <3>2, <4>1, <5>1
      <4> QED BY <4>2, <4>3
    <3>7. \A h \in DOMAIN Outputs \ torn : h # g => \A f, e \in ToSet(Outputs[h]) : files'[f] = files'[e]
      <4> TAKE h \in DOMAIN Outputs \ torn
      <4> HAVE h # g
      <4>1. \A f \in ToSet(Outputs[h]) : files'[f] = files[f]
        BY <3>5, OutputNames
      <4> QED BY <4>1 DEF OutputsAgree
    <3>8. DOMAIN files' = Files
      BY <3>1
    <3>9. CASE n < Len(names)
      <4>1. task' = [task EXCEPT !.next = n + 1] /\ torn' = torn \cup {g}
        BY <3>1, <3>9
      <4>2. task' = [kind |-> g, next |-> n + 1, by |-> task.by, result |-> task.result, overwrite |-> task.overwrite]
        BY <3>1, <4>1
      <4>3. n + 1 \in DOMAIN names /\ (n + 1) - 1 = n
        BY <3>3, <3>9
      <4> HIDE DEF n
      <4>4. Writes(task', files', torn')
        BY <3>2, <3>6, <4>1, <4>2, <4>3 DEF Writes
      <4>5. OutputsAgree'
        BY <3>7, <4>1 DEF OutputsAgree
      <4> QED BY <3>8, <4>2, <4>4, <4>5
    <3>10. CASE ~(n < Len(names))
      <4>1. task' = Nil /\ torn' = torn \ {g} /\ n = Len(names)
        BY <3>1, <3>3, <3>10
      <4>2. \A f \in ToSet(names) : files'[f] = task.by
        BY <3>2, <3>3, <3>6, <4>1, OutputNames
      <4>3. OutputsAgree'
        <5>1. ASSUME NEW h \in DOMAIN Outputs \ torn'
              PROVE  \A f, e \in ToSet(Outputs[h]) : files'[f] = files'[e]
          <6>1. CASE h = g
            BY <4>2, <6>1
          <6>2. CASE h # g
            BY <3>7, <4>1, <6>2
          <6> QED BY <6>1, <6>2
        <5> QED BY <5>1 DEF OutputsAgree
      <4> QED BY <3>8, <4>1, <4>3
    <3> QED BY <3>9, <3>10
  <2>5. CASE WordNext /\ UNCHANGED hand
    BY <2>1, <2>5 DEF hand
  <2>6. CASE UNCHANGED <<wordVars, hand>>
    BY <2>1, <2>6 DEF hand
  <2>7. CASE HandNext
    <3>1. CASE Emit
      BY <2>1, <3>1 DEF Emit
    <3>2. ASSUME NEW i, NEW a, Fill(i, a)
          PROVE  FilesInv'
      BY <2>1, <3>2 DEF Fill
    <3>3. ASSUME NEW e, NEW o, Collect(e, o)
          PROVE  FilesInv'
      BY <2>3, <3>3, OutputNames DEF Collect
    <3>4. ASSUME NEW p, NEW o, AutoClean(p, o)
          PROVE  FilesInv'
      <4>1. \E r : Writing("clean", r, o)
        BY <3>4, Zenon DEF AutoClean
      <4> QED BY <2>3, <3>4, <4>1, OutputNames DEF AutoClean
    <3>5. CASE ExtractEmit
      BY <2>1, <3>5 DEF ExtractEmit
    <3>6. ASSUME NEW item, ExtractFill(item)
          PROVE  FilesInv'
      BY <2>1, <3>6 DEF ExtractFill
    <3>7. ASSUME NEW o, ExtractCollect(o)
          PROVE  FilesInv'
      BY <2>3, <3>7, OutputNames DEF ExtractCollect
    <3>8. CASE Skipped \/ Interrupted
      BY <2>2, <3>8 DEF Skipped, Interrupted
    <3> QED BY <2>4, <2>7, <3>1, <3>2, <3>3, <3>4, <3>5, <3>6, <3>7, <3>8 DEF HandNext
  <2> QED BY <2>5, <2>6, <2>7 DEF WordingNext
<1> QED BY <1>1, <1>2, PTL DEF WordingSpec

\* The files of one output are of one command, however often and with
\* whatever leave the commands are given, unless one was stopped among them.
THEOREM FilesOfOneCommand == WordingSpec => []OutputsAgree
<1>1. FilesInv => OutputsAgree
  BY DEF FilesInv
<1> QED BY <1>1, FilesHold, PTL

-----------------------------------------------------------------------------
(* The marks of the agent.                                                 *)

\* The result of an extraction is the collation of the work-order it was
\* made from.
Extracted(r) ==
  r.asked.items \in Seq(AgentItems) /\ r.items = Collation(r.asked.items, r.asked.lines)

MarksInv ==
  /\ DOMAIN found = DOMAIN Outputs
  /\ xorder # Nil =>
        xorder = [lines |-> xorder.lines, items |-> xorder.items] /\ xorder.items \in Seq(AgentItems)
  /\ task # Nil =>
        /\ task = [kind |-> task.kind, next |-> task.next, by |-> task.by,
                   result |-> task.result, overwrite |-> task.overwrite]
        /\ task.kind = "extract" => Extracted(task.result)
  /\ found.extract # <<>> => Extracted(found.extract)

\* A collation shows what the agent marked.
LEMMA ExtractedMarks ==
  ASSUME NEW r, Extracted(r), NEW a \in ToSet(r.asked.items)
  PROVE  \E x \in ToSet(r.items) :
            /\ x.text = a.text /\ a.ev \cap r.asked.lines \subseteq x.ev
            /\ a.flag \in Meant /\ a.ev \cap r.asked.lines # {} => x.flag # "none"
            /\ x.ev = {} => x.flag = "review"
<1> DEFINE items == r.asked.items
           lines == r.asked.lines
           list == Collation(items, lines)
<1>1. items \in Seq(AgentItems) /\ r.items = list
  BY DEF Extracted
<1>2. PICK i \in DOMAIN items : items[i] = a
  BY DEF ToSet
<1> HIDE DEF items, lines, list
<1>3. SoundList(list, lines) /\ ListedIn(items[i], lines, list)
  BY <1>1, <1>2, CollationKeeps DEF list
<1>4. PICK k \in DOMAIN list : Listed(a, lines, list[k])
  BY <1>2, <1>3 DEF ListedIn
<1>5. list[k] \in ToSet(list) /\ Sound(list[k])
  BY <1>3, <1>4 DEF ToSet, SoundList
<1> DEFINE x == list[k]
<1> HIDE DEF x
<1>6. x \in ToSet(r.items) /\ Sound(x) /\ Listed(a, lines, x)
  BY <1>1, <1>4, <1>5 DEF x
<1>7. /\ x.text = a.text /\ a.ev \cap lines \subseteq x.ev
      /\ a.flag \in Meant /\ a.ev \cap lines # {} => x.flag # "none"
      /\ x.ev = {} => x.flag = "review"
  BY <1>6 DEF Sound, Listed
<1> QED BY <1>6, <1>7 DEF lines

LEMMA MarksHold == WordingSpec => []MarksInv
<1>1. HandInit => MarksInv
  <2> SUFFICES ASSUME HandInit
               PROVE  MarksInv
    OBVIOUS
  <2>1. xorder = Nil /\ task = Nil /\ found = [g \in DOMAIN Outputs |-> <<>>]
    BY DEF HandInit
  <2>2. found.extract = <<>>
    BY <2>1, OutputNames
  <2> QED BY <2>1, <2>2 DEF MarksInv
<1>2. MarksInv /\ [WordingNext]_<<wordVars, hand>> => MarksInv'
  <2> SUFFICES ASSUME MarksInv, [WordingNext]_<<wordVars, hand>>
               PROVE  MarksInv'
    OBVIOUS
  <2> USE DEF MarksInv
  <2>1. ASSUME UNCHANGED <<found, task, xorder>>
        PROVE  MarksInv'
    BY <2>1
  <2>2. ASSUME UNCHANGED <<found, xorder>>, task' = Nil
        PROVE  MarksInv'
    BY <2>2
  <2>3. ASSUME UNCHANGED <<found, xorder>>, NEW k, NEW r, NEW o, Writing(k, r, o),
               k = "extract" => Extracted(r)
        PROVE  MarksInv'
    <3>1. task' = [kind |-> k, next |-> 1, by |-> count + 1, result |-> r, overwrite |-> o]
      BY <2>3 DEF Writing
    <3> QED BY <2>3, <3>1
  <2>4. CASE Write
    <3>1. /\ task # Nil /\ xorder' = xorder
          /\ found' = IF task.next = 1 THEN [found EXCEPT ![task.kind] = task.result] ELSE found
          /\ task' = Nil \/ task' = [task EXCEPT !.next = @ + 1]
      BY <2>4 DEF Write
    <3>2. DOMAIN found' = DOMAIN Outputs
      BY <3>1
    <3>3. found'.extract # <<>> => Extracted(found'.extract)
      <4>1. "extract" \in DOMAIN found
        BY OutputNames
      <4>2. CASE task.kind = "extract" /\ task.next = 1
        BY <3>1, <4>1, <4>2
      <4>3. CASE ~(task.kind = "extract" /\ task.next = 1)
        <5>1. found'.extract = found.extract
          BY <3>1, <4>1, <4>3
        <5> QED BY <5>1
      <4> QED BY <4>2, <4>3
    <3>4. CASE task' = Nil
      BY <3>1, <3>2, <3>3, <3>4
    <3>5. CASE task' = [task EXCEPT !.next = @ + 1]
      <4>1. task' = [kind |-> task.kind, next |-> task.next + 1, by |-> task.by,
                     result |-> task.result, overwrite |-> task.overwrite]
        BY <3>1, <3>5
      <4> QED BY <3>1, <3>2, <3>3, <4>1
    <3> QED BY <3>1, <3>4, <3>5
  <2>5. CASE WordNext /\ UNCHANGED hand
    BY <2>1, <2>5 DEF hand
  <2>6. CASE UNCHANGED <<wordVars, hand>>
    BY <2>1, <2>6 DEF hand
  <2>7. CASE HandNext
    <3>1. CASE Emit
      BY <2>1, <3>1 DEF Emit
    <3>2. ASSUME NEW i, NEW a, Fill(i, a)
          PROVE  MarksInv'
      BY <2>1, <3>2 DEF Fill
    <3>3. ASSUME NEW e, NEW o, Collect(e, o)
          PROVE  MarksInv'
      BY <2>3, <3>3 DEF Collect
    <3>4. ASSUME NEW p, NEW o, AutoClean(p, o)
          PROVE  MarksInv'
      <4>1. \E r : Writing("clean", r, o)
        BY <3>4, Zenon DEF AutoClean
      <4> QED BY <2>3, <3>4, <4>1 DEF AutoClean
    <3>5. CASE ExtractEmit
      <4>1. xorder' = [lines |-> DOMAIN found.clean, items |-> <<>>] /\ UNCHANGED <<found, task>>
        BY <3>5 DEF ExtractEmit
      <4> QED BY <4>1
    <3>6. ASSUME xorder # Nil, NEW item \in AgentItems, ExtractFill(item)
          PROVE  MarksInv'
      <4>1. xorder' = [xorder EXCEPT !.items = Append(@, item)] /\ UNCHANGED <<found, task>>
        BY <3>6 DEF ExtractFill
      <4>2. xorder' = [lines |-> xorder.lines, items |-> Append(xorder.items, item)]
        BY <3>6, <4>1
      <4>3. Append(xorder.items, item) \in Seq(AgentItems)
        BY <3>6
      <4> QED BY <4>1, <4>2, <4>3
    <3>7. ASSUME NEW o, ExtractCollect(o)
          PROVE  MarksInv'
      <4> DEFINE r == [asked |-> xorder, items |-> Collation(xorder.items, xorder.lines)]
      <4>1. xorder # Nil /\ Writing("extract", r, o) /\ UNCHANGED <<found, xorder>>
        BY <3>7 DEF ExtractCollect
      <4>2. Extracted(r)
        BY <4>1 DEF Extracted
      <4> QED BY <2>3, <4>1, <4>2
    <3>8. CASE Skipped \/ Interrupted
      BY <2>2, <3>8 DEF Skipped, Interrupted
    <3> QED BY <2>4, <2>7, <3>1, <3>2, <3>3, <3>4, <3>5, <3>6, <3>7, <3>8 DEF HandNext
  <2> QED BY <2>5, <2>6, <2>7 DEF WordingNext
<1> QED BY <1>1, <1>2, PTL DEF WordingSpec

\* What the agent marked and could show a line for is marked in the list
\* that was written, whatever else was in the work-order.
THEOREM AgentsMarksStay == WordingSpec => []MarksSurvive
<1>1. MarksInv => MarksSurvive
  BY ExtractedMarks DEF MarksInv, MarksSurvive
<1> QED BY <1>1, MarksHold, PTL

-----------------------------------------------------------------------------
(* The dictionary of a job.                                                *)

\* A save that waits is for the company or for a user.
SavesFit ==
  /\ DOMAIN pending = Requests
  /\ \A r \in Requests : pending[r] # <<>> => pending[r][1].scope \in Scopes

\* What was stored for the user of a job when its dictionary was begun
\* stands, but for the entries that are not steady.
ReadInv ==
  /\ DOMAIN terms = Scopes
  /\ SavesFit
  /\ job.at = "reading" =>
        /\ job = [at |-> "reading", merged |-> job.merged, begun |-> job.begun, steady |-> job.steady]
        /\ job.merged = Over(job.begun["global"], Seed)
        /\ \A k \in Sources : <<"user", k>> \in job.steady =>
              /\ k \in DOMAIN terms["user"] <=> k \in DOMAIN job.begun["user"]
              /\ k \in DOMAIN terms["user"] => terms["user"][k] = job.begun["user"][k]
  /\ SteadyEntriesApply

LEMMA ReadHolds == WordingSpec => []ReadInv
<1>1. HandInit => ReadInv
  <2> SUFFICES ASSUME HandInit
               PROVE  ReadInv
    OBVIOUS
  <2>1. terms = [s \in Scopes |-> <<>>] /\ job.at = "idle" /\ pending = [r \in Requests |-> <<>>]
    BY DEF HandInit, WordInit
  <2> QED BY <2>1 DEF ReadInv, SavesFit, SteadyEntriesApply
<1>2. ReadInv /\ [WordingNext]_<<wordVars, hand>> => ReadInv'
  <2> SUFFICES ASSUME ReadInv, [WordingNext]_<<wordVars, hand>>
               PROVE  ReadInv'
    OBVIOUS
  <2>0. ASSUME pending' = pending
        PROVE  SavesFit'
    BY <2>0 DEF ReadInv, SavesFit
  <2>1. ASSUME UNCHANGED <<terms, job>>,
               SavesFit'
        PROVE  ReadInv'
    BY <2>1 DEF ReadInv, SteadyEntriesApply
  \* An edit of one entry: the entries besides it stand.
  <2>2. ASSUME NEW s \in Scopes, NEW k, NEW f,
               terms' = [terms EXCEPT ![s] = f], job' = Unsettled(job, s, k), job.at # "queued",
               \A j : j # k => /\ j \in DOMAIN f <=> j \in DOMAIN terms[s]
                               /\ j \in DOMAIN f => f[j] = terms[s][j],
               SavesFit'
        PROVE  ReadInv'
    <3>1. DOMAIN terms' = Scopes /\ "user" \in Scopes
      BY <2>2 DEF ReadInv, Scopes
    <3>2. CASE job.at # "reading"
      <4>1. job' = job
        BY <2>2, <3>2 DEF Unsettled
      <4> QED BY <2>2, <3>1, <3>2, <4>1 DEF ReadInv, SteadyEntriesApply
    <3>3. CASE job.at = "reading"
      <4>1. job' = [at |-> "reading", merged |-> job.merged, begun |-> job.begun,
                    steady |-> job.steady \ {<<s, k>>}]
        BY <2>2, <3>3 DEF ReadInv, Unsettled
      <4>2. ASSUME NEW j \in Sources, <<"user", j>> \in job'.steady
            PROVE  /\ j \in DOMAIN terms'["user"] <=> j \in DOMAIN job'.begun["user"]
                   /\ j \in DOMAIN terms'["user"] => terms'["user"][j] = job'.begun["user"][j]
        <5>1. <<"user", j>> \in job.steady /\ <<"user", j>> # <<s, k>> /\ job'.begun = job.begun
          BY <4>1, <4>2
        <5>2. /\ j \in DOMAIN terms["user"] <=> j \in DOMAIN job.begun["user"]
              /\ j \in DOMAIN terms["user"] => terms["user"][j] = job.begun["user"][j]
          BY <3>3, <5>1 DEF ReadInv
        <5>3. /\ j \in DOMAIN terms'["user"] <=> j \in DOMAIN terms["user"]
              /\ j \in DOMAIN terms'["user"] => terms'["user"][j] = terms["user"][j]
          <6>1. CASE s = "user"
            <7>1. j # k /\ terms'["user"] = f
              BY <2>2, <3>1, <5>1, <6>1 DEF ReadInv
            <7> QED BY <2>2, <6>1, <7>1
          <6>2. CASE s # "user"
            <7>1. terms'["user"] = terms["user"]
              BY <2>2, <3>1, <6>2 DEF ReadInv
            <7> QED BY <7>1
          <6> QED BY <6>1, <6>2
        <5> QED BY <5>1, <5>2, <5>3
      <4>3. job'.merged = Over(job'.begun["global"], Seed)
        BY <3>3, <4>1 DEF ReadInv
      <4>4. job'.at = "reading"
        BY <4>1
      <4>5. SteadyEntriesApply'
        BY <4>4 DEF SteadyEntriesApply
      <4> QED BY <2>2, <3>1, <4>1, <4>2, <4>3, <4>5 DEF ReadInv
    <3> QED BY <3>2, <3>3
  <2>3. ASSUME NEW r, NEW s \in Scopes, NEW e, CheckTerm(r, s, e)
        PROVE  ReadInv'
    <3>1. /\ UNCHANGED <<terms, job>>
          /\ pending' = [pending EXCEPT ![r] = <<[scope |-> s, source |-> e[1], target |-> e[2]]>>]
      BY <2>3 DEF CheckTerm
    <3>2. SavesFit'
      BY <3>1 DEF ReadInv, SavesFit
    <3> QED BY <2>1, <3>1, <3>2
  <2>4. ASSUME NEW r \in Requests, SaveTerm(r)
        PROVE  ReadInv'
    <3> DEFINE p == pending[r][1]
               f == Over([k \in {p.source} |-> p.target], terms[p.scope])
    <3>1. /\ terms' = [terms EXCEPT ![p.scope] = f] /\ job' = Unsettled(job, p.scope, p.source)
          /\ job.at # "queued" /\ pending' = [pending EXCEPT ![r] = <<>>]
          /\ pending[r] # <<>>
      BY <2>4 DEF SaveTerm
    <3>2. SavesFit' /\ p.scope \in Scopes
      BY <3>1 DEF ReadInv, SavesFit
    <3>3. \A j : j # p.source => /\ j \in DOMAIN f <=> j \in DOMAIN terms[p.scope]
                                 /\ j \in DOMAIN f => f[j] = terms[p.scope][j]
      BY DEF Over
    <3> HIDE DEF f, p
    <3> QED BY <2>2, <3>1, <3>2, <3>3
  <2>5. ASSUME NEW s \in Scopes, NEW k \in Sources, DeleteTerm(s, k)
        PROVE  ReadInv'
    <3> DEFINE f == [j \in DOMAIN terms[s] \ {k} |-> terms[s][j]]
    <3>1. /\ terms' = [terms EXCEPT ![s] = f] /\ job' = Unsettled(job, s, k)
          /\ job.at # "queued" /\ pending' = pending
      BY <2>5 DEF DeleteTerm, Watched, ReadInv
    <3>2. \A j : j # k => /\ j \in DOMAIN f <=> j \in DOMAIN terms[s]
                          /\ j \in DOMAIN f => f[j] = terms[s][j]
      OBVIOUS
    <3>3. SavesFit'
      BY <2>0, <3>1
    <3> HIDE DEF f
    <3> QED BY <2>2, <3>1, <3>2, <3>3
  <2>6. CASE ReadGlobal
    <3>1. /\ job' = [at |-> "reading", merged |-> Over(terms["global"], Seed),
                     begun |-> terms, steady |-> Scopes \X Sources]
          /\ UNCHANGED <<terms, pending>>
      BY <2>6 DEF ReadGlobal
    <3> QED BY <2>0, <3>1 DEF ReadInv, SteadyEntriesApply
  <2>7. CASE ReadPersonal
    <3>1. /\ job.at = "reading" /\ UNCHANGED <<terms, pending>>
          /\ job' = [at |-> "queued", glossary |-> Over(terms["user"], job.merged),
                     begun |-> job.begun, steady |-> job.steady]
      BY <2>7 DEF ReadPersonal, Layered
    <3>2. SteadyEntriesApply'
      <4> SUFFICES ASSUME NEW k \in Sources, <<"user", k>> \in job.steady
                   PROVE  LET own == job.begun["user"]
                              all == Over(own, Over(job.begun["global"], Seed))
                              now == Over(terms["user"], job.merged)
                          IN  /\ k \in DOMAIN now <=> k \in DOMAIN all
                              /\ k \in DOMAIN all => now[k] = all[k]
        BY <3>1 DEF SteadyEntriesApply
      <4> DEFINE rest == Over(job.begun["global"], Seed)
                 own == job.begun["user"]
                 mine == terms["user"]
      <4>1. job.merged = rest
        BY <3>1 DEF ReadInv
      <4>2. /\ k \in DOMAIN mine <=> k \in DOMAIN own
            /\ k \in DOMAIN mine => mine[k] = own[k]
        BY <3>1 DEF ReadInv
      <4> HIDE DEF rest, own, mine
      <4>3. /\ k \in DOMAIN Over(mine, rest) <=> k \in DOMAIN Over(own, rest)
            /\ k \in DOMAIN Over(own, rest) => Over(mine, rest)[k] = Over(own, rest)[k]
        BY ONLY <4>2 DEF Over
      <4> QED BY <4>1, <4>3 DEF rest, own, mine
    <3> QED BY <2>0, <3>1, <3>2 DEF ReadInv
  <2>8. CASE FallBack
    <3>1. /\ job' = [at |-> "queued", glossary |-> Seed, begun |-> job.begun, steady |-> {}]
          /\ UNCHANGED <<terms, pending>>
      BY <2>8 DEF FallBack
    <3> QED BY <2>0, <3>1 DEF ReadInv, SteadyEntriesApply
  <2>9. CASE Transcribe
    <3>1. job'.at = "corrected" /\ UNCHANGED <<terms, pending>>
      BY <2>9 DEF Transcribe
    <3> QED BY <2>0, <3>1 DEF ReadInv, SteadyEntriesApply
  <2>10. CASE Clean
    <3>1. job'.at = "done" /\ UNCHANGED <<terms, pending>>
      BY <2>10 DEF Clean
    <3> QED BY <2>0, <3>1 DEF ReadInv, SteadyEntriesApply
  <2>11. CASE WordNext
    BY <2>3, <2>4, <2>5, <2>6, <2>7, <2>8, <2>9, <2>10, <2>11 DEF WordNext
  <2>12. CASE HandNext /\ UNCHANGED wordVars
    BY <2>0, <2>1, <2>12 DEF wordVars
  <2>13. CASE UNCHANGED <<wordVars, hand>>
    BY <2>0, <2>1, <2>13 DEF wordVars
  <2> QED BY <2>11, <2>12, <2>13 DEF WordingNext
<1> QED BY <1>1, <1>2, PTL DEF WordingSpec

\* An entry nobody touched while a job read its dictionary is the one the
\* job corrects by, whatever else was edited between the two reads.
THEOREM SteadyEntriesAreUsed == WordingSpec => []SteadyEntriesApply
<1>1. ReadInv => SteadyEntriesApply
  BY DEF ReadInv
<1> QED BY <1>1, ReadHolds, PTL

-----------------------------------------------------------------------------
(* One pass over a text, place by place.                                   *)

\* Before the first place.
Uncorrected == [text |-> <<>>, next |-> 1, applied |-> {}]

\* The pass, place by place.
IsPass(u, t, dict) ==
  u[0] = Uncorrected /\ \A p \in 1..Len(t) : u[p] = CorrectedAt(u[p - 1], t, p, dict)

\* A corrected text is the last state of a pass.
LEMMA CorrectUnfolds ==
  ASSUME NEW t, Len(t) \in Nat, NEW dict
  PROVE  \E u : IsPass(u, t, dict) /\ Correct(t, dict) = u[Len(t)]
<1> DEFINE Step(x, p) == CorrectedAt(x, t, p, dict)
           Unfolds(g, k) == g = [p \in 0..k |-> IF p = 0 THEN Uncorrected ELSE Step(g[p - 1], p)]
           T == {k \in Nat : ~\E g : Unfolds(g, k)}
           m == Len(t)
           u == CHOOSE g : g = [p \in 0..m |-> IF p = 0 THEN Uncorrected ELSE Step(g[p - 1], p)]
<1>1. Correct(t, dict) = u[m]
  BY DEF Correct, Uncorrected
<1> HIDE DEF Step
<1>2. T = {}
  <2> SUFFICES ASSUME T # {}
               PROVE  FALSE
    OBVIOUS
  <2>1. PICK k \in T : \A j \in T : k <= j
    <3>1. T \in SUBSET Nat
      OBVIOUS
    <3> HIDE DEF T
    <3> QED BY <3>1, LeastOf
  <2>2. k # 0
    <3>1. Unfolds([p \in 0..0 |-> Uncorrected], 0)
      OBVIOUS
    <3> QED BY <3>1
  <2>3. k - 1 \in Nat /\ k - 1 \notin T
    <3>1. k \in Nat
      OBVIOUS
    <3> HIDE DEF T
    <3> QED BY <2>1, <2>2, <3>1
  <2>4. PICK g : Unfolds(g, k - 1)
    BY <2>3
  <2> DEFINE h == [p \in 0..k |-> IF p = 0 THEN Uncorrected ELSE Step(g[p - 1], p)]
  <2>5. \A p \in 0..(k - 1) : h[p] = g[p]
    <3>1. \A p \in 0..(k - 1) : g[p] = IF p = 0 THEN Uncorrected ELSE Step(g[p - 1], p)
      BY <2>4, Zenon
    <3>2. \A p \in 0..(k - 1) : p \in 0..k
      BY <2>2
    <3> QED BY <3>1, <3>2
  <2>6. \A p \in 0..k : p # 0 => p - 1 \in 0..(k - 1)
    BY <2>2
  <2>7. h = [p \in 0..k |-> IF p = 0 THEN Uncorrected ELSE Step(h[p - 1], p)]
    BY <2>5, <2>6
  <2> HIDE DEF h
  <2>8. Unfolds(h, k)
    BY <2>7
  <2> QED BY <2>1, <2>8
<1>3. u = [p \in 0..m |-> IF p = 0 THEN Uncorrected ELSE Step(u[p - 1], p)]
  <2>1. PICK g : Unfolds(g, m)
    BY <1>2
  <2> QED BY <2>1
<1> HIDE DEF u
<1>4. \A p \in 0..m : u[p] = IF p = 0 THEN Uncorrected ELSE Step(u[p - 1], p)
  BY <1>3, Zenon
<1>5. IsPass(u, t, dict)
  <2>1. 0 \in 0..m /\ \A p \in 1..m : p \in 0..m /\ p # 0
    OBVIOUS
  <2> QED BY <1>4, <2>1 DEF IsPass, Step
<1> QED BY <1>1, <1>5

\* A key that matches stands in the text.
LEMMA MatchStands ==
  ASSUME NEW S, NEW t \in Seq(S), NEW p \in 1..Len(t), NEW k \in Seq(S), k # <<>>, Matches(t, p, k)
  PROVE  /\ Len(k) \in Nat \ {0} /\ p + Len(k) - 1 \in Nat /\ p + Len(k) - 1 <= Len(t)
         /\ \A x \in 1..Len(k) : t[p + x - 1] = k[x]
<1> DEFINE e == p + Len(k) - 1
<1>1. e <= Len(t) /\ SubSeq(t, p, e) = k
  BY DEF Matches
<1>2. Len(k) \in Nat \ {0} /\ e \in Nat /\ p \in Nat /\ p >= 1
  OBVIOUS
<1>3. \A x \in 1..Len(k) : SubSeq(t, p, e)[x] = t[p + x - 1]
  BY <1>1, <1>2
<1> QED BY <1>1, <1>2, <1>3

\* What the pass does at one place.
Skips(a, b, p) == p < a.next /\ b = a

\* A place where no entry matches is copied.
Copies(a, b, t, p) ==
  a.next <= p /\ b = [text |-> Append(a.text, t[p]), next |-> p + 1, applied |-> a.applied]

\* A place where entry k matches: its target is written and the entry skipped.
Rewrites(a, b, p, k, new) ==
  a.next <= p /\ b = [text |-> a.text \o new, next |-> p + Len(k), applied |-> a.applied \cup {new}]

\* The entries that match at a place, and the longest of them.
Fits(t, p, dict) == {k \in DOMAIN dict : Matches(t, p, k)}

Longest(k, t, p, dict) == k \in Fits(t, p, dict) /\ \A j \in Fits(t, p, dict) : Len(k) >= Len(j)

\* Of the entries that match somewhere one is the longest.
LEMMA LongestStands ==
  ASSUME NEW S, NEW t \in Seq(S), NEW p \in 1..Len(t), NEW dict,
         \A k \in DOMAIN dict : k \in Seq(S) /\ k # <<>>, Fits(t, p, dict) # {}
  PROVE  \E k \in Fits(t, p, dict) : \A j \in Fits(t, p, dict) : Len(k) >= Len(j)
<1> DEFINE F == Fits(t, p, dict)
<1>0. F # {}
  OBVIOUS
<1>1. ASSUME NEW k \in F
      PROVE  Len(k) \in Nat /\ Len(k) <= Len(t)
  <2>1. k \in Seq(S) /\ k # <<>> /\ Matches(t, p, k)
    BY DEF Fits
  <2>2. Len(k) \in Nat \ {0} /\ p + Len(k) - 1 <= Len(t)
    BY <2>1, MatchStands
  <2> QED BY <2>2
<1> DEFINE gap(k) == Len(t) - Len(k)
           T == {gap(k) : k \in F}
<1> HIDE DEF F
<1>2. T \in SUBSET Nat /\ T # {}
  BY <1>0, <1>1
<1>3. PICK m \in T : \A j \in T : m <= j
  <2> HIDE DEF T
  <2> QED BY <1>2, LeastOf
<1>4. PICK k \in F : m = gap(k)
  OBVIOUS
<1>5. \A j \in F : gap(k) <= gap(j)
  BY <1>3, <1>4
<1>6. \A j \in F : Len(k) >= Len(j)
  BY <1>1, <1>4, <1>5
<1> QED BY <1>6 DEF F

\* What one place of the pass does.
LEMMA PassStep ==
  ASSUME NEW S, NEW t \in Seq(S), NEW p \in 1..Len(t), NEW dict,
         \A k \in DOMAIN dict : k \in Seq(S) /\ k # <<>>,
         NEW a, a.next \in Nat
  PROVE  LET b == CorrectedAt(a, t, p, dict)
         IN \/ Skips(a, b, p)
            \/ Fits(t, p, dict) = {} /\ Copies(a, b, t, p)
            \/ \E k : Longest(k, t, p, dict) /\ Rewrites(a, b, p, k, dict[k])
<1> DEFINE b == CorrectedAt(a, t, p, dict)
           F == Fits(t, p, dict)
           key == CHOOSE k \in F : \A j \in F : Len(k) >= Len(j)
<1>1. b = IF p < a.next THEN a
          ELSE IF F = {} THEN [text |-> Append(a.text, t[p]), next |-> p + 1, applied |-> a.applied]
          ELSE [text |-> a.text \o dict[key], next |-> p + Len(key), applied |-> a.applied \cup {dict[key]}]
  BY DEF CorrectedAt, Fits
<1>2. ASSUME F # {}
      PROVE  \E k \in F : \A j \in F : Len(k) >= Len(j)
  BY <1>2, LongestStands
<1>3. F # {} => Longest(key, t, p, dict)
  <2> SUFFICES ASSUME F # {}
               PROVE  Longest(key, t, p, dict)
    OBVIOUS
  <2>1. key \in F /\ \A j \in F : Len(key) >= Len(j)
    <3> HIDE DEF F
    <3> QED BY <1>2
  <2> QED BY <2>1 DEF Longest
<1> HIDE DEF b, F, key
<1>4. CASE p < a.next
  BY <1>1, <1>4 DEF Skips, b
<1>5. CASE ~(p < a.next) /\ F = {}
  BY <1>1, <1>5 DEF Copies, b, F
<1>6. CASE ~(p < a.next) /\ F # {}
  <2>1. Rewrites(a, b, p, key, dict[key])
    BY <1>1, <1>6 DEF Rewrites
  <2> QED BY <1>3, <1>6, <2>1 DEF b
<1> QED BY <1>4, <1>5, <1>6

\* Both parts of an entry are words.
LEMMA PlainWords ==
  ASSUME NEW signs, NEW dict, PlainGlossary(dict, signs), NEW k \in DOMAIN dict
  PROVE  /\ k \in Seq(signs \cup {Blank}) /\ k # <<>> /\ Len(k) \in Nat \ {0}
         /\ \A x \in 1..Len(k) : k[x] \in signs \ Digits
         /\ dict[k] \in Seq(signs \cup {Blank}) /\ Len(dict[k]) \in Nat \ {0}
         /\ \A x \in 1..Len(dict[k]) : dict[k][x] \in signs \ Digits
         /\ dict[k][1] # "tam"
<1> DEFINE A == signs \ Digits
           B == signs \cup {Blank}
           new == dict[k]
<1>1. k \in Seq(A) /\ k # <<>> /\ new \in Seq(A) /\ new # <<>> /\ new[1] # "tam"
  BY DEF PlainGlossary, Plain
<1>2. A \subseteq B
  OBVIOUS
<1> HIDE DEF A, B, new
<1>3. k \in Seq(B) /\ \A x \in 1..Len(k) : k[x] \in A
  BY ONLY <1>1, <1>2, SeqGrows
<1>4. new \in Seq(B) /\ \A x \in 1..Len(new) : new[x] \in A
  BY ONLY <1>1, <1>2, SeqGrows
<1>5. Len(k) \in Nat \ {0} /\ Len(new) \in Nat \ {0}
  BY ONLY <1>1
<1> QED BY <1>1, <1>3, <1>4, <1>5 DEF A, B, new

\* At each place: how far the pass has come, that what it has passed over are
\* no digits, and that it ends with a digit only where one was copied.
Passed(a, t, p, S) ==
  /\ a = [text |-> a.text, next |-> a.next, applied |-> a.applied]
  /\ a.text \in Seq(S) /\ a.next \in (p + 1)..(Len(t) + 1) /\ (p = 0 => a.next = 1)
  /\ \A x \in (p + 1)..(a.next - 1) : t[x] \notin Digits
  /\ p >= 1 /\ (a.next > p + 1 \/ t[p] \notin Digits) =>
       Len(a.text) >= 1 /\ a.text[Len(a.text)] \notin Digits

\* What a text begins with.
Begins(a, b) == Len(a) <= Len(b) /\ \A x \in 1..Len(a) : b[x] = a[x]

\* What one step adds.
LEMMA StepPasses ==
  ASSUME NEW signs, NEW dict, PlainGlossary(dict, signs), NEW t \in Seq(signs \cup {Blank}),
         NEW p \in 1..Len(t), NEW a, Passed(a, t, p - 1, signs \cup {Blank})
  PROVE  LET b == CorrectedAt(a, t, p, dict)
         IN Passed(b, t, p, signs \cup {Blank}) /\ Begins(a.text, b.text) /\ a.applied \subseteq b.applied
<1> DEFINE S == signs \cup {Blank}
           b == CorrectedAt(a, t, p, dict)
<1>0. a = [text |-> a.text, next |-> a.next, applied |-> a.applied]
  BY DEF Passed
<1>1. /\ a.text \in Seq(S) /\ a.next \in p..(Len(t) + 1) /\ p \in Nat /\ Len(t) \in Nat /\ p <= Len(t) /\ p >= 1
      /\ (p = 1 => a.next = 1)
      /\ \A x \in p..(a.next - 1) : t[x] \notin Digits
      /\ p - 1 >= 1 /\ (a.next > p \/ t[p - 1] \notin Digits) =>
           Len(a.text) >= 1 /\ a.text[Len(a.text)] \notin Digits
  BY DEF Passed
<1>2. \/ Skips(a, b, p)
      \/ Fits(t, p, dict) = {} /\ Copies(a, b, t, p)
      \/ \E k : Longest(k, t, p, dict) /\ Rewrites(a, b, p, k, dict[k])
  <2>1. \A k \in DOMAIN dict : k \in Seq(S) /\ k # <<>>
    BY PlainWords
  <2>2. a.next \in Nat /\ t \in Seq(S)
    BY <1>1
  <2> HIDE DEF S
  <2> QED BY <2>1, <2>2, PassStep
<1>3. t[p] \in S /\ Len(a.text) \in Nat
  BY <1>1
<1> HIDE DEF b
<1>4. CASE Skips(a, b, p)
  <2>1. b = a /\ p < a.next
    BY <1>4 DEF Skips
  <2>2. t[p] \notin Digits /\ a.next > p
    BY <1>1, <2>1
  <2>3. Begins(a.text, b.text) /\ a.applied \subseteq b.applied
    BY <1>3, <2>1 DEF Begins
  <2>4. Len(a.text) >= 1 /\ a.text[Len(a.text)] \notin Digits
    BY <1>1, <2>2
  <2>5. Passed(b, t, p, S)
    <3>1. a.next \in (p + 1)..(Len(t) + 1) /\ \A x \in (p + 1)..(a.next - 1) : t[x] \notin Digits
      BY <1>1, <2>1
    <3> HIDE DEF S
    <3> QED BY <1>0, <1>1, <2>1, <2>4, <3>1 DEF Passed
  <2> QED BY <2>1, <2>3, <2>5 DEF b
<1>5. CASE Copies(a, b, t, p)
  <2>1. b.text = Append(a.text, t[p]) /\ b.next = p + 1 /\ b.applied = a.applied
    BY <1>5 DEF Copies
  <2>0. b = [text |-> b.text, next |-> b.next, applied |-> b.applied]
    BY <1>5 DEF Copies
  <2>2. /\ b.text \in Seq(S) /\ Len(b.text) = Len(a.text) + 1 /\ b.text[Len(a.text) + 1] = t[p]
        /\ \A x \in 1..Len(a.text) : b.text[x] = a.text[x]
    <3> HIDE DEF S
    <3> QED BY <1>1, <1>3, <2>1
  <2>3. Begins(a.text, b.text)
    BY <1>3, <2>2 DEF Begins
  <2>4. Passed(b, t, p, S)
    <3> HIDE DEF S
    <3> QED BY <1>1, <1>3, <2>0, <2>1, <2>2 DEF Passed
  <2> QED BY <2>1, <2>3, <2>4 DEF b
<1>6. ASSUME NEW k, Longest(k, t, p, dict), Rewrites(a, b, p, k, dict[k])
      PROVE  Passed(b, t, p, S) /\ Begins(a.text, b.text) /\ a.applied \subseteq b.applied
  <2> DEFINE new == dict[k]
  <2>1. b.text = a.text \o new /\ b.next = p + Len(k) /\ b.applied = a.applied \cup {new}
    BY <1>6 DEF Rewrites
  <2>0. b = [text |-> b.text, next |-> b.next, applied |-> b.applied]
    BY <1>6 DEF Rewrites
  <2>2. k \in DOMAIN dict /\ Matches(t, p, k)
    BY <1>6 DEF Longest, Fits
  <2>3. /\ k \in Seq(S) /\ k # <<>> /\ \A x \in 1..Len(k) : k[x] \notin Digits
        /\ new \in Seq(S) /\ Len(new) \in Nat \ {0} /\ \A x \in 1..Len(new) : new[x] \notin Digits
    BY <2>2, PlainWords
  <2> HIDE DEF S, new
  <2>4. /\ Len(k) \in Nat \ {0} /\ p + Len(k) - 1 <= Len(t)
        /\ \A x \in 1..Len(k) : t[p + x - 1] = k[x]
    <3>1. t \in Seq(S)
      BY DEF S
    <3> QED BY <2>2, <2>3, <3>1, MatchStands
  <2>5. /\ b.text \in Seq(S) /\ Len(b.text) = Len(a.text) + Len(new)
        /\ \A x \in 1..Len(a.text) : b.text[x] = a.text[x]
        /\ \A x \in 1..Len(new) : b.text[Len(a.text) + x] = new[x]
    BY ONLY <1>1, <2>1, <2>3, ConcatEntries
  <2>6. Begins(a.text, b.text)
    BY <1>3, <2>3, <2>5 DEF Begins
  <2>7. \A x \in (p + 1)..(b.next - 1) : t[x] \notin Digits
    <3> TAKE x \in (p + 1)..(b.next - 1)
    <3>1. x - p + 1 \in 1..Len(k) /\ x = p + (x - p + 1) - 1
      BY <1>1, <2>1, <2>4
    <3> QED BY <2>3, <2>4, <3>1
  <2>8. Len(b.text) >= 1 /\ b.text[Len(b.text)] \notin Digits
    <3>1. Len(new) \in 1..Len(new)
      BY <2>3
    <3> QED BY <1>3, <2>3, <2>5, <3>1
  <2>9. Passed(b, t, p, S)
    <3>1. b.next \in (p + 1)..(Len(t) + 1) /\ p # 0
      BY <1>1, <2>1, <2>4
    <3> QED BY <2>0, <2>5, <2>7, <2>8, <3>1 DEF Passed
  <2> QED BY <2>1, <2>6, <2>9
<1> QED BY <1>2, <1>4, <1>5, <1>6 DEF b, S

-----------------------------------------------------------------------------
(* Numbers of a text: a digit is copied.                                   *)

\* Every state of a pass is a text so far and the place it goes on from.
LEMMA PassHolds ==
  ASSUME NEW signs, NEW dict, PlainGlossary(dict, signs), NEW t \in Seq(signs \cup {Blank}),
         NEW u, IsPass(u, t, dict), NEW p \in 0..Len(t)
  PROVE  Passed(u[p], t, p, signs \cup {Blank})
<1> DEFINE S == signs \cup {Blank}
           T == {q \in 0..Len(t) : ~Passed(u[q], t, q, S)}
<1>1. /\ u[0] = Uncorrected
      /\ \A q \in 1..Len(t) : u[q] = CorrectedAt(u[q - 1], t, q, dict)
  BY DEF IsPass
<1>2. T = {}
  <2> SUFFICES ASSUME T # {}
               PROVE  FALSE
    OBVIOUS
  <2>1. PICK q \in T : \A j \in T : q <= j
    <3>1. T \in SUBSET Nat
      OBVIOUS
    <3> HIDE DEF T
    <3> QED BY <3>1, LeastOf
  <2>2. q \in 0..Len(t) /\ ~Passed(u[q], t, q, S)
    OBVIOUS
  <2>3. q # 0
    <3>1. <<>> \in Seq(S) /\ Len(t) \in Nat
      OBVIOUS
    <3>2. Passed(Uncorrected, t, 0, S)
      <4> HIDE DEF S
      <4> QED BY <3>1 DEF Passed, Uncorrected
    <3> QED BY <1>1, <2>2, <3>2
  <2>4. q \in 1..Len(t) /\ q - 1 \in 0..Len(t) /\ q - 1 \notin T
    <3>1. q \in 1..Len(t) /\ q - 1 \in 0..Len(t) /\ ~(q <= q - 1)
      BY <2>2, <2>3
    <3> HIDE DEF T
    <3> QED BY <2>1, <3>1
  <2>5. Passed(u[q - 1], t, q - 1, S)
    BY <2>4
  <2>6. Passed(CorrectedAt(u[q - 1], t, q, dict), t, q, S)
    <3> HIDE DEF T
    <3> QED BY <2>4, <2>5, StepPasses
  <2> QED BY <1>1, <2>2, <2>4, <2>6
<1> QED BY <1>2

\* Beginning of a beginning.
LEMMA BeginsAgain ==
  ASSUME NEW a, NEW b, NEW c, Len(a) \in Nat, Len(b) \in Nat, Len(c) \in Nat, Begins(a, b), Begins(b, c)
  PROVE  Begins(a, c)
<1>1. Len(a) <= Len(b) /\ Len(b) <= Len(c) /\ Len(a) <= Len(c)
  BY DEF Begins
<1>2. ASSUME NEW x \in 1..Len(a)
      PROVE  c[x] = a[x]
  <2>1. x \in 1..Len(b)
    BY <1>1
  <2> QED BY <2>1 DEF Begins
<1> QED BY <1>1, <1>2 DEF Begins

\* What was written stays, and so does what was applied.
LEMMA PassGrows ==
  ASSUME NEW signs, NEW dict, PlainGlossary(dict, signs), NEW t \in Seq(signs \cup {Blank}),
         NEW u, IsPass(u, t, dict), NEW p \in 0..Len(t), NEW q \in p..Len(t)
  PROVE  Begins(u[p].text, u[q].text) /\ u[p].applied \subseteq u[q].applied
<1> DEFINE Grown(r) == Begins(u[p].text, u[r].text) /\ u[p].applied \subseteq u[r].applied
           T == {r \in p..Len(t) : ~Grown(r)}
<1>1. \A r \in 0..Len(t) : Passed(u[r], t, r, signs \cup {Blank})
  BY PassHolds
<1>2. \A r \in 0..Len(t) : Len(u[r].text) \in Nat
  BY <1>1 DEF Passed
<1>3. T = {}
  <2> SUFFICES ASSUME T # {}
               PROVE  FALSE
    OBVIOUS
  <2>1. PICK r \in T : \A j \in T : r <= j
    <3>1. T \in SUBSET Nat
      OBVIOUS
    <3> HIDE DEF T
    <3> QED BY <3>1, LeastOf
  <2>2. r \in p..Len(t) /\ ~Grown(r)
    OBVIOUS
  <2>3. r # p
    BY <1>2, <2>2 DEF Begins
  <2>4. r \in 1..Len(t) /\ r - 1 \in p..Len(t) /\ r - 1 \in 0..Len(t) /\ r - 1 \notin T
    <3>1. r \in 1..Len(t) /\ r - 1 \in p..Len(t) /\ r - 1 \in 0..Len(t) /\ ~(r <= r - 1)
      BY <2>2, <2>3
    <3> HIDE DEF T
    <3> QED BY <2>1, <3>1
  <2>5. Grown(r - 1)
    BY <2>4
  <2>6. Begins(u[r - 1].text, u[r].text) /\ u[r - 1].applied \subseteq u[r].applied
    <3> HIDE DEF T
    <3>1. u[r] = CorrectedAt(u[r - 1], t, r, dict)
      BY <2>4 DEF IsPass
    <3> DEFINE a == u[r - 1]
    <3>2. Passed(a, t, r - 1, signs \cup {Blank})
      BY <1>1, <2>4
    <3> HIDE DEF a
    <3>3. /\ Begins(a.text, CorrectedAt(a, t, r, dict).text)
          /\ a.applied \subseteq CorrectedAt(a, t, r, dict).applied
      BY <2>4, <3>2, StepPasses
    <3> QED BY <3>1, <3>3 DEF a
  <2>7. Begins(u[p].text, u[r].text)
    <3>1. p \in 0..Len(t) /\ r \in 0..Len(t)
      BY <2>4
    <3>2. Len(u[p].text) \in Nat /\ Len(u[r - 1].text) \in Nat /\ Len(u[r].text) \in Nat
      BY <1>2, <2>4, <3>1
    <3> HIDE DEF T
    <3> QED BY <2>5, <2>6, <3>2, BeginsAgain
  <2> QED BY <2>2, <2>5, <2>6, <2>7
<1> QED BY <1>3

\* The place was copied, and nothing was skipped.
IsCopied(u, t, p) == u[p].text = Append(u[p - 1].text, t[p]) /\ u[p].next = p + 1

\* A digit is copied.
LEMMA DigitCopied ==
  ASSUME NEW signs, NEW dict, PlainGlossary(dict, signs), NEW t \in Seq(signs \cup {Blank}),
         NEW u, IsPass(u, t, dict), NEW p \in 1..Len(t), t[p] \in Digits
  PROVE  IsCopied(u, t, p)
<1> DEFINE S == signs \cup {Blank}
           a == u[p - 1]
<1>1. p - 1 \in 0..Len(t) /\ p \in Nat
  OBVIOUS
<1>2. Passed(a, t, p - 1, S)
  BY <1>1, PassHolds
<1>3. a.next \in p..(Len(t) + 1) /\ \A x \in p..(a.next - 1) : t[x] \notin Digits
  BY <1>1, <1>2 DEF Passed
<1>4. u[p] = CorrectedAt(a, t, p, dict)
  BY DEF IsPass
<1>5. \/ Skips(a, u[p], p)
      \/ Fits(t, p, dict) = {} /\ Copies(a, u[p], t, p)
      \/ \E k : Longest(k, t, p, dict) /\ Rewrites(a, u[p], p, k, dict[k])
  <2>1. \A k \in DOMAIN dict : k \in Seq(S) /\ k # <<>>
    BY PlainWords
  <2>2. a.next \in Nat /\ t \in Seq(S)
    BY <1>1, <1>3
  <2> HIDE DEF S, a
  <2> QED BY <1>4, <2>1, <2>2, PassStep
<1>6. ~Skips(a, u[p], p)
  BY <1>3 DEF Skips
<1>7. ASSUME NEW k, Longest(k, t, p, dict)
      PROVE  FALSE
  <2>1. k \in DOMAIN dict /\ Matches(t, p, k)
    BY <1>7 DEF Longest, Fits
  <2>2. k \in Seq(S) /\ k # <<>> /\ \A x \in 1..Len(k) : k[x] \notin Digits
    BY <2>1, PlainWords
  <2>3. Len(k) \in Nat \ {0} /\ \A x \in 1..Len(k) : t[p + x - 1] = k[x]
    <3>1. t \in Seq(S)
      OBVIOUS
    <3> HIDE DEF S
    <3> QED BY <2>1, <2>2, <3>1, MatchStands
  <2>4. 1 \in 1..Len(k) /\ p + 1 - 1 = p
    BY <2>3
  <2> QED BY <2>2, <2>3, <2>4
<1>8. Copies(a, u[p], t, p)
  BY <1>5, <1>6, <1>7
<1> QED BY <1>8 DEF Copies, IsCopied

\* What follows a digit follows it in the text that was written, or is the
\* first sign of an entry.
LEMMA AfterDigit ==
  ASSUME NEW signs, NEW dict, PlainGlossary(dict, signs), NEW t \in Seq(signs \cup {Blank}),
         NEW u, IsPass(u, t, dict), NEW p \in 1..Len(t), t[p] \in Digits
  PROVE  LET c == u[Len(t)].text
             l == Len(u[p].text)
         IN \/ p = Len(t) /\ Len(c) = l
            \/ /\ p < Len(t) /\ l + 1 <= Len(c)
               /\ c[l + 1] = t[p + 1] \/ c[l + 1] \notin Digits \cup {"tam"}
<1>0. u[p].next = p + 1
  <2>1. IsCopied(u, t, p)
    BY DigitCopied
  <2> QED BY <2>1 DEF IsCopied
<1> DEFINE S == signs \cup {Blank}
           c == u[Len(t)].text
           a == u[p]
           b == u[p + 1]
           q == p + 1
           l == Len(a.text)
<1>1. a.next = p + 1
  BY <1>0
<1>2. CASE p = Len(t)
  BY <1>2
<1>3. CASE p # Len(t)
  <2>1. q \in 1..Len(t) /\ q \in Nat /\ p \in 0..Len(t) /\ q - 1 = p /\ p < Len(t) /\ q \in 0..Len(t)
        /\ Len(t) \in q..Len(t)
    BY <1>3
  <2>2. Begins(b.text, c)
    <3> HIDE DEF q
    <3>1. Begins(u[q].text, u[Len(t)].text)
      BY <2>1, PassGrows
    <3> QED BY <3>1 DEF q
  <2>3. Passed(a, t, p, S)
    BY <2>1, PassHolds
  <2>4. b = CorrectedAt(a, t, q, dict)
    BY <2>1 DEF IsPass
  <2>5. /\ Len(a.text) \in Nat /\ a.text \in Seq(S) /\ t \in Seq(S) /\ a.next \in Nat
    BY <1>1, <2>1, <2>3 DEF Passed
  <2>6. \/ Skips(a, b, q)
        \/ Fits(t, q, dict) = {} /\ Copies(a, b, t, q)
        \/ \E k : Longest(k, t, q, dict) /\ Rewrites(a, b, q, k, dict[k])
    <3>1. \A k \in DOMAIN dict : k \in Seq(S) /\ k # <<>>
      BY PlainWords
    <3> HIDE DEF S, a, b, q
    <3> QED BY <2>1, <2>4, <2>5, <3>1, PassStep
  <2>7. ~Skips(a, b, q)
    BY <1>1, <2>1 DEF Skips
  <2>8. CASE Copies(a, b, t, q)
    <3>1. b.text = Append(a.text, t[q])
      BY <2>8 DEF Copies
    <3>2. Len(b.text) = l + 1 /\ b.text[l + 1] = t[q]
      <4>1. t[q] \in S
        BY <2>1, <2>5
      <4> HIDE DEF S, a, b, q
      <4> QED BY <2>5, <3>1, <4>1
    <3>3. l + 1 <= Len(c) /\ c[l + 1] = b.text[l + 1]
      <4>1. l + 1 \in 1..Len(b.text)
        BY <2>5, <3>2
      <4> HIDE DEF a, b, c, l
      <4> QED BY <2>2, <3>2, <4>1 DEF Begins
    <3> QED BY <2>1, <3>2, <3>3
  <2>9. ASSUME NEW k, Longest(k, t, q, dict), Rewrites(a, b, q, k, dict[k])
        PROVE  l + 1 <= Len(c) /\ c[l + 1] \notin Digits \cup {"tam"}
    <3> DEFINE new == dict[k]
    <3>1. b.text = a.text \o new /\ k \in DOMAIN dict
      BY <2>9 DEF Rewrites, Longest, Fits
    <3>2. new \in Seq(S) /\ Len(new) \in Nat \ {0} /\ new[1] # "tam" /\ \A x \in 1..Len(new) : new[x] \notin Digits
      BY <3>1, PlainWords
    <3> HIDE DEF S, new
    <3>3. Len(b.text) = l + Len(new) /\ \A x \in 1..Len(new) : b.text[l + x] = new[x]
      <4> HIDE DEF a, b
      <4> QED BY ONLY <2>5, <3>1, <3>2, ConcatEntries DEF l
    <3>4. 1 \in 1..Len(new) /\ l + 1 <= Len(b.text) /\ l + 1 \in 1..Len(b.text)
      BY <2>5, <3>2, <3>3
    <3>5. b.text[l + 1] \notin Digits \cup {"tam"}
      BY <3>2, <3>3, <3>4
    <3>6. Len(b.text) <= Len(c) /\ c[l + 1] = b.text[l + 1] /\ Len(b.text) \in Nat /\ Len(c) \in Nat /\ l \in Nat
      <4>1. Len(b.text) <= Len(c) /\ c[l + 1] = b.text[l + 1]
        <5> HIDE DEF a, b, c, l
        <5> QED BY <2>2, <3>4 DEF Begins
      <4>2. Passed(b, t, q, S) /\ Passed(u[Len(t)], t, Len(t), S)
        <5>1. Len(t) \in 0..Len(t)
          BY <2>1
        <5> HIDE DEF q
        <5>2. Passed(u[q], t, q, S) /\ Passed(u[Len(t)], t, Len(t), S)
          BY <2>1, <5>1, PassHolds DEF S
        <5> QED BY <5>2 DEF q
      <4>3. Len(b.text) \in Nat /\ Len(c) \in Nat
        BY <4>2 DEF Passed
      <4> QED BY <2>5, <4>1, <4>3
    <3>7. l + 1 <= Len(c)
      <4> HIDE DEF c, l, b
      <4> QED BY ONLY <3>4, <3>6
    <3> QED BY <3>5, <3>6, <3>7
  <2> QED BY <2>1, <2>6, <2>7, <2>8, <2>9
<1> QED BY <1>2, <1>3

\* What follows a digit, for a text and the one it becomes.
Follows(t, c, p, l) ==
  \/ p = Len(t) /\ Len(c) = l
  \/ /\ p < Len(t) /\ l + 1 <= Len(c)
     /\ c[l + 1] = t[p + 1] \/ c[l + 1] \notin Digits \cup {"tam"}

\* Of a digit, in the last text of the pass.
LEMMA DigitFollows ==
  ASSUME NEW signs, NEW dict, PlainGlossary(dict, signs), NEW t \in Seq(signs \cup {Blank}),
         NEW u, IsPass(u, t, dict), NEW p \in 1..Len(t), t[p] \in Digits
  PROVE  Follows(t, u[Len(t)].text, p, Len(u[p].text))
BY AfterDigit DEF Follows

\* The texts of a pass, and that each begins the last one.
LEMMA PassTexts ==
  ASSUME NEW signs, NEW dict, PlainGlossary(dict, signs), NEW t \in Seq(signs \cup {Blank}),
         NEW u, IsPass(u, t, dict), NEW p \in 0..Len(t)
  PROVE  /\ u[p].text \in Seq(signs \cup {Blank}) /\ Len(u[p].text) \in Nat
         /\ u[p].next \in Nat
         /\ Begins(u[p].text, u[Len(t)].text)
<1>1. Len(t) \in p..Len(t)
  OBVIOUS
<1>2. Begins(u[p].text, u[Len(t)].text)
  BY <1>1, PassGrows
<1>3. Passed(u[p], t, p, signs \cup {Blank})
  BY PassHolds
<1> DEFINE S == signs \cup {Blank}
<1>4. u[p].text \in Seq(S) /\ u[p].next \in (p + 1)..(Len(t) + 1)
  BY <1>3 DEF Passed
<1>5. u[p].next \in Nat
  BY <1>4
<1>6. Len(u[p].text) \in Nat
  BY <1>4
<1> QED BY <1>2, <1>4, <1>5, <1>6

\* A digit is written in the place after what was written before it.
LEMMA DigitWritten ==
  ASSUME NEW signs, NEW dict, PlainGlossary(dict, signs), NEW t \in Seq(signs \cup {Blank}),
         NEW u, IsPass(u, t, dict), NEW p \in 1..Len(t), t[p] \in Digits
  PROVE  /\ Len(u[p].text) = Len(u[p - 1].text) + 1
         /\ Len(u[p].text) <= Len(u[Len(t)].text)
         /\ u[Len(t)].text[Len(u[p].text)] = t[p]
<1> DEFINE S == signs \cup {Blank}
           c == u[Len(t)].text
           a == u[p - 1].text
           b == u[p].text
<1>1. p - 1 \in 0..Len(t) /\ p \in 0..Len(t)
  OBVIOUS
<1>2. a \in Seq(S) /\ Len(a) \in Nat
  BY <1>1, PassTexts
<1>3. Len(b) \in Nat /\ Begins(b, c)
  BY <1>1, PassTexts
<1>4. IsCopied(u, t, p)
  BY DigitCopied
<1>5. b = Append(a, t[p])
  BY <1>4 DEF IsCopied
<1>6. t[p] \in S
  OBVIOUS
<1> HIDE DEF S, a, b, c
<1>7. Len(b) = Len(a) + 1 /\ b[Len(a) + 1] = t[p]
  BY ONLY <1>2, <1>5, <1>6
<1>8. Len(b) <= Len(c) /\ Len(b) \in 1..Len(b)
  BY <1>2, <1>3, <1>7 DEF Begins
<1>9. c[Len(b)] = t[p]
  BY <1>3, <1>7, <1>8 DEF Begins
<1> QED BY <1>7, <1>8, <1>9 DEF a, b, c

\* What precedes a number in what was written is no digit either.
LEMMA BeforeDigit ==
  ASSUME NEW signs, NEW dict, PlainGlossary(dict, signs), NEW t \in Seq(signs \cup {Blank}),
         NEW u, IsPass(u, t, dict), NEW p \in 1..Len(t), p = 1 \/ t[p - 1] \notin Digits
  PROVE  \/ Len(u[p - 1].text) = 0
         \/ Len(u[p - 1].text) >= 1 /\ u[Len(t)].text[Len(u[p - 1].text)] \notin Digits
<1> DEFINE S == signs \cup {Blank}
           c == u[Len(t)].text
           a == u[p - 1]
<1>1. p - 1 \in 0..Len(t)
  OBVIOUS
<1>2. Len(a.text) \in Nat /\ Begins(a.text, c)
  BY <1>1, PassTexts
<1>3. Passed(a, t, p - 1, S)
  BY <1>1, PassHolds
<1>4. CASE p = 1
  <2>1. a = Uncorrected
    BY <1>4 DEF IsPass
  <2> QED BY <2>1 DEF Uncorrected
<1>5. CASE p # 1
  <2>1. p - 1 >= 1 /\ t[p - 1] \notin Digits
    BY <1>5
  <2> HIDE DEF a, c
  <2>2. Len(a.text) >= 1 /\ a.text[Len(a.text)] \notin Digits
    BY <1>3, <2>1 DEF Passed
  <2>3. c[Len(a.text)] = a.text[Len(a.text)]
    BY <1>2, <2>2 DEF Begins
  <2> QED BY <2>2, <2>3 DEF a, c
<1> QED BY <1>4, <1>5

\* The digits of a number, from its first place to its last.
IsNumber(t, i, j) ==
  /\ i \in 1..Len(t) /\ j \in i..Len(t)
  /\ \A x \in i..j : t[x] \in Digits
  /\ i = 1 \/ t[i - 1] \notin Digits
  /\ j = Len(t) \/ t[j + 1] \notin Digits

\* The numbers of a text, by the places they stand at.
LEMMA NumbersAre ==
  ASSUME NEW S, NEW t \in Seq(S), NEW n
  PROVE  n \in Numbers(t) <=> \E i, j \in 1..Len(t) : IsNumber(t, i, j) /\ n = SubSeq(t, i, j)
<1> DEFINE R == {s \in (DOMAIN t) \X (DOMAIN t) :
                   /\ s[1] <= s[2] /\ \A p \in s[1]..s[2] : t[p] \in Digits
                   /\ s[1] = 1 \/ t[s[1] - 1] \notin Digits
                   /\ s[2] = Len(t) \/ t[s[2] + 1] \notin Digits}
<1>1. Numbers(t) = {SubSeq(t, r[1], r[2]) : r \in R}
  BY DEF Numbers
<1>2. DOMAIN t = 1..Len(t)
  OBVIOUS
<1>3. ASSUME NEW i \in 1..Len(t), NEW j \in 1..Len(t)
      PROVE  IsNumber(t, i, j) <=> <<i, j>> \in R
  <2> DEFINE s == <<i, j>>
  <2>1. s \in (DOMAIN t) \X (DOMAIN t) /\ s[1] = i /\ s[2] = j
    BY <1>2
  <2>2. i <= j <=> j \in i..Len(t)
    OBVIOUS
  <2> HIDE DEF s
  <2>3. s \in R <=> /\ i <= j /\ \A p \in i..j : t[p] \in Digits
                    /\ i = 1 \/ t[i - 1] \notin Digits
                    /\ j = Len(t) \/ t[j + 1] \notin Digits
    BY <2>1
  <2> HIDE DEF R
  <2> QED BY <2>2, <2>3 DEF IsNumber, s
<1>4. \A r \in R : r[1] \in 1..Len(t) /\ r[2] \in 1..Len(t) /\ r = <<r[1], r[2]>>
  BY <1>2
<1>5. ASSUME n \in Numbers(t)
      PROVE  \E i, j \in 1..Len(t) : IsNumber(t, i, j) /\ n = SubSeq(t, i, j)
  <2>1. PICK r \in R : n = SubSeq(t, r[1], r[2])
    BY <1>1, <1>5
  <2> HIDE DEF R
  <2>2. r[1] \in 1..Len(t) /\ r[2] \in 1..Len(t) /\ IsNumber(t, r[1], r[2])
    BY <1>3, <1>4
  <2> QED BY <2>1, <2>2
<1>6. ASSUME NEW i \in 1..Len(t), NEW j \in 1..Len(t), IsNumber(t, i, j), n = SubSeq(t, i, j)
      PROVE  n \in Numbers(t)
  <2>1. <<i, j>> \in R
    BY <1>3, <1>6
  <2> HIDE DEF R
  <2>2. n = SubSeq(t, <<i, j>>[1], <<i, j>>[2])
    BY <1>6
  <2> QED BY <1>1, <2>1, <2>2
<1> QED BY <1>5, <1>6

\* The digits of a number are written one after the other.
LEMMA RunWritten ==
  ASSUME NEW signs, NEW dict, PlainGlossary(dict, signs), NEW t \in Seq(signs \cup {Blank}),
         NEW u, IsPass(u, t, dict), NEW i, NEW j, IsNumber(t, i, j), NEW x \in i..j
  PROVE  LET l == Len(u[i - 1].text)
         IN /\ Len(u[x].text) = l + (x - i) + 1
            /\ l + (x - i) + 1 <= Len(u[Len(t)].text)
            /\ u[Len(t)].text[l + (x - i) + 1] = t[x]
<1> DEFINE l == Len(u[i - 1].text)
           at(y) == l + (y - i) + 1
           T == {y \in i..j : Len(u[y].text) # at(y)}
<1>1. /\ i \in 1..Len(t) /\ j \in i..Len(t) /\ \A y \in i..j : t[y] \in Digits
      /\ i \in Nat /\ j \in Nat /\ i >= 1
  BY DEF IsNumber
<1>2. \A y \in i..j : y \in 1..Len(t) /\ t[y] \in Digits
  BY <1>1
<1>3. ASSUME NEW y \in i..j
      PROVE  /\ Len(u[y].text) = Len(u[y - 1].text) + 1
             /\ Len(u[y].text) <= Len(u[Len(t)].text)
             /\ u[Len(t)].text[Len(u[y].text)] = t[y]
  BY <1>2, DigitWritten
<1>4. l \in Nat
  <2>1. i - 1 \in 0..Len(t)
    BY <1>1
  <2> QED BY <2>1, PassTexts
<1>5. T = {}
  <2> SUFFICES ASSUME T # {}
               PROVE  FALSE
    OBVIOUS
  <2>1. PICK y \in T : \A k \in T : y <= k
    <3>1. T \in SUBSET Nat
      BY <1>1
    <3> HIDE DEF T
    <3> QED BY <3>1, LeastOf
  <2>2. y \in i..j /\ Len(u[y].text) # at(y)
    OBVIOUS
  <2>3. y # i
    <3>1. at(i) = l + 1
      BY <1>1, <1>4
    <3> QED BY <1>3, <2>2, <3>1
  <2>4. y - 1 \in i..j /\ y - 1 \notin T
    <3>1. y - 1 \in i..j /\ ~(y <= y - 1)
      BY <1>1, <2>2, <2>3
    <3> HIDE DEF T
    <3> QED BY <2>1, <3>1
  <2>5. Len(u[y - 1].text) = at(y - 1)
    BY <2>4
  <2>6. Len(u[y].text) = Len(u[y - 1].text) + 1
    BY <1>3, <2>2
  <2>7. at(y - 1) + 1 = at(y)
    BY <1>1, <1>4, <2>2
  <2> QED BY <2>2, <2>5, <2>6, <2>7
<1>6. Len(u[x].text) = at(x)
  BY <1>5
<1> QED BY <1>3, <1>6

\* A number of one text written into another after its first l places.
Kept(t, c, i, j, l) ==
  /\ l \in Nat /\ IsNumber(c, l + 1, l + (j - i) + 1)
  /\ \A x \in i..j : c[l + (x - i) + 1] = t[x]
  /\ Follows(t, c, j, l + (j - i) + 1)

\* A number of the text is one of what the glossary made of it, and what
\* follows it is what followed it or is neither digit nor "tam".
LEMMA RunKept ==
  ASSUME NEW signs, NEW dict, PlainGlossary(dict, signs), NEW t \in Seq(signs \cup {Blank}),
         NEW u, IsPass(u, t, dict), NEW i, NEW j, IsNumber(t, i, j)
  PROVE  Kept(t, u[Len(t)].text, i, j, Len(u[i - 1].text))
<1> DEFINE c == u[Len(t)].text
           l == Len(u[i - 1].text)
           e == l + (j - i) + 1
<1>1. /\ i \in 1..Len(t) /\ j \in i..Len(t) /\ \A y \in i..j : t[y] \in Digits
      /\ i \in Nat /\ j \in Nat /\ i >= 1 /\ j \in 1..Len(t) /\ j \in i..j
      /\ i = 1 \/ t[i - 1] \notin Digits
      /\ j = Len(t) \/ t[j + 1] \notin Digits
  BY DEF IsNumber
<1>2. l \in Nat /\ Len(c) \in Nat
  <2>1. i - 1 \in 0..Len(t) /\ Len(t) \in 0..Len(t)
    BY <1>1
  <2> QED BY <2>1, PassTexts
<1>3. \A x \in i..j : Len(u[x].text) = l + (x - i) + 1 /\ l + (x - i) + 1 <= Len(c) /\ c[l + (x - i) + 1] = t[x]
  BY RunWritten
<1>4. Follows(t, c, j, e)
  <2>1. Follows(t, c, j, Len(u[j].text))
    BY <1>1, DigitFollows
  <2>2. Len(u[j].text) = e
    BY <1>1, <1>3
  <2> QED BY <2>1, <2>2
<1>5. l = 0 \/ c[l] \notin Digits
  <2>1. \/ l = 0
        \/ l >= 1 /\ c[l] \notin Digits
    BY <1>1, BeforeDigit
  <2> QED BY <2>1
<1>6. e <= Len(c) /\ e \in Nat /\ l + 1 <= e
  BY <1>1, <1>2, <1>3
<1>7. e = Len(c) \/ c[e + 1] \notin Digits
  <2> HIDE DEF c, e
  <2> QED BY <1>1, <1>4 DEF Follows
<1>8. ASSUME NEW y \in (l + 1)..e
      PROVE  c[y] \in Digits
  <2> DEFINE z == y - l - 1 + i
  <2>1. z \in i..j /\ l + (z - i) + 1 = y
    <3>1. y \in (l + 1)..(l + (j - i) + 1)
      OBVIOUS
    <3> HIDE DEF l
    <3> QED BY ONLY <1>1, <1>2, <3>1
  <2>2. c[y] = t[z]
    <3> HIDE DEF c, l, z
    <3> QED BY <1>3, <2>1
  <2> QED BY <1>1, <2>1, <2>2
<1> HIDE DEF c, l, e
<1>9. IsNumber(c, l + 1, e)
  <2>1. l + 1 \in 1..Len(c) /\ e \in (l + 1)..Len(c) /\ l + 1 - 1 = l
    BY ONLY <1>2, <1>6
  <2> DEFINE f == l + 1
  <2>3. \A y \in f..e : c[y] \in Digits
    BY <1>8
  <2>4. f \in 1..Len(c) /\ e \in f..Len(c) /\ (f = 1 \/ c[f - 1] \notin Digits)
    BY <1>2, <1>5, <2>1
  <2> HIDE DEF f
  <2>5. IsNumber(c, f, e)
    BY ONLY <1>7, <2>3, <2>4 DEF IsNumber
  <2> QED BY <2>5 DEF f
<1>10. \A x \in i..j : c[l + (x - i) + 1] = t[x]
  BY <1>3 DEF c, l
<1> QED BY <1>2, <1>4, <1>9, <1>10 DEF c, l, e, Kept

\* A five that was heard for a syllable.
HeardFive(t, p) ==
  /\ t[p] = "5" /\ p < Len(t) /\ t[p + 1] = "tam"
  /\ p = 1 \/ t[p - 1] \notin Digits \cup {"je"}

\* The fix of a misheard five, sign by sign.
LEMMA HomophoneIs ==
  ASSUME NEW S, NEW c \in Seq(S)
  PROVE  /\ Homophone(c) \in Seq(S \cup {"oh"}) /\ Len(Homophone(c)) = Len(c)
         /\ \A p \in 1..Len(c) : Homophone(c)[p] = IF HeardFive(c, p) THEN "oh" ELSE c[p]
<1> DEFINE h == [p \in DOMAIN c |-> IF HeardFive(c, p) THEN "oh" ELSE c[p]]
<1>1. Homophone(c) = h
  BY DEF Homophone, HeardFive
<1>2. DOMAIN c = 1..Len(c) /\ Len(c) \in Nat /\ \A p \in 1..Len(c) : c[p] \in S
  OBVIOUS
<1>3. \A p \in DOMAIN c : h[p] \in S \cup {"oh"}
  BY <1>2
<1>4. h \in [1..Len(c) -> S \cup {"oh"}]
  BY <1>2, <1>3
<1>5. h \in Seq(S \cup {"oh"}) /\ Len(h) = Len(c)
  <2> DEFINE B == S \cup {"oh"}
  <2>1. DOMAIN h = 1..Len(c)
    BY <1>2
  <2> HIDE DEF h, B
  <2>2. h \in Seq(B)
    BY <1>2, <1>4 DEF B
  <2> QED BY <1>2, <2>1, <2>2 DEF B
<1>6. \A p \in 1..Len(c) : h[p] = IF HeardFive(c, p) THEN "oh" ELSE c[p]
  BY <1>2
<1> HIDE DEF h
<1> QED BY <1>1, <1>5, <1>6

\* What the fix looks for.
Five == <<"5", "tam">>

\* It occurs where its two signs stand.
LEMMA FiveOccurs ==
  ASSUME NEW S, NEW t \in Seq(S)
  PROVE  Occurs(t, Five) <=> \E p \in 1..Len(t) : p < Len(t) /\ t[p] = "5" /\ t[p + 1] = "tam"
<1>1. Len(Five) = 2 /\ Five[1] = "5" /\ Five[2] = "tam"
  BY DEF Five
<1>2. ASSUME NEW p \in 1..Len(t), p < Len(t)
      PROVE  SubSeq(t, p, p + 1) = Five <=> t[p] = "5" /\ t[p + 1] = "tam"
  <2> DEFINE q == SubSeq(t, p, p + 1)
  <2>1. q \in Seq(S) /\ Len(q) = 2 /\ q[1] = t[p] /\ q[2] = t[p + 1]
    BY <1>2
  <2> HIDE DEF q
  <2>2. q = Five <=> q[1] = "5" /\ q[2] = "tam"
    BY <2>1 DEF Five
  <2> QED BY <2>1, <2>2 DEF q
<1>3. \A p : p \in 1..(Len(t) - 2 + 1) <=> p \in 1..Len(t) /\ p < Len(t)
  OBVIOUS
<1>4. \A p \in 1..Len(t) : p + 2 - 1 = p + 1
  OBVIOUS
<1>5. Occurs(t, Five) <=> \E p \in 1..(Len(t) - 2 + 1) : SubSeq(t, p, p + 2 - 1) = Five
  BY <1>1 DEF Occurs
<1> QED BY <1>2, <1>3, <1>4, <1>5

\* A number that was heard is a number of the corrected text, or it was the
\* five of the listed word.
LEMMA NumberSurvives ==
  ASSUME NEW signs, Alphabet(signs), NEW dict, PlainGlossary(dict, signs),
         NEW t \in Seq(signs \cup {Blank}), NEW u, IsPass(u, t, dict), NEW n \in Numbers(t)
  PROVE  n \in Numbers(Homophone(u[Len(t)].text)) \/ (n = <<"5">> /\ Occurs(t, Five))
<1> DEFINE S == signs \cup {Blank}
           c == u[Len(t)].text
           h == Homophone(c)
<1>1. PICK i, j \in 1..Len(t) : IsNumber(t, i, j) /\ n = SubSeq(t, i, j)
  BY NumbersAre
<1> DEFINE l == Len(u[i - 1].text)
           e == l + (j - i) + 1
           f == l + 1
<1>2. l \in Nat /\ IsNumber(c, f, e) /\ Follows(t, c, j, e) /\ \A x \in i..j : c[l + (x - i) + 1] = t[x]
  <2>1. Kept(t, c, i, j, l)
    BY <1>1, RunKept
  <2> HIDE DEF c, l
  <2> QED BY <2>1 DEF Kept
<1>3. c \in Seq(S) /\ Len(c) \in Nat
  <2>1. Len(t) \in 0..Len(t)
    OBVIOUS
  <2> QED BY <2>1, PassTexts
<1>4. /\ h \in Seq(S \cup {"oh"}) /\ Len(h) = Len(c)
      /\ \A p \in 1..Len(c) : h[p] = IF HeardFive(c, p) THEN "oh" ELSE c[p]
  <2> HIDE DEF c, S
  <2> QED BY <1>3, HomophoneIs
<1>5. i \in Nat /\ j \in Nat /\ i >= 1 /\ i <= j /\ j <= Len(t) /\ Len(t) \in Nat /\ t \in Seq(S)
      /\ \A x \in i..j : t[x] \in Digits
  BY <1>1 DEF IsNumber
<1> HIDE DEF c, h, l, S
<1>6. /\ f >= 1 /\ f <= e /\ e <= Len(c) /\ e \in Nat /\ f \in Nat
      /\ \A x \in f..e : c[x] \in Digits
      /\ f = 1 \/ c[f - 1] \notin Digits
      /\ e = Len(c) \/ c[e + 1] \notin Digits
  <2>1. f \in 1..Len(c) /\ e \in f..Len(c)
    BY <1>2 DEF IsNumber
  <2> HIDE DEF f, e
  <2>2. f >= 1 /\ f <= e /\ e <= Len(c) /\ e \in Nat /\ f \in Nat
    BY ONLY <1>3, <2>1
  <2> QED BY <1>2, <2>2 DEF IsNumber
<1> HIDE DEF e, f
<1>7. "oh" \notin Digits /\ "tam" \notin Digits /\ "5" \in Digits
  BY DEF Alphabet
<1>8. CASE \E x \in f..e : HeardFive(c, x)
  <2>1. PICK x \in f..e : HeardFive(c, x)
    BY <1>8
  <2>2. c[x] = "5" /\ x < Len(c) /\ c[x + 1] = "tam" /\ (x = 1 \/ c[x - 1] \notin Digits) /\ x \in Nat
    BY <1>6, <2>1 DEF HeardFive
  <2>3. x = e
    <3>1. x + 1 \notin f..e
      BY <1>6, <1>7, <2>2
    <3> QED BY <1>6, <2>2, <3>1
  <2>4. x = f
    <3>1. x # 1 => x - 1 \notin f..e
      BY <1>6, <2>2
    <3> QED BY <1>6, <2>2, <3>1
  <2>5. i = j /\ l + (i - i) + 1 = e
    <3>1. e = f
      BY <2>3, <2>4
    <3> QED BY <1>2, <1>5, <3>1 DEF e, f
  <2>6. t[i] = "5"
    BY <1>2, <1>5, <2>2, <2>3, <2>5
  <2>7. j < Len(t) /\ t[j + 1] = "tam"
    BY <1>2, <2>2, <2>3 DEF Follows
  <2>8. n = <<"5">>
    <3> DEFINE q == SubSeq(t, i, i)
    <3>1. q \in Seq(S) /\ Len(q) = 1 /\ q[1] = t[i]
      BY ONLY <1>5
    <3> HIDE DEF q
    <3>2. q = <<"5">>
      BY <2>6, <3>1
    <3> QED BY <1>1, <2>5, <3>2 DEF q
  <2>9. Occurs(t, Five)
    BY <1>5, <2>5, <2>6, <2>7, FiveOccurs
  <2> QED BY <2>8, <2>9
<1>9. CASE ~\E x \in f..e : HeardFive(c, x)
  <2>1. \A x \in f..e : h[x] = c[x]
    <3>1. \A x \in f..e : x \in 1..Len(c)
      BY <1>3, <1>6
    <3> QED BY <1>4, <1>9, <3>1
  <2>2. \A x \in 1..Len(c) : c[x] \notin Digits => h[x] \notin Digits
    BY <1>4, <1>7
  <2>3. f = 1 \/ h[f - 1] \notin Digits
    <3>1. f = 1 \/ f - 1 \in 1..Len(c)
      BY <1>3, <1>6
    <3> QED BY <1>6, <2>2, <3>1
  <2>4. e = Len(h) \/ h[e + 1] \notin Digits
    <3>1. e = Len(c) \/ e + 1 \in 1..Len(c)
      BY <1>3, <1>6
    <3> QED BY <1>4, <1>6, <2>2, <3>1
  <2>5. f \in 1..Len(h) /\ e \in f..Len(h) /\ e \in 1..Len(h)
    BY <1>3, <1>4, <1>6
  <2>6. \A x \in f..e : h[x] \in Digits
    BY <1>6, <2>1
  <2>7. IsNumber(h, f, e)
    BY <2>3, <2>4, <2>5, <2>6 DEF IsNumber
  <2>8. SubSeq(h, f, e) = n
    <3> DEFINE A == S \cup {"oh"}
               r == SubSeq(h, f, e)
               s == SubSeq(t, i, j)
    <3>1. h \in Seq(A)
      BY <1>4
    <3> HIDE DEF A
    <3>2. r \in Seq(A) /\ Len(r) = e - f + 1 /\ \A y \in 1..(e - f + 1) : r[y] = h[f + y - 1]
      BY ONLY <1>6, <2>5, <3>1
    <3>3. s \in Seq(S) /\ Len(s) = j - i + 1 /\ \A y \in 1..(j - i + 1) : s[y] = t[i + y - 1]
      BY ONLY <1>5
    <3>4. e - f + 1 = j - i + 1
      BY <1>2, <1>5 DEF e, f
    <3>5. ASSUME NEW y \in 1..(j - i + 1)
          PROVE  r[y] = s[y]
      <4> DEFINE x == i + y - 1
                 z == f + y - 1
      <4>1. x \in i..j /\ z \in f..e /\ z = l + (x - i) + 1
        BY <1>2, <1>5, <3>4 DEF e, f
      <4>2. h[z] = t[x]
        <5>1. c[z] = t[x]
          <6> HIDE DEF x, z
          <6> QED BY <1>2, <4>1
        <5> QED BY <2>1, <4>1, <5>1
      <4>3. r[y] = h[z] /\ s[y] = t[x]
        BY <3>2, <3>3, <3>4
      <4> QED BY <4>2, <4>3
    <3> HIDE DEF r, s
    <3>6. r = s
      BY ONLY <3>2, <3>3, <3>4, <3>5
    <3> QED BY <1>1, <3>6 DEF r, s
  <2>9. n \in Numbers(h)
    <3>1. h \in Seq(S \cup {"oh"}) /\ f \in 1..Len(h) /\ e \in 1..Len(h)
      BY <1>4, <2>5
    <3> DEFINE A == S \cup {"oh"}
    <3> HIDE DEF A
    <3> QED BY <2>7, <2>8, <3>1, NumbersAre DEF A
  <2> QED BY <2>9 DEF h, c
<1> QED BY <1>8, <1>9 DEF h, c

\* A digit of the last text was copied from a place of the text.
WrittenFrom(t, u, p) ==
  \E q \in 1..Len(t) : t[q] = u[Len(t)].text[p] /\ t[q] \in Digits /\ Len(u[q].text) = p

\* A digit of what was written is a digit of the text.
LEMMA DigitFrom ==
  ASSUME NEW signs, NEW dict, PlainGlossary(dict, signs), NEW t \in Seq(signs \cup {Blank}),
         NEW u, IsPass(u, t, dict), NEW p \in 1..Len(u[Len(t)].text), u[Len(t)].text[p] \in Digits
  PROVE  WrittenFrom(t, u, p)
<1> DEFINE S == signs \cup {Blank}
           c == u[Len(t)].text
           T == {r \in 0..Len(t) : Len(u[r].text) >= p}
<1>1. PICK q \in T : \A r \in T : q <= r
  <2>1. Len(t) \in T /\ T \in SUBSET Nat
    OBVIOUS
  <2> HIDE DEF T
  <2> QED BY <2>1, LeastOf
<1>2. \A r \in 0..Len(t) : u[r].text \in Seq(S) /\ Len(u[r].text) \in Nat /\ u[r].next \in Nat /\ Begins(u[r].text, c)
  BY PassTexts
<1>3. q \in 0..Len(t) /\ Len(u[q].text) >= p /\ p \in Nat /\ p >= 1
  <2>1. Len(t) \in 0..Len(t)
    OBVIOUS
  <2>2. Len(c) \in Nat
    BY <1>2, <2>1
  <2> QED BY <2>2
<1>4. q # 0
  <2>1. u[0].text = <<>>
    BY DEF IsPass, Uncorrected
  <2>2. Len(u[0].text) = 0
    BY <2>1
  <2> QED BY <1>3, <2>2
<1>5. q \in 1..Len(t) /\ q - 1 \in 0..Len(t) /\ q - 1 \notin T
  <2>1. q \in 1..Len(t) /\ q - 1 \in 0..Len(t) /\ ~(q <= q - 1)
    BY <1>3, <1>4
  <2> HIDE DEF T
  <2> QED BY <1>1, <2>1
<1> DEFINE a == u[q - 1]
           b == u[q]
<1>6. Len(a.text) < p /\ Len(a.text) \in Nat /\ a.text \in Seq(S) /\ a.next \in Nat
  <2>1. Len(u[q - 1].text) \in Nat
    BY <1>2, <1>5
  <2>2. ~(Len(u[q - 1].text) >= p)
    BY <1>5
  <2> QED BY <1>2, <1>3, <1>5, <2>1, <2>2
<1>7. c[p] = b.text[p]
  <2>1. Begins(b.text, c) /\ Len(b.text) \in Nat
    BY <1>2, <1>3
  <2>2. p \in 1..Len(b.text)
    BY <1>3, <2>1
  <2> HIDE DEF b, c
  <2> QED BY <2>1, <2>2 DEF Begins
<1>8. b = CorrectedAt(a, t, q, dict)
  BY <1>5 DEF IsPass
<1>9. t[q] \in S /\ t \in Seq(S)
  BY <1>5
<1>10. c[p] \in Digits
  OBVIOUS
<1>11. p <= Len(b.text)
  BY <1>3
<1> HIDE DEF S, a, b, c, T
<1>12. \/ Skips(a, b, q)
       \/ Fits(t, q, dict) = {} /\ Copies(a, b, t, q)
       \/ \E k : Longest(k, t, q, dict) /\ Rewrites(a, b, q, k, dict[k])
  <2>1. \A k \in DOMAIN dict : k \in Seq(S) /\ k # <<>>
    BY PlainWords DEF S
  <2> QED BY <1>5, <1>6, <1>8, <1>9, <2>1, PassStep
<1>13. ~Skips(a, b, q)
  BY <1>3, <1>6, <1>11 DEF Skips
<1>14. CASE Copies(a, b, t, q)
  <2>1. b.text = Append(a.text, t[q])
    BY <1>14 DEF Copies
  <2>2. Len(b.text) = Len(a.text) + 1 /\ b.text[Len(a.text) + 1] = t[q]
    BY ONLY <1>6, <1>9, <2>1
  <2>3. p = Len(b.text) /\ p = Len(a.text) + 1
    BY <1>3, <1>6, <1>11, <2>2
  <2>4. t[q] = c[p]
    BY <1>7, <2>2, <2>3
  <2> QED BY <1>5, <1>10, <2>3, <2>4 DEF b, c, WrittenFrom
<1>15. ASSUME NEW k, Longest(k, t, q, dict), Rewrites(a, b, q, k, dict[k])
       PROVE  FALSE
  <2> DEFINE new == dict[k]
  <2>1. b.text = a.text \o new /\ k \in DOMAIN dict
    BY <1>15 DEF Rewrites, Longest, Fits
  <2>2. new \in Seq(S) /\ Len(new) \in Nat \ {0} /\ \A x \in 1..Len(new) : new[x] \notin Digits
    BY <2>1, PlainWords DEF S
  <2> HIDE DEF new
  <2>3. Len(b.text) = Len(a.text) + Len(new) /\ \A x \in 1..Len(new) : b.text[Len(a.text) + x] = new[x]
    BY ONLY <1>6, <2>1, <2>2, ConcatEntries
  <2> DEFINE x == p - Len(a.text)
  <2>4. x \in 1..Len(new) /\ p = Len(a.text) + x
    BY <1>3, <1>6, <1>11, <2>2, <2>3
  <2> HIDE DEF x
  <2> QED BY <1>7, <1>10, <2>2, <2>3, <2>4
<1> QED BY <1>12, <1>13, <1>14, <1>15

\* A five before the syllable was one before it in the raw text.
LEMMA FiveWasThere ==
  ASSUME NEW signs, Alphabet(signs), NEW dict, PlainGlossary(dict, signs),
         NEW t \in Seq(signs \cup {Blank}), NEW u, IsPass(u, t, dict),
         Occurs(Homophone(u[Len(t)].text), Five)
  PROVE  Occurs(t, Five)
<1> DEFINE S == signs \cup {Blank}
           c == u[Len(t)].text
           h == Homophone(c)
<1>1. c \in Seq(S) /\ Len(c) \in Nat /\ t \in Seq(S)
  <2>1. Len(t) \in 0..Len(t)
    OBVIOUS
  <2> QED BY <2>1, PassTexts
<1>2. /\ h \in Seq(S \cup {"oh"}) /\ Len(h) = Len(c)
      /\ \A p \in 1..Len(c) : h[p] = IF HeardFive(c, p) THEN "oh" ELSE c[p]
  <2> HIDE DEF c, S
  <2> QED BY <1>1, HomophoneIs
<1>3. PICK p \in 1..Len(h) : p < Len(h) /\ h[p] = "5" /\ h[p + 1] = "tam"
  <2> DEFINE A == S \cup {"oh"}
  <2>1. h \in Seq(A) /\ Occurs(h, Five)
    BY <1>2
  <2> HIDE DEF A, h
  <2> QED BY <2>1, FiveOccurs
<1>4. p \in 1..Len(c) /\ p + 1 \in 1..Len(c) /\ p < Len(c)
  BY <1>1, <1>2, <1>3
<1> HIDE DEF h
<1>5. c[p] = "5" /\ c[p + 1] = "tam" /\ "5" \in Digits
  BY <1>2, <1>3, <1>4 DEF Alphabet
<1>6. PICK q \in 1..Len(t) : t[q] = c[p] /\ t[q] \in Digits /\ Len(u[q].text) = p
  <2>1. p \in 1..Len(c) /\ c[p] \in Digits
    BY <1>4, <1>5
  <2>2. WrittenFrom(t, u, p)
    BY <2>1, DigitFrom
  <2> QED BY <2>2 DEF WrittenFrom
<1>7. Follows(t, c, q, p)
  <2>1. Follows(t, c, q, Len(u[q].text))
    BY <1>6, DigitFollows
  <2> QED BY <1>6, <2>1
<1>8. q < Len(t) /\ t[q + 1] = "tam"
  <2> HIDE DEF c
  <2> QED BY <1>4, <1>5, <1>7 DEF Follows
<1> QED BY <1>1, <1>5, <1>6, <1>8, FiveOccurs

-----------------------------------------------------------------------------
(* A word of a line is corrected as alone.                                 *)

\* A word in a text of words with blanks between them.
WordAt(w, t, m) ==
  /\ m \in Nat /\ m + Len(w) <= Len(t)
  /\ \A q \in 1..Len(w) : t[m + q] = w[q]
  /\ m = 0 \/ t[m] = Blank
  /\ m + Len(w) = Len(t) \/ t[m + Len(w) + 1] = Blank

\* A place next to a match, and what a match asks of the two of them.
Edge(t, q) == {t[x] : x \in {q} \cap DOMAIN t}

\* What has to be, and not to be, before and after an entry.
Bordered(k, before, after) ==
  IF ToSet(k) \cap Hangul = {} THEN (before \cup after) \cap (Letters \cup Digits) = {}
  ELSE \/ Len(k) > ShortKeyLen
       \/ before \cap Hangul = {} /\ after \cap Hangul \subseteq JosaHeads

\* An entry stands at a place of the text.
Standing(t, p, k) == p + Len(k) - 1 <= Len(t) /\ SubSeq(t, p, p + Len(k) - 1) = k

\* An entry matches where it stands, by what is around it.
LEMMA MatchesIs ==
  ASSUME NEW t, NEW p, NEW k
  PROVE  Matches(t, p, k) <=> Standing(t, p, k) /\ Bordered(k, Edge(t, p - 1), Edge(t, p + Len(k) - 1 + 1))
BY DEF Matches, Standing, Bordered, Edge

\* Sign by sign.
LEMMA StandingIs ==
  ASSUME NEW S, NEW t \in Seq(S), NEW p \in 1..Len(t), NEW k \in Seq(S), k # <<>>
  PROVE  Standing(t, p, k) <=> p + Len(k) - 1 <= Len(t) /\ \A x \in 1..Len(k) : t[p + x - 1] = k[x]
<1> DEFINE e == p + Len(k) - 1
           s == SubSeq(t, p, e)
<1>1. Len(k) \in Nat \ {0} /\ e \in Nat /\ p \in Nat /\ p >= 1 /\ p <= e
  OBVIOUS
<1>2. CASE e <= Len(t)
  <2>1. s \in Seq(S) /\ Len(s) = Len(k) /\ \A x \in 1..Len(k) : s[x] = t[p + x - 1]
    BY <1>1, <1>2
  <2> HIDE DEF s
  <2>2. s = k <=> \A x \in 1..Len(k) : s[x] = k[x]
    BY <2>1
  <2> QED BY <1>2, <2>1, <2>2 DEF Standing, s
<1>3. CASE ~(e <= Len(t))
  BY <1>3 DEF Standing
<1> QED BY <1>2, <1>3

\* What borders on a word in a text: as in the word alone, but for blanks.
LEMMA EdgeSame ==
  ASSUME NEW signs, Alphabet(signs), NEW t \in Seq(signs \cup {Blank}), NEW w \in Seq(signs),
         NEW m, WordAt(w, t, m), NEW y \in 0..(Len(w) + 1)
  PROVE  Edge(t, m + y) \cap (Hangul \cup Letters \cup Digits) = Edge(w, y) \cap (Hangul \cup Letters \cup Digits)
<1> DEFINE W == Hangul \cup Letters \cup Digits
<1>1. Blank \notin W
  BY DEF Alphabet
<1>2. /\ \A z \in Nat : z \in DOMAIN t <=> z >= 1 /\ z <= Len(t)
      /\ \A z \in Nat : z \in DOMAIN w <=> z >= 1 /\ z <= Len(w)
      /\ Len(t) \in Nat /\ Len(w) \in Nat /\ y \in Nat /\ y <= Len(w) + 1
  OBVIOUS
<1>3. /\ m \in Nat /\ m + Len(w) <= Len(t)
      /\ \A q \in 1..Len(w) : t[m + q] = w[q]
      /\ m = 0 \/ t[m] = Blank
      /\ m + Len(w) = Len(t) \/ t[m + Len(w) + 1] = Blank
  BY DEF WordAt
<1> HIDE DEF W
<1>4. CASE y \in 1..Len(w)
  <2>1. m + y \in DOMAIN t /\ y \in DOMAIN w /\ t[m + y] = w[y]
    BY <1>2, <1>3, <1>4
  <2>2. Edge(t, m + y) = {t[m + y]} /\ Edge(w, y) = {w[y]}
    BY <2>1 DEF Edge
  <2> QED BY <2>1, <2>2
<1>5. CASE y = 0
  <2>1. y \notin DOMAIN w /\ m + y = m
    BY <1>2, <1>3, <1>5
  <2>2. Edge(w, y) = {}
    BY <2>1 DEF Edge
  <2>3. Edge(t, m) \subseteq {Blank}
    <3>1. m \in DOMAIN t => t[m] = Blank
      BY <1>2, <1>3
    <3> QED BY <3>1 DEF Edge
  <2> QED BY <1>1, <2>1, <2>2, <2>3 DEF W
<1>6. CASE y = Len(w) + 1
  <2>1. y \notin DOMAIN w /\ m + y = m + Len(w) + 1
    BY <1>2, <1>3, <1>6
  <2>2. Edge(w, y) = {}
    BY <2>1 DEF Edge
  <2>3. Edge(t, m + y) \subseteq {Blank}
    <3>1. m + y \in DOMAIN t => t[m + y] = Blank
      BY <1>2, <1>3, <2>1
    <3> QED BY <3>1 DEF Edge
  <2> QED BY <1>1, <2>2, <2>3 DEF W
<1> QED BY <1>2, <1>4, <1>5, <1>6 DEF W

\* Signs that are no syllable, letter or digit do not matter.
LEMMA BorderedSame ==
  ASSUME NEW k, NEW a, NEW b, NEW c, NEW d,
         a \cap (Hangul \cup Letters \cup Digits) = b \cap (Hangul \cup Letters \cup Digits),
         c \cap (Hangul \cup Letters \cup Digits) = d \cap (Hangul \cup Letters \cup Digits)
  PROVE  Bordered(k, a, c) <=> Bordered(k, b, d)
<1>1. a \cap Hangul = b \cap Hangul /\ c \cap Hangul = d \cap Hangul
  OBVIOUS
<1>2. (a \cup c) \cap (Letters \cup Digits) = (b \cup d) \cap (Letters \cup Digits)
  OBVIOUS
<1> QED BY <1>1, <1>2 DEF Bordered

\* In a text of words an entry matches where it matches in the word.
LEMMA MatchesInWord ==
  ASSUME NEW signs, Alphabet(signs), NEW t \in Seq(signs \cup {Blank}), NEW w \in Seq(signs),
         NEW m, WordAt(w, t, m), NEW q \in 1..Len(w), NEW k, Plain(k, signs)
  PROVE  Matches(t, m + q, k) <=> Matches(w, q, k)
<1> DEFINE S == signs \cup {Blank}
           W == Hangul \cup Letters \cup Digits
           n == Len(k)
<1>1. /\ m \in Nat /\ m + Len(w) <= Len(t)
      /\ \A x \in 1..Len(w) : t[m + x] = w[x]
      /\ m + Len(w) = Len(t) \/ t[m + Len(w) + 1] = Blank
  BY DEF WordAt
<1>2. k \in Seq(signs) /\ k # <<>> /\ \A x \in 1..n : k[x] # Blank
  <2>1. k \in Seq(signs \ Digits) /\ k # <<>>
    BY DEF Plain
  <2>2. Blank \notin signs
    BY DEF Alphabet
  <2> DEFINE A == signs \ Digits
  <2>3. A \subseteq signs
    OBVIOUS
  <2>4. k \in Seq(signs) /\ \A x \in 1..Len(k) : k[x] \in A
    <3> HIDE DEF A
    <3> QED BY <2>1, <2>3, SeqGrows DEF A
  <2> QED BY <2>1, <2>2, <2>4
<1>3. w \in Seq(S) /\ k \in Seq(S) /\ t \in Seq(S)
  <2>1. signs \subseteq S
    OBVIOUS
  <2> HIDE DEF S
  <2>2. w \in Seq(S) /\ k \in Seq(S)
    BY <1>2, <2>1, SeqGrows
  <2> QED BY <2>2 DEF S
<1>4. n \in Nat \ {0} /\ Len(w) \in Nat /\ Len(t) \in Nat /\ q \in Nat /\ q >= 1 /\ q <= Len(w)
  BY <1>2
<1>5. m + q \in 1..Len(t)
  BY <1>1, <1>4
<1> DEFINE p == m + q
<1>6. Standing(t, p, k) <=> p + n - 1 <= Len(t) /\ \A x \in 1..n : t[p + x - 1] = k[x]
  <2> HIDE DEF S, p
  <2> QED BY <1>2, <1>3, <1>5, StandingIs DEF p
<1>7. Standing(w, q, k) <=> q + n - 1 <= Len(w) /\ \A x \in 1..n : w[q + x - 1] = k[x]
  <2> HIDE DEF S, p
  <2> QED BY <1>2, <1>3, StandingIs
<1> HIDE DEF S
<1>8. ASSUME q + n - 1 <= Len(w), NEW x \in 1..n
      PROVE  t[p + x - 1] = w[q + x - 1]
  <2>1. q + x - 1 \in 1..Len(w) /\ m + (q + x - 1) = p + x - 1
    BY <1>1, <1>4, <1>8
  <2> HIDE DEF p
  <2> QED BY <1>1, <2>1
<1>9. ASSUME Standing(t, p, k)
      PROVE  q + n - 1 <= Len(w)
  <2> SUFFICES ASSUME q + n - 1 > Len(w)
               PROVE  FALSE
    BY <1>4
  <2>1. p + n - 1 <= Len(t) /\ \A x \in 1..n : t[p + x - 1] = k[x]
    BY <1>6, <1>9
  <2> DEFINE x == Len(w) + 2 - q
  <2>2. x \in 1..n /\ p + x - 1 = m + Len(w) + 1 /\ m + Len(w) # Len(t)
    BY <1>1, <1>4, <2>1
  <2> HIDE DEF x, p
  <2> QED BY <1>1, <1>2, <2>1, <2>2
<1>10. Standing(t, p, k) <=> Standing(w, q, k)
  <2>1. Standing(t, p, k) => Standing(w, q, k)
    <3> SUFFICES ASSUME Standing(t, p, k)
                 PROVE  Standing(w, q, k)
      OBVIOUS
    <3> HIDE DEF p
    <3> QED BY <1>6, <1>7, <1>8, <1>9
  <2>2. Standing(w, q, k) => Standing(t, p, k)
    <3> SUFFICES ASSUME Standing(w, q, k)
                 PROVE  Standing(t, p, k)
      OBVIOUS
    <3>1. q + n - 1 <= Len(w)
      BY <1>7
    <3>2. p + n - 1 <= Len(t)
      BY <1>1, <1>4, <3>1
    <3> HIDE DEF p
    <3> QED BY <1>6, <1>7, <1>8, <3>1, <3>2
  <2> QED BY <2>1, <2>2
<1>11. ASSUME Standing(w, q, k)
       PROVE  Bordered(k, Edge(t, p - 1), Edge(t, p + n - 1 + 1)) <=> Bordered(k, Edge(w, q - 1), Edge(w, q + n - 1 + 1))
  <2>1. q + n - 1 <= Len(w)
    BY <1>7, <1>11
  <2> DEFINE y == q - 1
             z == q + n - 1 + 1
  <2>2. y \in 0..(Len(w) + 1) /\ z \in 0..(Len(w) + 1) /\ m + y = p - 1 /\ m + z = p + n - 1 + 1
    BY <1>1, <1>4, <2>1
  <2> HIDE DEF y, z, p
  <2>3. /\ Edge(t, m + y) \cap W = Edge(w, y) \cap W
        /\ Edge(t, m + z) \cap W = Edge(w, z) \cap W
    BY <2>2, EdgeSame DEF S
  <2>4. Bordered(k, Edge(t, m + y), Edge(t, m + z)) <=> Bordered(k, Edge(w, y), Edge(w, z))
    BY <2>3, BorderedSame
  <2> QED BY <2>2, <2>4 DEF y, z
<1> HIDE DEF p, n
<1>12. /\ Matches(t, p, k) <=> Standing(t, p, k) /\ Bordered(k, Edge(t, p - 1), Edge(t, p + n - 1 + 1))
       /\ Matches(w, q, k) <=> Standing(w, q, k) /\ Bordered(k, Edge(w, q - 1), Edge(w, q + n - 1 + 1))
  BY MatchesIs DEF n
<1> QED BY <1>10, <1>11, <1>12 DEF p

\* The pass over a text whose first m places are done, from the pass over a word.
Further(a, b, m) == [text |-> a.text \o b.text, next |-> b.next + m, applied |-> a.applied \cup b.applied]

\* A place in a word of a line is corrected as in the word alone.
StepsAlike(a, b, t, w, m, q, dict) ==
  CorrectedAt(Further(a, b, m), t, m + q, dict) = Further(a, CorrectedAt(b, w, q, dict), m)

\* One place of the word.
LEMMA WordStep ==
  ASSUME NEW signs, Alphabet(signs), NEW dict, PlainGlossary(dict, signs),
         NEW t \in Seq(signs \cup {Blank}), NEW w \in Seq(signs), NEW m, WordAt(w, t, m),
         NEW q \in 1..Len(w), NEW a, a.text \in Seq(signs \cup {Blank}),
         NEW b, b.text \in Seq(signs \cup {Blank}), b.next \in Nat
  PROVE  StepsAlike(a, b, t, w, m, q, dict)
<1> DEFINE S == signs \cup {Blank}
           F == {k \in DOMAIN dict : Matches(w, q, k)}
           key == CHOOSE k \in F : \A j \in F : Len(k) >= Len(j)
           f == Further(a, b, m)
           c == CorrectedAt(b, w, q, dict)
           d == CorrectedAt(f, t, m + q, dict)
<1>1. {k \in DOMAIN dict : Matches(t, m + q, k)} = F
  <2>1. \A k \in DOMAIN dict : Plain(k, signs)
    BY DEF PlainGlossary
  <2>2. \A k \in DOMAIN dict : Matches(t, m + q, k) <=> Matches(w, q, k)
    BY <2>1, MatchesInWord
  <2> QED BY <2>2
<1>2. c = IF q < b.next THEN b
          ELSE IF F = {} THEN [text |-> Append(b.text, w[q]), next |-> q + 1, applied |-> b.applied]
          ELSE [text |-> b.text \o dict[key], next |-> q + Len(key), applied |-> b.applied \cup {dict[key]}]
  BY DEF CorrectedAt
<1>3. d = IF m + q < f.next THEN f
          ELSE IF F = {} THEN [text |-> Append(f.text, t[m + q]), next |-> m + q + 1, applied |-> f.applied]
          ELSE [text |-> f.text \o dict[key], next |-> m + q + Len(key), applied |-> f.applied \cup {dict[key]}]
  <2> DEFINE G == {k \in DOMAIN dict : Matches(t, m + q, k)}
             lead == CHOOSE k \in G : \A j \in G : Len(k) >= Len(j)
  <2>1. d = IF m + q < f.next THEN f
            ELSE IF G = {} THEN [text |-> Append(f.text, t[m + q]), next |-> m + q + 1, applied |-> f.applied]
            ELSE [text |-> f.text \o dict[lead], next |-> m + q + Len(lead), applied |-> f.applied \cup {dict[lead]}]
    BY DEF CorrectedAt
  <2> HIDE DEF F, G, d, f
  <2>2. G = F
    BY <1>1 DEF G, F
  <2> QED BY <2>1, <2>2
<1>4. f.text = a.text \o b.text /\ f.next = b.next + m /\ f.applied = a.applied \cup b.applied
  BY DEF Further
<1>5. m \in Nat /\ t[m + q] = w[q] /\ q \in Nat /\ b.next \in Nat
  BY DEF WordAt
<1>6. w[q] \in S
  OBVIOUS
<1>7. F # {} => key \in DOMAIN dict
  <2>1. w \in Seq(S)
    <3>1. signs \subseteq S
      OBVIOUS
    <3> HIDE DEF S
    <3> QED BY <3>1, SeqGrows
  <2>2. \A k \in DOMAIN dict : k \in Seq(S) /\ k # <<>>
    BY PlainWords
  <2>3. F = Fits(w, q, dict)
    BY DEF Fits
  <2>4. F # {} => \E k \in F : \A j \in F : Len(k) >= Len(j)
    <3> HIDE DEF F, S
    <3> QED BY <2>1, <2>2, <2>3, LongestStands
  <2>5. F # {} => key \in F
    <3> HIDE DEF F
    <3> QED BY <2>4
  <2> QED BY <2>5
<1>8. a.text \in Seq(S) /\ b.text \in Seq(S)
  OBVIOUS
<1>9. F # {} => dict[key] \in Seq(S) /\ Len(key) \in Nat
  BY <1>7, PlainWords
<1> HIDE DEF F, key, f, c, d, S
<1>10. ASSUME q < b.next
       PROVE  d = Further(a, c, m)
  <2>1. m + q < f.next
    BY <1>4, <1>5, <1>10
  <2>2. d = f /\ c = b
    BY <1>2, <1>3, <1>10, <2>1
  <2> QED BY <2>2 DEF f
<1>11. ASSUME ~(q < b.next) /\ F = {}
       PROVE  d = Further(a, c, m)
  <2>1. ~(m + q < f.next)
    BY <1>4, <1>5, <1>11
  <2>2. d = [text |-> Append(f.text, w[q]), next |-> m + q + 1, applied |-> f.applied]
    BY <1>3, <1>5, <1>11, <2>1
  <2>3. c = [text |-> Append(b.text, w[q]), next |-> q + 1, applied |-> b.applied]
    BY <1>2, <1>11
  <2>4. Append(a.text \o b.text, w[q]) = a.text \o Append(b.text, w[q])
    <3> DEFINE x == a.text
               y == b.text
               z == w[q]
    <3>1. x \in Seq(S) /\ y \in Seq(S) /\ z \in S
      BY <1>6, <1>8
    <3> HIDE DEF x, y, z
    <3>2. Append(x \o y, z) = x \o Append(y, z)
      <4> DEFINE xy == x \o y
                 last == <<z>>
      <4>1. xy \in Seq(S) /\ last \in Seq(S)
        BY ONLY <3>1, ConcatEntries
      <4>2. xy \o last = x \o (y \o last)
        <5> HIDE DEF last
        <5> QED BY ONLY <3>1, <4>1, ConcatAssociative DEF xy
      <4> HIDE DEF xy
      <4>3. Append(xy, z) = xy \o last /\ Append(y, z) = y \o last
        BY ONLY <3>1, <4>1, AppendIsConcat DEF last
      <4> QED BY <4>2, <4>3 DEF xy
    <3> QED BY <3>2 DEF x, y, z
  <2>5. m + q + 1 = (q + 1) + m
    BY <1>5
  <2>6. Further(a, c, m) = [text |-> a.text \o Append(b.text, w[q]), next |-> (q + 1) + m, applied |-> a.applied \cup b.applied]
    BY <2>3 DEF Further
  <2> QED BY <1>4, <2>2, <2>4, <2>5, <2>6
<1>12. ASSUME ~(q < b.next) /\ F # {}
       PROVE  d = Further(a, c, m)
  <2> DEFINE new == dict[key]
  <2>1. ~(m + q < f.next)
    BY <1>4, <1>5, <1>12
  <2>2. d = [text |-> f.text \o new, next |-> m + q + Len(key), applied |-> f.applied \cup {new}]
    BY <1>3, <1>12, <2>1
  <2>3. c = [text |-> b.text \o new, next |-> q + Len(key), applied |-> b.applied \cup {new}]
    BY <1>2, <1>12
  <2>4. (a.text \o b.text) \o new = a.text \o (b.text \o new)
    <3> DEFINE x == a.text
               y == b.text
    <3>1. x \in Seq(S) /\ y \in Seq(S) /\ new \in Seq(S)
      BY <1>8, <1>9, <1>12
    <3> HIDE DEF x, y, new
    <3>2. (x \o y) \o new = x \o (y \o new)
      BY ONLY <3>1, ConcatAssociative
    <3> QED BY <3>2 DEF x, y
  <2>5. m + q + Len(key) = (q + Len(key)) + m
    BY <1>5, <1>9, <1>12
  <2> HIDE DEF new
  <2>6. Further(a, c, m) = [text |-> a.text \o (b.text \o new), next |-> (q + Len(key)) + m, applied |-> a.applied \cup (b.applied \cup {new})]
    BY <2>3 DEF Further
  <2>7. (a.applied \cup b.applied) \cup {new} = a.applied \cup (b.applied \cup {new})
    OBVIOUS
  <2> QED BY <1>4, <2>2, <2>4, <2>5, <2>6, <2>7
<1>13. d = Further(a, c, m)
  BY <1>10, <1>11, <1>12
<1> QED BY <1>13 DEF c, d, f, StepsAlike

\* A sequence of signs is one of signs and blanks.
LEMMA SignsOnly ==
  ASSUME NEW signs, NEW w \in Seq(signs)
  PROVE  w \in Seq(signs \cup {Blank})
<1> DEFINE S == signs \cup {Blank}
<1>1. signs \subseteq S
  OBVIOUS
<1> HIDE DEF S
<1>2. w \in Seq(S)
  BY <1>1, SeqGrows
<1> QED BY <1>2 DEF S

\* A word is corrected in its text as it is alone.
LEMMA WordSteps ==
  ASSUME NEW signs, Alphabet(signs), NEW dict, PlainGlossary(dict, signs),
         NEW t \in Seq(signs \cup {Blank}), NEW u, IsPass(u, t, dict),
         NEW w \in Seq(signs), NEW v, IsPass(v, w, dict),
         NEW m, WordAt(w, t, m), u[m].next = m + 1
  PROVE  /\ u[m + Len(w)] = Further(u[m], v[Len(w)], m)
         /\ u[m + Len(w)].next = m + Len(w) + 1
<1> DEFINE S == signs \cup {Blank}
           a == u[m]
           T == {q \in 0..Len(w) : u[m + q] # Further(a, v[q], m)}
<1>1. m \in Nat /\ m + Len(w) <= Len(t) /\ Len(w) \in Nat /\ Len(t) \in Nat /\ m \in 0..Len(t)
  BY DEF WordAt
<1>2. w \in Seq(S)
  BY SignsOnly
<1>3. \A q \in 0..Len(w) : v[q].text \in Seq(S) /\ v[q].next \in Nat
  BY <1>2, PassTexts
<1>4. Passed(a, t, m, S)
  BY <1>1, PassHolds
<1>5. a.text \in Seq(S) /\ a = [text |-> a.text, next |-> a.next, applied |-> a.applied] /\ a.next = m + 1
  BY <1>4 DEF Passed
<1>6. T = {}
  <2> SUFFICES ASSUME T # {}
               PROVE  FALSE
    OBVIOUS
  <2>1. PICK q \in T : \A j \in T : q <= j
    <3>1. T \in SUBSET Nat
      OBVIOUS
    <3> HIDE DEF T
    <3> QED BY <3>1, LeastOf
  <2>2. q \in 0..Len(w) /\ u[m + q] # Further(a, v[q], m)
    OBVIOUS
  <2>3. q # 0
    <3>1. v[0] = Uncorrected
      BY DEF IsPass
    <3> HIDE DEF a
    <3>2. Further(a, Uncorrected, m) = [text |-> a.text \o <<>>, next |-> 1 + m, applied |-> a.applied \cup {}]
      BY DEF Further, Uncorrected
    <3>3. a.text \o <<>> = a.text
      BY <1>5, ConcatEmptySeq
    <3>4. a.applied \cup {} = a.applied /\ 1 + m = m + 1 /\ m + 0 = m
      BY <1>1
    <3>5. Further(a, v[0], m) = a
      BY <1>5, <3>1, <3>2, <3>3, <3>4
    <3>6. u[m + 0] = a
      BY <3>4 DEF a
    <3> QED BY <2>2, <3>5, <3>6
  <2>4. q \in 1..Len(w) /\ q - 1 \in 0..Len(w) /\ q - 1 \notin T
    <3>1. q \in 1..Len(w) /\ q - 1 \in 0..Len(w) /\ ~(q <= q - 1)
      BY <2>2, <2>3
    <3> HIDE DEF T
    <3> QED BY <2>1, <3>1
  <2> DEFINE b == v[q - 1]
             c == v[q]
             f == u[m + (q - 1)]
             g == u[m + q]
  <2>5. f = Further(a, b, m)
    BY <2>4
  <2>6. c = CorrectedAt(b, w, q, dict)
    BY <2>4 DEF IsPass
  <2>7. g = CorrectedAt(f, t, m + q, dict)
    <3>1. m + q \in 1..Len(t) /\ (m + q) - 1 = m + (q - 1)
      BY <1>1, <2>4
    <3>2. u[m + q] = CorrectedAt(u[(m + q) - 1], t, m + q, dict)
      BY <3>1 DEF IsPass
    <3> QED BY <3>1, <3>2
  <2>8. b.text \in Seq(S) /\ b.next \in Nat
    BY <1>3, <2>4
  <2>9. g # Further(a, c, m)
    BY <2>2
  <2> HIDE DEF a, b, c, f, g, T
  <2>10. CorrectedAt(Further(a, b, m), t, m + q, dict) = Further(a, CorrectedAt(b, w, q, dict), m)
    <3>1. StepsAlike(a, b, t, w, m, q, dict)
      BY <1>5, <2>4, <2>8, WordStep
    <3> QED BY <3>1 DEF StepsAlike
  <2> QED BY <2>5, <2>6, <2>7, <2>9, <2>10
<1>7. Len(w) \in 0..Len(w)
  BY <1>1
<1>8. u[m + Len(w)] = Further(a, v[Len(w)], m)
  BY <1>6, <1>7
<1>9. Passed(v[Len(w)], w, Len(w), S)
  BY <1>2, <1>7, PassHolds
<1>10. v[Len(w)].next = Len(w) + 1
  <2> DEFINE z == v[Len(w)]
  <2>1. z.next \in (Len(w) + 1)..(Len(w) + 1)
    BY <1>9 DEF Passed
  <2> HIDE DEF z
  <2>2. z.next = Len(w) + 1
    BY ONLY <1>1, <2>1
  <2> QED BY <2>2 DEF z
<1>11. u[m + Len(w)].next = v[Len(w)].next + m
  BY <1>8 DEF Further
<1>12. u[m + Len(w)].next = m + Len(w) + 1
  BY <1>1, <1>10, <1>11
<1> QED BY <1>8, <1>12 DEF a

\* A blank was copied.
BlankDone(u, p) ==
  /\ u[p].text = u[p - 1].text \o <<Blank>>
  /\ u[p].next = p + 1 /\ u[p].applied = u[p - 1].applied

\* A blank is copied.
LEMMA BlankStep ==
  ASSUME NEW signs, Alphabet(signs), NEW dict, PlainGlossary(dict, signs),
         NEW t \in Seq(signs \cup {Blank}), NEW u, IsPass(u, t, dict),
         NEW p \in 1..Len(t), t[p] = Blank, u[p - 1].next = p
  PROVE  BlankDone(u, p)
<1> DEFINE S == signs \cup {Blank}
           a == u[p - 1]
           b == u[p]
<1>1. p - 1 \in 0..Len(t) /\ p \in Nat /\ t \in Seq(S) /\ a.next = p /\ t[p] = Blank
  OBVIOUS
<1>2. a.text \in Seq(S)
  BY <1>1, PassTexts
<1>3. b = CorrectedAt(a, t, p, dict)
  BY DEF IsPass
<1> HIDE DEF a, b, S
<1>4. \/ Skips(a, b, p)
      \/ Fits(t, p, dict) = {} /\ Copies(a, b, t, p)
      \/ \E k : Longest(k, t, p, dict) /\ Rewrites(a, b, p, k, dict[k])
  <2>1. \A k \in DOMAIN dict : k \in Seq(S) /\ k # <<>>
    BY PlainWords DEF S
  <2> QED BY <1>1, <1>3, <2>1, PassStep
<1>5. ~Skips(a, b, p)
  BY <1>1 DEF Skips
<1>6. ASSUME NEW k, Longest(k, t, p, dict)
      PROVE  FALSE
  <2>1. k \in DOMAIN dict /\ Matches(t, p, k)
    BY <1>6 DEF Longest, Fits
  <2>2. k \in Seq(S) /\ k # <<>> /\ Len(k) \in Nat \ {0} /\ \A x \in 1..Len(k) : k[x] \in signs
    BY <2>1, PlainWords DEF S
  <2>3. \A x \in 1..Len(k) : t[p + x - 1] = k[x]
    BY <1>1, <2>1, <2>2, MatchStands
  <2>4. 1 \in 1..Len(k) /\ p + 1 - 1 = p
    BY <1>1, <2>2
  <2> QED BY <1>1, <2>2, <2>3, <2>4 DEF Alphabet
<1>7. b.text = Append(a.text, Blank) /\ b.next = p + 1 /\ b.applied = a.applied
  <2>1. Copies(a, b, t, p)
    BY <1>4, <1>5, <1>6
  <2> QED BY <1>1, <2>1 DEF Copies
<1>8. Append(a.text, Blank) = a.text \o <<Blank>>
  <2> DEFINE x == a.text
             z == Blank
  <2>1. x \in Seq(S) /\ z \in S
    BY <1>2 DEF S
  <2> HIDE DEF x, z
  <2>2. Append(x, z) = x \o <<z>>
    BY ONLY <2>1, AppendIsConcat
  <2> QED BY <2>2 DEF x, z
<1> QED BY <1>7, <1>8 DEF a, b, BlankDone

\* A word that is an entry becomes its target.
LEMMA KeyAlone ==
  ASSUME NEW signs, NEW dict, PlainGlossary(dict, signs),
         NEW w \in DOMAIN dict, NEW v, IsPass(v, w, dict)
  PROVE  v[Len(w)].text = dict[w] /\ v[Len(w)].applied = {dict[w]}
<1> DEFINE S == signs \cup {Blank}
           n == Len(w)
           new == dict[w]
<1>1. w \in Seq(S) /\ w # <<>> /\ n \in Nat \ {0} /\ new \in Seq(S) /\ 1 \in 1..n
  <2>1. w \in Seq(S) /\ w # <<>> /\ n \in Nat \ {0} /\ new \in Seq(S)
    BY PlainWords
  <2>2. 1 \in 1..n
    BY <2>1
  <2> QED BY <2>1, <2>2
<1>2. \A k \in DOMAIN dict : k \in Seq(S) /\ k # <<>>
  BY PlainWords
<1> HIDE DEF S
<1>3. Matches(w, 1, w)
  <2>1. 1 + n - 1 = n /\ 1 + n - 1 + 1 = n + 1 /\ 1 - 1 = 0
    BY <1>1
  <2>2. Standing(w, 1, w)
    <3>1. \A x \in 1..n : w[1 + x - 1] = w[x]
      OBVIOUS
    <3>2. 1 + n - 1 <= Len(w)
      BY <2>1
    <3> QED BY <1>1, <3>1, <3>2, StandingIs
  <2>3. Edge(w, 0) = {} /\ Edge(w, n + 1) = {}
    <3>1. 0 \notin DOMAIN w /\ n + 1 \notin DOMAIN w
      BY <1>1
    <3> QED BY <3>1 DEF Edge
  <2>4. Bordered(w, {}, {})
    BY DEF Bordered
  <2>5. Bordered(w, Edge(w, 1 - 1), Edge(w, 1 + Len(w) - 1 + 1))
    BY <2>1, <2>3, <2>4
  <2> QED BY <2>2, <2>5, MatchesIs
<1>4. w \in Fits(w, 1, dict)
  BY <1>3 DEF Fits
<1>5. ASSUME NEW k, Longest(k, w, 1, dict)
      PROVE  k = w
  <2>1. k \in DOMAIN dict /\ Matches(w, 1, k) /\ Len(k) >= Len(w)
    BY <1>4, <1>5 DEF Longest, Fits
  <2>2. /\ k \in Seq(S) /\ Len(k) \in Nat \ {0} /\ 1 + Len(k) - 1 <= Len(w)
        /\ \A x \in 1..Len(k) : w[1 + x - 1] = k[x]
    BY <1>1, <1>2, <2>1, MatchStands
  <2>3. Len(k) = Len(w) /\ \A x \in 1..Len(k) : w[x] = k[x]
    BY <1>1, <2>1, <2>2
  <2> QED BY <1>1, <2>2, <2>3, SeqEqual
<1> DEFINE a == v[0]
           b == v[1]
<1>6. a = Uncorrected /\ b = CorrectedAt(a, w, 1, dict)
  BY <1>1 DEF IsPass
<1>7. b = [text |-> new, next |-> n + 1, applied |-> {new}]
  <2> HIDE DEF b, a
  <2>1. a.next = 1 /\ a.text = <<>> /\ a.applied = {}
    BY <1>6 DEF Uncorrected
  <2>2. \/ Skips(a, b, 1)
        \/ Fits(w, 1, dict) = {} /\ Copies(a, b, w, 1)
        \/ \E k : Longest(k, w, 1, dict) /\ Rewrites(a, b, 1, k, dict[k])
    BY <1>1, <1>2, <1>6, <2>1, PassStep
  <2>3. Rewrites(a, b, 1, w, new)
    BY <1>4, <1>5, <2>1, <2>2 DEF Skips
  <2>4. b = [text |-> a.text \o new, next |-> 1 + n, applied |-> a.applied \cup {new}]
    BY <2>3 DEF Rewrites
  <2>5. <<>> \o new = new
    <3> HIDE DEF new
    <3> QED BY <1>1, ConcatEmptySeq
  <2>6. 1 + n = n + 1 /\ {} \cup {new} = {new}
    BY <1>1
  <2> HIDE DEF new, n
  <2> QED BY <2>1, <2>4, <2>5, <2>6
<1> DEFINE T == {q \in 1..n : v[q] # b}
<1>8. T = {}
  <2> SUFFICES ASSUME T # {}
               PROVE  FALSE
    OBVIOUS
  <2>1. PICK q \in T : \A j \in T : q <= j
    <3>1. T \in SUBSET Nat
      OBVIOUS
    <3> HIDE DEF T
    <3> QED BY <3>1, LeastOf
  <2>2. q \in 1..n /\ v[q] # b
    OBVIOUS
  <2>3. q # 1
    BY <2>2
  <2>4. q - 1 \in 1..n /\ q - 1 \notin T
    <3>1. q - 1 \in 1..n /\ ~(q <= q - 1)
      BY <1>1, <2>2, <2>3
    <3> HIDE DEF T
    <3> QED BY <2>1, <3>1
  <2>5. v[q - 1] = b
    BY <2>4
  <2>6. v[q] = CorrectedAt(v[q - 1], w, q, dict)
    BY <2>2 DEF IsPass
  <2>7. b.next = n + 1 /\ q < n + 1
    BY <1>1, <1>7, <2>2
  <2> HIDE DEF b
  <2>8. CorrectedAt(b, w, q, dict) = b
    BY <2>7 DEF CorrectedAt
  <2> QED BY <2>2, <2>5, <2>6, <2>8
<1>9. v[n] = b
  BY <1>1, <1>8
<1> HIDE DEF b
<1> QED BY <1>7, <1>9

-----------------------------------------------------------------------------
(* A line as the words it is written from.                                 *)

\* The beginnings of a text that is put together from parts.
IsFlat(f, s) == f[0] = <<>> /\ \A i \in 1..Len(s) : f[i] = f[i - 1] \o s[i]

\* A flattened sequence, piece by piece.
LEMMA FlattenIs ==
  ASSUME NEW A, NEW s \in Seq(Seq(A))
  PROVE  \E f : IsFlat(f, s) /\ FlattenSeq(s) = f[Len(s)]
<1>1. CASE s = <<>>
  <2> DEFINE f == [i \in {0} |-> <<>>]
  <2>1. IsFlat(f, s)
    BY <1>1 DEF IsFlat
  <2>2. FlattenSeq(s) = f[Len(s)]
    BY <1>1 DEF FlattenSeq
  <2> QED BY <2>1, <2>2
<1>2. CASE s # <<>>
  <2>1. PICK g : /\ g = [i \in 1..Len(s) |-> IF i = 1 THEN s[i] ELSE g[i - 1] \o s[i]]
                 /\ FlattenSeq(s) = g[Len(s)]
    BY <1>2, FlattenUnfolds
  <2>2. \A i \in 1..Len(s) : g[i] = IF i = 1 THEN s[i] ELSE g[i - 1] \o s[i]
    BY <2>1, Zenon
  <2> DEFINE f == [i \in 0..Len(s) |-> IF i = 0 THEN <<>> ELSE g[i]]
  <2>3. f[0] = <<>> /\ f[Len(s)] = g[Len(s)] /\ \A i \in 1..Len(s) : f[i] = g[i]
    BY <1>2
  <2>4. ASSUME NEW i \in 1..Len(s)
        PROVE  f[i] = f[i - 1] \o s[i]
    <3> HIDE DEF f
    <3>1. CASE i = 1
      <4>1. s[i] \in Seq(A) /\ i - 1 = 0
        BY <3>1
      <4>2. <<>> \o s[i] = s[i]
        BY <4>1, ConcatEmptySeq
      <4> QED BY <2>2, <2>3, <3>1, <4>1, <4>2
    <3>2. CASE i # 1
      <4>1. i - 1 \in 1..Len(s)
        BY <3>2
      <4> QED BY <2>2, <2>3, <3>2, <4>1
    <3> QED BY <3>1, <3>2
  <2> HIDE DEF f
  <2>5. IsFlat(f, s)
    BY <2>3, <2>4 DEF IsFlat
  <2> QED BY <2>1, <2>3, <2>5
<1> QED BY <1>1, <1>2

\* Each of its stages begins the whole.
LEMMA FlatBegins ==
  ASSUME NEW A, NEW s \in Seq(Seq(A)), NEW f, IsFlat(f, s), NEW n \in 0..Len(s)
  PROVE  /\ f[n] \in Seq(A) /\ Len(f[n]) \in Nat
         /\ f[Len(s)] \in Seq(A)
         /\ Begins(f[n], f[Len(s)])
<1> DEFINE T == {k \in 0..Len(s) : f[k] \notin Seq(A)}
           R == {k \in n..Len(s) : ~Begins(f[n], f[k])}
<1>1. \A i \in 1..Len(s) : s[i] \in Seq(A) /\ f[i] = f[i - 1] \o s[i]
  <2>1. \A i \in 1..Len(s) : s[i] \in Seq(A)
    OBVIOUS
  <2> QED BY <2>1, Zenon DEF IsFlat
<1>2. T = {}
  <2> SUFFICES ASSUME T # {}
               PROVE  FALSE
    OBVIOUS
  <2>1. PICK k \in T : \A j \in T : k <= j
    <3>1. T \in SUBSET Nat
      OBVIOUS
    <3> HIDE DEF T
    <3> QED BY <3>1, LeastOf
  <2>2. k \in 0..Len(s) /\ f[k] \notin Seq(A)
    OBVIOUS
  <2>3. k # 0
    <3>1. f[0] = <<>> /\ <<>> \in Seq(A)
      BY DEF IsFlat
    <3> HIDE DEF T
    <3> QED BY <2>2, <3>1
  <2>4. k \in 1..Len(s) /\ k - 1 \in 0..Len(s) /\ k - 1 \notin T
    <3>1. k \in 1..Len(s) /\ k - 1 \in 0..Len(s) /\ ~(k <= k - 1)
      BY <2>2, <2>3
    <3> HIDE DEF T
    <3> QED BY <2>1, <3>1
  <2>5. f[k - 1] \in Seq(A)
    BY <2>4
  <2>6. f[k] = f[k - 1] \o s[k] /\ s[k] \in Seq(A)
    BY <1>1, <2>4
  <2> DEFINE x == f[k - 1]
  <2> HIDE DEF x
  <2>7. x \o s[k] \in Seq(A)
    BY <2>5, <2>6, ConcatEntries DEF x
  <2> QED BY <2>2, <2>6, <2>7 DEF x
<1>3. \A k \in 0..Len(s) : f[k] \in Seq(A) /\ Len(f[k]) \in Nat
  BY <1>2
<1>4. R = {}
  <2> SUFFICES ASSUME R # {}
               PROVE  FALSE
    OBVIOUS
  <2>1. PICK k \in R : \A j \in R : k <= j
    <3>1. R \in SUBSET Nat
      OBVIOUS
    <3> HIDE DEF R
    <3> QED BY <3>1, LeastOf
  <2>2. k \in n..Len(s) /\ ~Begins(f[n], f[k])
    OBVIOUS
  <2>3. k # n
    BY <1>3, <2>2 DEF Begins
  <2>4. k \in 1..Len(s) /\ k \in 0..Len(s) /\ k - 1 \in 0..Len(s) /\ k - 1 \in n..Len(s) /\ k - 1 \notin R
    <3>1. k \in 1..Len(s) /\ k \in 0..Len(s) /\ k - 1 \in 0..Len(s) /\ k - 1 \in n..Len(s) /\ ~(k <= k - 1)
      BY <2>2, <2>3
    <3> HIDE DEF R
    <3> QED BY <2>1, <3>1
  <2>5. Begins(f[n], f[k - 1])
    BY <2>4
  <2> DEFINE x == f[k - 1]
             y == s[k]
             z == f[k]
  <2>6. x \in Seq(A) /\ y \in Seq(A) /\ z = x \o y /\ Len(x) \in Nat /\ Len(z) \in Nat /\ Len(f[n]) \in Nat
    BY <1>1, <1>3, <2>4
  <2> HIDE DEF x, y, z
  <2>7. Begins(x, z)
    <3>1. Len(z) = Len(x) + Len(y) /\ \A i \in 1..Len(x) : z[i] = x[i]
      BY ONLY <2>6, ConcatEntries
    <3>2. Len(y) \in Nat
      BY <2>6
    <3> QED BY <2>6, <3>1, <3>2 DEF Begins
  <2>8. Begins(f[n], z)
    BY <2>5, <2>6, <2>7, BeginsAgain DEF x
  <2> QED BY <2>2, <2>8 DEF z
<1>5. Len(s) \in n..Len(s) /\ Len(s) \in 0..Len(s)
  OBVIOUS
<1> QED BY <1>3, <1>4, <1>5

\* The words of a line and what is before each.
Gap(i) == IF i = 1 THEN <<>> ELSE <<Blank>>
\* The words of a line, each after the first with its blank.
WordPieces(words) == [i \in DOMAIN words |-> Gap(i) \o words[i]]

\* They are the spaced line.
LEMMA WordPiecesFit ==
  ASSUME NEW signs, NEW words, NEW n \in Nat, DOMAIN words = 1..n,
         \A i \in 1..n : words[i] \in Seq(signs \cup {Blank})
  PROVE  /\ WordPieces(words) \in Seq(Seq(signs \cup {Blank})) /\ Len(WordPieces(words)) = n
         /\ \A i \in 1..n : WordPieces(words)[i] = Gap(i) \o words[i]
         /\ Spaced(words) = FlattenSeq(WordPieces(words))
<1> DEFINE S == signs \cup {Blank}
           ps == WordPieces(words)
<1>1. \A i : Gap(i) \in Seq(S)
  <2>1. <<>> \in Seq(S) /\ <<Blank>> \in Seq(S)
    OBVIOUS
  <2> QED BY <2>1 DEF Gap
<1>2. ps = [i \in 1..n |-> Gap(i) \o words[i]]
  BY DEF WordPieces
<1> HIDE DEF ps, S
<1>3. \A i \in 1..n : ps[i] = Gap(i) \o words[i] /\ ps[i] \in Seq(S)
  <2> TAKE i \in 1..n
  <2>1. ps[i] = Gap(i) \o words[i]
    BY <1>2
  <2> DEFINE x == Gap(i)
             y == words[i]
  <2>2. x \in Seq(S) /\ y \in Seq(S)
    BY <1>1 DEF S
  <2> HIDE DEF x, y
  <2>3. x \o y \in Seq(S)
    BY ONLY <2>2, ConcatEntries
  <2> QED BY <2>1, <2>3 DEF x, y
<1>4. ps \in [1..n -> Seq(S)] /\ DOMAIN ps = 1..n
  BY <1>2, <1>3
<1>5. ps \in Seq(Seq(S)) /\ Len(ps) = n
  BY <1>4
<1>6. [i \in DOMAIN words |-> IF i = 1 THEN words[i] ELSE <<Blank>> \o words[i]] = ps
  <2>1. ASSUME NEW i \in 1..n
        PROVE  (IF i = 1 THEN words[i] ELSE <<Blank>> \o words[i]) = Gap(i) \o words[i]
    <3> DEFINE y == words[i]
    <3>1. y \in Seq(S)
      BY DEF S
    <3> HIDE DEF y
    <3>2. <<>> \o y = y
      BY ONLY <3>1, ConcatEmptySeq
    <3> QED BY <3>2 DEF y, Gap
  <2> QED BY <1>2, <2>1
<1>7. Spaced(words) = FlattenSeq(ps)
  BY <1>6 DEF Spaced
<1> QED BY <1>3, <1>5, <1>7 DEF ps, S

\* Where the parts of a text stand in the text.
PartsAt(x, y, w, z, t) ==
  /\ Len(z) = Len(x) + Len(y) + Len(w) /\ Len(z) <= Len(t)
  /\ \A j \in 1..Len(y) : t[Len(x) + j] = y[j]
  /\ \A q \in 1..Len(w) : t[Len(x) + Len(y) + q] = w[q]

\* Three parts one after the other stand where they do.
LEMMA PartsStand ==
  ASSUME NEW A, NEW x \in Seq(A), NEW y \in Seq(A), NEW w \in Seq(A), NEW z, z = x \o (y \o w),
         NEW t \in Seq(A), Begins(z, t)
  PROVE  PartsAt(x, y, w, z, t)
<1> DEFINE v == y \o w
<1>1. Len(x) \in Nat /\ Len(y) \in Nat /\ Len(w) \in Nat /\ Len(t) \in Nat
  OBVIOUS
<1>2. /\ v \in Seq(A) /\ Len(v) = Len(y) + Len(w)
      /\ \A p \in 1..Len(y) : v[p] = y[p]
      /\ \A j \in 1..Len(w) : v[Len(y) + j] = w[j]
  BY ConcatEntries
<1> HIDE DEF v
<1>3. Len(z) = Len(x) + Len(v) /\ \A j \in 1..Len(v) : z[Len(x) + j] = v[j]
  BY <1>2, ConcatEntries DEF v
<1>4. Len(z) = Len(x) + Len(y) + Len(w) /\ Len(z) <= Len(t) /\ \A p \in 1..Len(z) : t[p] = z[p]
  BY <1>1, <1>2, <1>3 DEF Begins
<1>5. ASSUME NEW j \in 1..Len(y)
      PROVE  t[Len(x) + j] = y[j]
  <2>1. j \in 1..Len(v) /\ Len(x) + j \in 1..Len(z)
    BY <1>1, <1>2, <1>4
  <2> QED BY <1>2, <1>3, <1>4, <2>1
<1>6. ASSUME NEW q \in 1..Len(w)
      PROVE  t[Len(x) + Len(y) + q] = w[q]
  <2>1. Len(y) + q \in 1..Len(v) /\ Len(x) + Len(y) + q \in 1..Len(z) /\ Len(x) + Len(y) + q = Len(x) + (Len(y) + q)
    BY <1>1, <1>2, <1>4
  <2> QED BY <1>2, <1>3, <1>4, <2>1
<1> QED BY <1>4, <1>5, <1>6 DEF PartsAt

\* A raw line: words of signs.
Line(words, signs) ==
  /\ Len(words) \in Nat /\ DOMAIN words = 1..Len(words)
  /\ \A i \in 1..Len(words) : words[i] \in Seq(signs)

\* The blank between two words.
LEMMA GapIs ==
  ASSUME NEW signs, NEW i
  PROVE  /\ Gap(i) \in Seq(signs \cup {Blank})
         /\ (i = 1 => Gap(i) = <<>> /\ Len(Gap(i)) = 0)
         /\ (i # 1 => Gap(i) = <<Blank>> /\ Len(Gap(i)) = 1 /\ Gap(i)[1] = Blank)
BY DEF Gap

\* A word stands in the line after its blank.
PlacedAfter(w, t, k, i, e) ==
  /\ WordAt(w, t, k + Len(Gap(i))) /\ k + Len(Gap(i)) + Len(w) = e /\ k \in Nat
  /\ i # 1 => k + 1 \in 1..Len(t) /\ t[k + 1] = Blank

\* Every word of a line does.
LEMMA WordPlaced ==
  ASSUME NEW signs, NEW words, Line(words, signs), NEW f, IsFlat(f, WordPieces(words)), NEW i \in 1..Len(words)
  PROVE  PlacedAfter(words[i], f[Len(words)], Len(f[i - 1]), i, Len(f[i]))
<1> DEFINE S == signs \cup {Blank}
           ps == WordPieces(words)
           n == Len(words)
           t == f[n]
           x == f[i - 1]
           y == Gap(i)
           w == words[i]
           z == f[i]
           m == Len(x) + Len(y)
<1>1. n \in Nat /\ DOMAIN words = 1..n /\ \A j \in 1..n : words[j] \in Seq(signs)
  BY DEF Line
<1>0. i \in Nat /\ i >= 1 /\ i <= n
  BY <1>1
<1>2. \A j \in 1..n : words[j] \in Seq(S)
  BY <1>1, SignsOnly
<1>3. ps \in Seq(Seq(S)) /\ Len(ps) = n /\ \A j \in 1..n : ps[j] = Gap(j) \o words[j]
  BY <1>1, <1>2, WordPiecesFit
<1>4. ASSUME NEW j \in 0..n
      PROVE  f[j] \in Seq(S) /\ Len(f[j]) \in Nat /\ t \in Seq(S) /\ Begins(f[j], t)
  <2> HIDE DEF ps, S
  <2>1. j \in 0..Len(ps)
    BY <1>3
  <2>2. f[j] \in Seq(S) /\ Len(f[j]) \in Nat /\ f[Len(ps)] \in Seq(S) /\ Begins(f[j], f[Len(ps)])
    BY <1>3, <2>1, FlatBegins DEF ps
  <2> QED BY <1>3, <2>2
<1>5. ASSUME NEW j \in 1..n
      PROVE  f[j] = f[j - 1] \o (Gap(j) \o words[j])
  <2>1. f[j] = f[j - 1] \o ps[j]
    BY <1>3 DEF IsFlat
  <2> QED BY <1>3, <2>1
<1>6. ASSUME NEW j \in 1..n
      PROVE  /\ Len(f[j]) = Len(f[j - 1]) + Len(Gap(j)) + Len(words[j]) /\ Len(f[j]) <= Len(t)
             /\ \A q \in 1..Len(Gap(j)) : t[Len(f[j - 1]) + q] = Gap(j)[q]
             /\ \A q \in 1..Len(words[j]) : t[Len(f[j - 1]) + Len(Gap(j)) + q] = words[j][q]
  <2> DEFINE a == f[j - 1]
             b == Gap(j)
             c == words[j]
             d == f[j]
  <2>1. j - 1 \in 0..n /\ j \in 0..n
    BY <1>1
  <2>2. a \in Seq(S) /\ t \in Seq(S) /\ Begins(d, t)
    BY <1>4, <2>1
  <2>3. b \in Seq(S)
    BY GapIs
  <2>4. c \in Seq(S) /\ d = a \o (b \o c)
    BY <1>2, <1>5
  <2> HIDE DEF a, b, c, d, t, S
  <2>5. /\ Len(d) = Len(a) + Len(b) + Len(c) /\ Len(d) <= Len(t)
        /\ \A q \in 1..Len(b) : t[Len(a) + q] = b[q]
        /\ \A q \in 1..Len(c) : t[Len(a) + Len(b) + q] = c[q]
    <3>1. PartsAt(a, b, c, d, t)
      BY ONLY <2>2, <2>3, <2>4, PartsStand
    <3> QED BY <3>1 DEF PartsAt
  <2> QED BY <2>5 DEF a, b, c, d
<1>7. /\ Len(z) = m + Len(w) /\ Len(z) <= Len(t)
      /\ \A q \in 1..Len(y) : t[Len(x) + q] = y[q]
      /\ \A q \in 1..Len(w) : t[m + q] = w[q]
  BY <1>6
<1>8. Len(x) \in Nat /\ Len(t) \in Nat /\ Len(z) \in Nat
  <2>1. i - 1 \in 0..n /\ n \in 0..n /\ i \in 0..n
    BY <1>1
  <2> QED BY <1>4, <2>1
<1>9. Len(w) \in Nat /\ Len(y) \in Nat
  <2>1. w \in Seq(signs)
    BY <1>1
  <2>2. Len(y) = 0 \/ Len(y) = 1
    BY GapIs
  <2> HIDE DEF w, y
  <2> QED BY <2>1, <2>2
<1>10. (i = 1 => Len(x) = 0 /\ Len(y) = 0) /\ (i # 1 => Len(y) = 1 /\ y[1] = Blank)
  <2>1. i = 1 => f[i - 1] = <<>>
    BY DEF IsFlat
  <2>2. i = 1 => Len(f[i - 1]) = 0
    BY <2>1
  <2> QED BY <2>2, GapIs
<1>11. m + Len(w) = Len(t) \/ t[m + Len(w) + 1] = Blank
  <2>1. CASE i = n
    BY <1>7, <2>1
  <2>2. CASE i # n
    <3> DEFINE j == i + 1
    <3>1. j \in 1..n /\ j # 1 /\ j - 1 = i
      <4> HIDE DEF n
      <4> QED BY ONLY <1>0, <1>1, <2>2
    <3>2. \A q \in 1..Len(Gap(j)) : t[Len(f[j - 1]) + q] = Gap(j)[q]
      <4> HIDE DEF j
      <4> QED BY <1>6, <3>1
    <3>3. Len(Gap(j)) = 1 /\ Gap(j)[1] = Blank
      <4> HIDE DEF j
      <4> QED BY <3>1, GapIs
    <3>4. t[Len(f[j - 1]) + 1] = Blank
      BY <3>2, <3>3
    <3>5. t[Len(z) + 1] = Blank
      BY <3>1, <3>4
    <3> QED BY <1>7, <3>5
  <2> QED BY <2>1, <2>2
<1> HIDE DEF t, x, y, w, z
<1>12. m = 0 \/ t[m] = Blank
  BY <1>7, <1>8, <1>10
<1>13. i # 1 => Len(x) + 1 \in 1..Len(t) /\ t[Len(x) + 1] = Blank
  <2> SUFFICES ASSUME i # 1
               PROVE  Len(x) + 1 \in 1..Len(t) /\ t[Len(x) + 1] = Blank
    OBVIOUS
  <2>1. Len(y) = 1 /\ y[1] = Blank
    BY <1>10
  <2>2. Len(z) = Len(x) + 1 + Len(w) /\ Len(z) <= Len(t)
    BY <1>7, <2>1
  <2>3. Len(x) + 1 \in 1..Len(t)
    BY ONLY <1>8, <1>9, <2>2
  <2>4. 1 \in 1..Len(y)
    BY <2>1
  <2> QED BY <1>7, <2>1, <2>3, <2>4
<1>14. WordAt(w, t, m)
  BY <1>7, <1>8, <1>9, <1>11, <1>12 DEF WordAt
<1> QED BY <1>7, <1>8, <1>13, <1>14 DEF t, x, y, w, z, PlacedAfter

\* The words of a line after the glossary.
Replaced(words, dict) ==
  [i \in DOMAIN words |->
     IF words[i] \in DOMAIN dict THEN dict[words[i]] ELSE Correct(words[i], dict).text]

\* What is written for a word is the pass of the word alone.
LEMMA ReplacedIs ==
  ASSUME NEW signs, NEW dict, PlainGlossary(dict, signs),
         NEW words, Line(words, signs), NEW i \in 1..Len(words)
  PROVE  /\ Replaced(words, dict)[i] \in Seq(signs \cup {Blank})
         /\ \E v : /\ IsPass(v, words[i], dict)
                   /\ v[Len(words[i])].text = Replaced(words, dict)[i]
                   /\ words[i] \in DOMAIN dict => dict[words[i]] \in v[Len(words[i])].applied
<1> DEFINE S == signs \cup {Blank}
           w == words[i]
           r == Replaced(words, dict)[i]
<1>1. w \in Seq(signs) /\ i \in DOMAIN words
  BY DEF Line
<1>2. r = IF w \in DOMAIN dict THEN dict[w] ELSE Correct(w, dict).text
  BY <1>1 DEF Replaced
<1>3. Len(w) \in Nat /\ w \in Seq(S) /\ Len(w) \in 0..Len(w)
  <2>1. Len(w) \in Nat
    BY <1>1
  <2>2. w \in Seq(S)
    BY <1>1, SignsOnly
  <2> QED BY <2>1, <2>2
<1>4. PICK v : IsPass(v, w, dict) /\ Correct(w, dict) = v[Len(w)]
  BY <1>3, CorrectUnfolds
<1> HIDE DEF w, r
<1>5. v[Len(w)].text \in Seq(S)
  BY <1>3, <1>4, PassTexts
<1>6. w \in DOMAIN dict => v[Len(w)].text = dict[w] /\ v[Len(w)].applied = {dict[w]}
  BY <1>4, KeyAlone
<1>7. v[Len(w)].text = r
  BY <1>2, <1>4, <1>6
<1> QED BY <1>4, <1>5, <1>6, <1>7 DEF w, r

\* What the pass does to one word of a line.
WordDone(u, f, words, dict, i) ==
  /\ u[Len(f[i])].text = u[Len(f[i - 1])].text \o (Gap(i) \o Replaced(words, dict)[i])
  /\ u[Len(f[i])].next = Len(f[i]) + 1
  /\ words[i] \in DOMAIN dict => dict[words[i]] \in u[Len(f[i])].applied

\* A word of a line is written as alone, with the words before it done.
LEMMA WordCorrected ==
  ASSUME NEW signs, Alphabet(signs), NEW dict, PlainGlossary(dict, signs),
         NEW words, Line(words, signs), NEW f, IsFlat(f, WordPieces(words)),
         f[Len(words)] \in Seq(signs \cup {Blank}),
         NEW u, IsPass(u, f[Len(words)], dict), NEW i \in 1..Len(words),
         u[Len(f[i - 1])].next = Len(f[i - 1]) + 1
  PROVE  WordDone(u, f, words, dict, i)
<1> DEFINE S == signs \cup {Blank}
           t == f[Len(words)]
           k == Len(f[i - 1])
           y == Gap(i)
           m == k + Len(y)
           w == words[i]
           r == Replaced(words, dict)[i]
<1>1. /\ WordAt(w, t, m) /\ m + Len(w) = Len(f[i]) /\ k \in Nat
      /\ i # 1 => k + 1 \in 1..Len(t) /\ t[k + 1] = Blank
  <2>1. PlacedAfter(w, t, k, i, Len(f[i]))
    BY WordPlaced
  <2> QED BY <2>1 DEF PlacedAfter
<1>2. w \in Seq(signs) /\ Len(w) \in Nat
  <2>1. w \in Seq(signs)
    BY DEF Line
  <2> HIDE DEF w
  <2> QED BY <2>1
<1>3. r \in Seq(S)
  BY ReplacedIs
<1>4. PICK v : /\ IsPass(v, w, dict) /\ v[Len(w)].text = r
               /\ w \in DOMAIN dict => dict[w] \in v[Len(w)].applied
  BY ReplacedIs
<1>5. IsPass(u, t, dict) /\ t \in Seq(S) /\ u[k].next = k + 1
  OBVIOUS
<1>6. y \in Seq(S) /\ (i = 1 => y = <<>> /\ Len(y) = 0) /\ (i # 1 => y = <<Blank>> /\ Len(y) = 1)
  BY GapIs
<1> HIDE DEF S, t, k, y, w, r
<1>7. m \in Nat /\ m <= Len(t) /\ k <= m /\ Len(t) \in Nat
  <2>1. m \in Nat /\ m + Len(w) <= Len(t)
    BY <1>1 DEF WordAt
  <2>2. Len(y) = 0 \/ Len(y) = 1
    BY <1>6
  <2>3. Len(t) \in Nat
    BY <1>5
  <2> QED BY <1>1, <1>2, <2>1, <2>2, <2>3
<1>8. u[k].text \in Seq(S)
  <2>1. k \in 0..Len(t)
    BY <1>1, <1>7
  <2> QED BY <1>5, <2>1, PassTexts DEF S
<1>9. u[m].text = u[k].text \o y /\ u[m].next = m + 1
  <2>1. CASE i = 1
    <3>1. m = k /\ y = <<>>
      BY <1>1, <1>6, <2>1
    <3> DEFINE x == u[k].text
    <3>2. x \o <<>> = x
      <4>1. x \in Seq(S)
        BY <1>8
      <4> HIDE DEF x
      <4> QED BY ONLY <4>1, ConcatEmptySeq
    <3> QED BY <1>5, <3>1, <3>2
  <2>2. CASE i # 1
    <3> DEFINE p == k + 1
    <3>1. p \in 1..Len(t) /\ t[p] = Blank /\ p - 1 = k /\ m = p /\ y = <<Blank>>
      <4>1. Len(y) = 1 /\ y = <<Blank>> /\ k \in Nat
        BY <1>1, <1>6, <2>2
      <4>2. p - 1 = k /\ m = p
        BY ONLY <4>1
      <4> QED BY <1>1, <2>2, <4>1, <4>2
    <3>2. u[p - 1].next = p
      BY <1>5, <3>1
    <3> HIDE DEF p
    <3>3. u[p].text = u[p - 1].text \o <<Blank>> /\ u[p].next = p + 1
      <4>1. BlankDone(u, p)
        BY <1>5, <3>1, <3>2, BlankStep DEF S
      <4> QED BY <4>1 DEF BlankDone
    <3>4. u[p].text = u[k].text \o <<Blank>>
      BY <3>1, <3>3
    <3>5. m = p
      BY <3>1
    <3> HIDE DEF m
    <3> QED BY <3>1, <3>3, <3>4, <3>5
  <2> QED BY <2>1, <2>2
<1>10. u[m + Len(w)] = Further(u[m], v[Len(w)], m) /\ u[m + Len(w)].next = m + Len(w) + 1
  <2> HIDE DEF m
  <2>1. u[m].next = m + 1
    BY <1>9
  <2> QED BY <1>1, <1>2, <1>4, <1>5, <2>1, WordSteps DEF S
<1>11. u[m + Len(w)].text = u[m].text \o r /\ u[m + Len(w)].applied = u[m].applied \cup v[Len(w)].applied
  BY <1>4, <1>10 DEF Further
<1>12. (u[k].text \o y) \o r = u[k].text \o (y \o r)
  <2> DEFINE x == u[k].text
  <2>1. x \in Seq(S)
    BY <1>8
  <2> HIDE DEF x
  <2>2. (x \o y) \o r = x \o (y \o r)
    BY ONLY <1>3, <1>6, <2>1, ConcatAssociative
  <2> QED BY <2>2 DEF x
<1>13. u[m + Len(w)].text = u[k].text \o (y \o r)
  BY <1>9, <1>11, <1>12
<1>14. /\ u[Len(f[i])].text = u[k].text \o (y \o r)
       /\ u[Len(f[i])].next = Len(f[i]) + 1
       /\ w \in DOMAIN dict => dict[w] \in u[Len(f[i])].applied
  <2> DEFINE e == m + Len(w)
  <2>1. e = Len(f[i])
    BY <1>1
  <2>2. /\ u[e].text = u[k].text \o (y \o r) /\ u[e].next = e + 1
        /\ w \in DOMAIN dict => dict[w] \in u[e].applied
    BY <1>4, <1>10, <1>11, <1>13
  <2> HIDE DEF e
  <2> QED BY <2>1, <2>2
<1> QED BY <1>14 DEF WordDone, k, y, r, w

\* An entry occurs where its signs stand.
LEMMA OccursIs ==
  ASSUME NEW S, NEW t \in Seq(S), NEW k \in Seq(S), k # <<>>
  PROVE  Occurs(t, k) <=>
           \E p \in 1..Len(t) : p + Len(k) - 1 <= Len(t) /\ \A x \in 1..Len(k) : t[p + x - 1] = k[x]
<1>1. Len(k) \in Nat \ {0} /\ Len(t) \in Nat
  OBVIOUS
<1>2. \A p \in 1..Len(t) :
        Standing(t, p, k) <=> p + Len(k) - 1 <= Len(t) /\ \A x \in 1..Len(k) : t[p + x - 1] = k[x]
  BY StandingIs
<1>3. \A p : p \in 1..(Len(t) - Len(k) + 1) <=> p \in 1..Len(t) /\ p + Len(k) - 1 <= Len(t)
  BY <1>1
<1>4. Occurs(t, k) <=> \E p \in 1..Len(t) : Standing(t, p, k)
  BY <1>3 DEF Occurs, Standing
<1> QED BY <1>2, <1>4

\* A target stays, whichever fives were heard for a syllable.
LEMMA OccursHeard ==
  ASSUME NEW signs, Alphabet(signs), NEW c \in Seq(signs \cup {Blank}), NEW k \in Seq(signs \cup {Blank}),
         k # <<>>, \A x \in 1..Len(k) : k[x] \notin Digits, Occurs(c, k)
  PROVE  Occurs(Homophone(c), k)
<1> DEFINE S == signs \cup {Blank}
           A == S \cup {"oh"}
           h == Homophone(c)
<1>1. h \in Seq(A) /\ Len(h) = Len(c) /\ \A p \in 1..Len(c) : h[p] = IF HeardFive(c, p) THEN "oh" ELSE c[p]
  BY HomophoneIs
<1>2. k \in Seq(A) /\ c \in Seq(S) /\ k \in Seq(S) /\ Len(k) \in Nat
  <2>1. S \subseteq A
    OBVIOUS
  <2>2. c \in Seq(S) /\ k \in Seq(S)
    OBVIOUS
  <2> HIDE DEF A, S
  <2> QED BY <2>1, <2>2, SeqGrows
<1> HIDE DEF A, S, h
<1>3. PICK p \in 1..Len(c) : p + Len(k) - 1 <= Len(c) /\ \A x \in 1..Len(k) : c[p + x - 1] = k[x]
  BY <1>2, OccursIs
<1>4. ASSUME NEW x \in 1..Len(k)
      PROVE  h[p + x - 1] = k[x]
  <2> DEFINE q == p + x - 1
  <2>1. q \in 1..Len(c)
    BY <1>2, <1>3
  <2>2. c[q] = k[x] /\ c[q] \notin Digits /\ "5" \in Digits
    BY <1>3 DEF Alphabet
  <2> HIDE DEF q
  <2>3. h[q] = c[q]
    BY <1>1, <2>1, <2>2 DEF HeardFive
  <2> QED BY <2>2, <2>3 DEF q
<1>5. Occurs(h, k)
  BY <1>1, <1>2, <1>3, <1>4, OccursIs
<1> QED BY <1>5 DEF h

\* A corrected line: its words replaced, and its targets written.
LineDone(u, words, dict, signs) ==
  LET t == Spaced(words)
      c == u[Len(t)]
  IN /\ t \in Seq(signs \cup {Blank}) /\ IsPass(u, t, dict) /\ Correct(t, dict) = c
     /\ c.text = Spaced(Replaced(words, dict))
     /\ \A i \in 1..Len(words) :
          words[i] \in DOMAIN dict =>
             dict[words[i]] \in c.applied /\ Occurs(Homophone(c.text), dict[words[i]])

\* A whole line, word after word.
LEMMA LineCorrected ==
  ASSUME NEW signs, Alphabet(signs), NEW dict, PlainGlossary(dict, signs), NEW words, Line(words, signs)
  PROVE  \E u : LineDone(u, words, dict, signs)
<1> DEFINE S == signs \cup {Blank}
           n == Len(words)
           rs == Replaced(words, dict)
           t == Spaced(words)
           ps == WordPieces(words)
           qs == WordPieces(rs)
<1>1. n \in Nat /\ DOMAIN words = 1..n /\ \A i \in 1..n : words[i] \in Seq(signs)
  BY DEF Line
<1>2. \A i \in 1..n : words[i] \in Seq(S)
  BY <1>1, SignsOnly
<1>3. ps \in Seq(Seq(S)) /\ Len(ps) = n /\ t = FlattenSeq(ps)
  BY <1>1, <1>2, WordPiecesFit
<1>4. DOMAIN rs = 1..n /\ \A i \in 1..n : rs[i] \in Seq(S)
  <2>1. DOMAIN rs = 1..n
    BY <1>1 DEF Replaced
  <2> QED BY <2>1, ReplacedIs
<1>5. qs \in Seq(Seq(S)) /\ Len(qs) = n /\ Spaced(rs) = FlattenSeq(qs) /\ \A i \in 1..n : qs[i] = Gap(i) \o rs[i]
  <2> HIDE DEF rs
  <2> QED BY <1>1, <1>4, WordPiecesFit
<1>6. PICK f : IsFlat(f, ps) /\ FlattenSeq(ps) = f[Len(ps)]
  <2> HIDE DEF ps
  <2> QED BY <1>3, FlattenIs
<1>7. PICK g : IsFlat(g, qs) /\ FlattenSeq(qs) = g[Len(qs)]
  <2> HIDE DEF qs
  <2> QED BY <1>5, FlattenIs
<1>8. t = f[n] /\ Spaced(rs) = g[n]
  BY <1>3, <1>5, <1>6, <1>7
<1>9. ASSUME NEW i \in 0..n
      PROVE  f[i] \in Seq(S) /\ Len(f[i]) \in Nat /\ f[n] \in Seq(S) /\ Begins(f[i], f[n])
  <2> HIDE DEF ps, S
  <2>1. i \in 0..Len(ps)
    BY <1>3
  <2>2. f[i] \in Seq(S) /\ Len(f[i]) \in Nat /\ f[Len(ps)] \in Seq(S) /\ Begins(f[i], f[Len(ps)])
    BY <1>3, <1>6, <2>1, FlatBegins
  <2> QED BY <1>3, <2>2
<1>10. t \in Seq(S) /\ Len(t) \in Nat
  <2>1. n \in 0..n
    BY <1>1
  <2> QED BY <1>8, <1>9, <2>1
<1>11. PICK u : IsPass(u, t, dict) /\ Correct(t, dict) = u[Len(t)]
  <2> HIDE DEF t
  <2> QED BY <1>10, CorrectUnfolds
<1> HIDE DEF S, rs, t, ps, qs
<1>12. ASSUME NEW i \in 1..n, u[Len(f[i - 1])].next = Len(f[i - 1]) + 1
       PROVE  WordDone(u, f, words, dict, i)
  <2>1. f[Len(words)] \in Seq(signs \cup {Blank}) /\ IsPass(u, f[Len(words)], dict) /\ IsFlat(f, WordPieces(words))
    BY <1>6, <1>8, <1>10, <1>11 DEF S, ps
  <2> QED BY <1>12, <2>1, WordCorrected
<1>13. \A i \in 1..n : g[i] = g[i - 1] \o (Gap(i) \o rs[i])
  <2>1. \A i \in 1..n : g[i] = g[i - 1] \o qs[i]
    BY <1>5, <1>7 DEF IsFlat
  <2> QED BY <1>5, <2>1
<1> DEFINE Reached(i) == u[Len(f[i])].text = g[i] /\ u[Len(f[i])].next = Len(f[i]) + 1
           T == {i \in 0..n : ~Reached(i)}
<1>14. T = {}
  <2> SUFFICES ASSUME T # {}
               PROVE  FALSE
    OBVIOUS
  <2>1. PICK i \in T : \A j \in T : i <= j
    <3>1. T \in SUBSET Nat
      OBVIOUS
    <3> HIDE DEF T
    <3> QED BY <3>1, LeastOf
  <2>2. i \in 0..n /\ ~Reached(i)
    OBVIOUS
  <2>3. i # 0
    <3>1. f[0] = <<>> /\ g[0] = <<>>
      BY <1>6, <1>7 DEF IsFlat
    <3>2. Len(f[0]) = 0 /\ u[0] = Uncorrected
      BY <1>11, <3>1 DEF IsPass
    <3>3. u[0].text = <<>> /\ u[0].next = 0 + 1
      BY <3>2 DEF Uncorrected
    <3>4. Reached(0)
      BY <3>1, <3>2, <3>3
    <3> QED BY <2>2, <3>4
  <2>4. i \in 1..n /\ i - 1 \in 0..n /\ i - 1 \notin T
    <3>1. i \in 1..n /\ i - 1 \in 0..n /\ ~(i <= i - 1)
      BY <1>1, <2>2, <2>3
    <3> HIDE DEF T
    <3> QED BY <2>1, <3>1
  <2>5. Reached(i - 1)
    BY <2>4
  <2>6. WordDone(u, f, words, dict, i)
    BY <1>12, <2>4, <2>5
  <2>7. u[Len(f[i])].text = u[Len(f[i - 1])].text \o (Gap(i) \o rs[i]) /\ u[Len(f[i])].next = Len(f[i]) + 1
    BY <2>6 DEF WordDone, rs
  <2>8. g[i] = g[i - 1] \o (Gap(i) \o rs[i])
    BY <1>13, <2>4
  <2> QED BY <2>2, <2>5, <2>7, <2>8
<1>15. \A i \in 0..n : Reached(i)
  BY <1>14
<1> HIDE DEF T
<1> DEFINE c == u[Len(t)]
<1>16. c.text = Spaced(rs)
  <2>1. n \in 0..n
    BY <1>1
  <2> QED BY <1>8, <1>15, <2>1
<1>17. ASSUME NEW i \in 1..n, words[i] \in DOMAIN dict
       PROVE  dict[words[i]] \in c.applied /\ Occurs(Homophone(c.text), dict[words[i]])
  <2> DEFINE new == dict[words[i]]
             e == Len(f[i])
  <2>1. i - 1 \in 0..n /\ i \in 0..n
    BY <1>1
  <2>2. WordDone(u, f, words, dict, i)
    BY <1>12, <1>15, <2>1
  <2>3. u[e].text = u[Len(f[i - 1])].text \o (Gap(i) \o rs[i]) /\ new \in u[e].applied
    BY <1>17, <2>2 DEF WordDone, rs
  <2>4. rs[i] = new
    BY <1>1, <1>17 DEF rs, Replaced
  <2>5. e \in 0..Len(t) /\ Len(t) \in e..Len(t)
    <3>1. Begins(f[i], t) /\ Len(f[i]) \in Nat
      BY <1>8, <1>9, <2>1
    <3>2. e <= Len(t)
      BY <3>1 DEF Begins
    <3> QED BY <1>10, <3>1, <3>2
  <2>6. Begins(u[e].text, c.text) /\ u[e].applied \subseteq c.applied
    <3> HIDE DEF e
    <3> QED BY <1>10, <1>11, <2>5, PassGrows DEF S
  <2>7. c.text \in Seq(S)
    <3>1. Len(t) \in 0..Len(t)
      BY <1>10
    <3> QED BY <1>10, <1>11, <3>1, PassTexts DEF S
  <2> DEFINE x == u[Len(f[i - 1])].text
             y == Gap(i)
  <2>8. x \in Seq(S)
    <3>1. Len(f[i - 1]) \in 0..Len(t)
      <4>1. Begins(f[i - 1], t) /\ Len(f[i - 1]) \in Nat
        BY <1>8, <1>9, <2>1
      <4>2. Len(f[i - 1]) <= Len(t)
        BY <4>1 DEF Begins
      <4> QED BY <1>10, <4>1, <4>2
    <3> QED BY <1>10, <1>11, <3>1, PassTexts DEF S
  <2>9. /\ new \in Seq(S) /\ Len(new) \in Nat \ {0} /\ y \in Seq(S)
        /\ \A q \in 1..Len(new) : new[q] \notin Digits
    BY <1>17, PlainWords, GapIs DEF S
  <2> HIDE DEF new, e, x, y
  <2> DEFINE z == u[e].text
             d == c.text
             a == Len(x) + Len(y)
  <2>10. PartsAt(x, y, new, z, d)
    <3>1. z = x \o (y \o new) /\ Begins(z, d) /\ d \in Seq(S)
      BY <2>3, <2>4, <2>6, <2>7 DEF x, y, new
    <3> HIDE DEF z, d
    <3> QED BY ONLY <2>8, <2>9, <3>1, PartsStand
  <2> HIDE DEF z, d
  <2>11. /\ Len(z) = a + Len(new) /\ Len(z) <= Len(d)
         /\ \A q \in 1..Len(new) : d[a + q] = new[q]
    BY <2>10 DEF PartsAt
  <2>12. a \in Nat /\ Len(d) \in Nat /\ d \in Seq(S)
    BY <2>7, <2>8, <2>9 DEF d
  <2> HIDE DEF a
  <2>13. Occurs(d, new)
    <3> DEFINE p == a + 1
    <3>1. p \in 1..Len(d) /\ p + Len(new) - 1 <= Len(d)
      BY <2>9, <2>11, <2>12
    <3>2. \A q \in 1..Len(new) : p + q - 1 = a + q
      BY <2>12
    <3> HIDE DEF p
    <3>3. \A q \in 1..Len(new) : d[p + q - 1] = new[q]
      BY <2>11, <3>2
    <3>4. new # <<>>
      BY <2>9
    <3> QED BY <2>9, <2>12, <3>1, <3>3, <3>4, OccursIs
  <2>14. Occurs(Homophone(d), new)
    <3>1. new # <<>>
      BY <2>9
    <3> QED BY <2>9, <2>12, <2>13, <3>1, OccursHeard DEF S
  <2>15. new \in c.applied
    BY <2>3, <2>6 DEF e, new
  <2> QED BY <2>14, <2>15 DEF new, d
<1>18. LineDone(u, words, dict, signs)
  BY <1>10, <1>11, <1>16, <1>17 DEF LineDone, t, S, rs
<1> QED BY <1>18

-----------------------------------------------------------------------------
(* What the gate keeps of a line.                                          *)

\* One glossary over another is as plain as both.
LEMMA PlainOver ==
  ASSUME NEW signs, NEW f, NEW g, PlainGlossary(f, signs), PlainGlossary(g, signs)
  PROVE  PlainGlossary(Over(f, g), signs)
BY DEF Over, PlainGlossary

\* A line of the transcript: what was written for its words.
LEMMA GlossedIs ==
  ASSUME NEW signs, Alphabet(signs), NEW dict, PlainGlossary(dict, signs), NEW words, Line(words, signs)
  PROVE  Glossed(words, dict).text = Homophone(Spaced(Replaced(words, dict)))
<1>1. PICK u : LineDone(u, words, dict, signs)
  BY LineCorrected
<1> DEFINE t == Spaced(words)
<1>2. Correct(t, dict) = u[Len(t)] /\ u[Len(t)].text = Spaced(Replaced(words, dict))
  BY <1>1 DEF LineDone
<1>3. Glossed(words, dict).text = Homophone(Correct(t, dict).text)
  BY DEF Glossed
<1> QED BY <1>2, <1>3

\* What the gate keeps of a line, whatever is answered: its numbers and the
\* targets it was told to keep.
LEMMA GateKeeps ==
  ASSUME NEW signs, Alphabet(signs), NEW dict, PlainGlossary(dict, signs), NEW words, Line(words, signs),
         NEW keep,
         \A i \in 1..Len(words) :
            words[i] \in DOMAIN dict /\ Occurs(Glossed(words, dict).text, dict[words[i]])
              /\ dict[words[i]] \in Glossed(words, dict).applied => dict[words[i]] \in keep,
         NEW answer, NEW edit
  PROVE  Survives(words, dict, RepairOrDegrade(Glossed(words, dict).text, answer, keep, edit).text)
<1> DEFINE t == Spaced(words)
           g == Glossed(words, dict)
           line == RepairOrDegrade(g.text, answer, keep, edit)
<1>1. PICK u : LineDone(u, words, dict, signs)
  BY LineCorrected
<1> DEFINE c == u[Len(t)]
           h == Homophone(c.text)
<1>2. /\ t \in Seq(signs \cup {Blank}) /\ IsPass(u, t, dict)
      /\ g.text = h /\ g.applied = c.applied
  <2>1. t \in Seq(signs \cup {Blank}) /\ IsPass(u, t, dict) /\ Correct(t, dict) = c
    BY <1>1 DEF LineDone
  <2>2. g.text = Homophone(Correct(t, dict).text) /\ g.applied = Correct(t, dict).applied
    BY DEF Glossed
  <2> QED BY <2>1, <2>2
<1>3. \A i \in 1..Len(words) : words[i] \in DOMAIN dict => Occurs(h, dict[words[i]]) /\ dict[words[i]] \in keep
  <2>1. \A i \in 1..Len(words) : words[i] \in DOMAIN dict =>
           dict[words[i]] \in c.applied /\ Occurs(h, dict[words[i]])
    BY <1>1 DEF LineDone
  <2> HIDE DEF c, h
  <2> QED BY <1>2, <2>1
<1>4. \A n \in Numbers(t) : n \in Numbers(h) \/ (n = <<"5">> /\ Occurs(t, Five))
  <2> HIDE DEF t
  <2>1. \A n \in Numbers(t) : n \in Numbers(Homophone(u[Len(t)].text)) \/ (n = <<"5">> /\ Occurs(t, Five))
    BY <1>2, NumberSurvives
  <2> QED BY <2>1
<1>5. Occurs(h, Five) => Occurs(t, Five)
  <2> HIDE DEF t
  <2>1. Occurs(Homophone(u[Len(t)].text), Five) => Occurs(t, Five)
    BY <1>2, FiveWasThere
  <2> QED BY <2>1
<1>6. DOMAIN words = 1..Len(words)
  BY DEF Line
<1> HIDE DEF t, g, c, h, line
<1>7. CASE ValidSegment(h, answer, keep, edit)
  <2>1. line.text = answer.text
    BY <1>2, <1>7 DEF RepairOrDegrade, line
  <2> DEFINE a == answer.text
  <2>2. /\ \A k \in keep : Occurs(h, k) => Occurs(a, k)
        /\ Numbers(h) \ ExcusedDigits(h, a) \subseteq Numbers(a)
    BY <1>7 DEF ValidSegment, ContentPreserved
  <2>3. ExcusedDigits(h, a) # {} => ExcusedDigits(h, a) = {<<"5">>} /\ Occurs(h, Five)
    BY DEF ExcusedDigits, Five
  <2> HIDE DEF a
  <2>4. \A n \in Numbers(t) : n \in Numbers(a) \/ (n = <<"5">> /\ Occurs(t, Five))
    BY <1>4, <1>5, <2>2, <2>3
  <2>5. \A i \in 1..Len(words) : words[i] \in DOMAIN dict => Occurs(a, dict[words[i]])
    BY <1>3, <2>2
  <2>6. Survives(words, dict, a)
    BY <1>6, <2>4, <2>5 DEF Survives, Five, t
  <2> QED BY <2>1, <2>6 DEF a, line, g
<1>8. CASE ~ValidSegment(h, answer, keep, edit)
  <2>1. line.text = h
    BY <1>2, <1>8 DEF RepairOrDegrade, line
  <2>2. Survives(words, dict, h)
    BY <1>3, <1>4, <1>6 DEF Survives, Five, t
  <2> QED BY <2>1, <2>2 DEF line, g
<1> QED BY <1>7, <1>8

\* The original of a line has all of it.
LEMMA OriginalKeeps ==
  ASSUME NEW signs, Alphabet(signs), NEW dict, PlainGlossary(dict, signs), NEW words, Line(words, signs)
  PROVE  Survives(words, dict, Glossed(words, dict).text)
<1> DEFINE g == Glossed(words, dict)
           none == [text |-> <<>>, overEdited |-> FALSE]
           keep == g.applied
<1>1. RepairOrDegrade(g.text, none, keep, FALSE).text = g.text
  BY DEF RepairOrDegrade, ValidSegment
<1>2. Survives(words, dict, RepairOrDegrade(g.text, none, keep, FALSE).text)
  <2>1. \A i \in 1..Len(words) :
            words[i] \in DOMAIN dict /\ Occurs(g.text, dict[words[i]])
              /\ dict[words[i]] \in g.applied => dict[words[i]] \in keep
    OBVIOUS
  <2> HIDE DEF keep, none
  <2> QED BY <2>1, GateKeeps
<1> QED BY <1>1, <1>2

\* A slot of the work-order, filled or not.
LEMMA CollectedKeeps ==
  ASSUME NEW signs, Alphabet(signs), PlainGlossary(Seed, signs), NEW words, Line(words, signs),
         NEW entry, entry.original = Glossed(words, Seed).text, NEW edit
  PROVE  Survives(words, Seed, Collected(entry, edit).text)
<1> DEFINE g == Glossed(words, Seed)
           keep == {t \in Range(Seed) : Occurs(g.text, t)}
<1>1. CASE entry.slot = Nil
  <2>1. Collected(entry, edit).text = g.text
    BY <1>1 DEF Collected
  <2> QED BY <2>1, OriginalKeeps
<1>2. CASE entry.slot # Nil
  <2>1. Collected(entry, edit) = RepairOrDegrade(g.text, entry.slot, keep, edit)
    BY <1>2 DEF Collected
  <2>2. \A i \in 1..Len(words) :
            words[i] \in DOMAIN Seed /\ Occurs(g.text, Seed[words[i]])
              /\ Seed[words[i]] \in g.applied => Seed[words[i]] \in keep
    BY DEF Range
  <2>3. Survives(words, Seed, RepairOrDegrade(g.text, entry.slot, keep, edit).text)
    <3> HIDE DEF keep
    <3> QED BY <2>2, GateKeeps
  <2> QED BY <2>1, <2>3
<1> QED BY <1>1, <1>2

-----------------------------------------------------------------------------
(* Every line that is published.                                           *)

\* Words of signs are a line.
LEMMA LinesAre ==
  ASSUME NEW signs, NEW words \in Seq(Seq(signs))
  PROVE  Line(words, signs)
BY DEF Line

\* What a request is about to save is a plain entry.
PlainSave(p, signs) ==
  p.scope \in Scopes /\ Plain(p.source, signs) /\ Plain(p.target, signs) /\ p.target[1] # "tam"

\* Everything stored or about to be is plain.
TermsPlain(stored, saves, signs) ==
  /\ DOMAIN stored = Scopes /\ \A s \in Scopes : PlainGlossary(stored[s], signs)
  /\ DOMAIN saves = Requests /\ \A r \in Requests : saves[r] # <<>> => PlainSave(saves[r][1], signs)

\* A job: the entries it corrects by are plain, its text is its words
\* corrected by them, and its line keeps what they have to.
JobKeeps(j, signs) ==
  /\ j.at = "reading" =>
        /\ j = [at |-> "reading", merged |-> j.merged, begun |-> j.begun, steady |-> j.steady]
        /\ PlainGlossary(j.merged, signs)
  /\ j.at \in {"queued", "corrected", "done"} => PlainGlossary(j.glossary, signs)
  /\ j.at \in {"corrected", "done"} =>
        Line(j.words, signs) /\ j.text = Glossed(j.words, j.glossary).text
  /\ j.at = "corrected" => j.applied = Glossed(j.words, j.glossary).applied
  /\ j.at = "done" => Survives(j.words, j.glossary, j.line.text)

\* Of the server's part: the terms, and the job that reads them.
WordsInv(signs) == TermsPlain(terms, pending, signs) /\ JobKeeps(job, signs)

\* What the job writes keeps what its words have to, whatever is saved
\* or deleted while it runs and whatever the model answers.
LEMMA WordsHold ==
  ASSUME NEW signs, Written(signs)
  PROVE  WordingSpec => []WordsInv(signs)
<1>1. HandInit => WordsInv(signs)
  <2> SUFFICES ASSUME HandInit
               PROVE  WordsInv(signs)
    OBVIOUS
  <2>1. terms = [s \in Scopes |-> <<>>] /\ job = [at |-> "idle"] /\ pending = [r \in Requests |-> <<>>]
    BY DEF HandInit, WordInit
  <2>2. PlainGlossary(<<>>, signs)
    BY DEF PlainGlossary
  <2>3. TermsPlain(terms, pending, signs)
    BY <2>1, <2>2 DEF TermsPlain
  <2>4. JobKeeps(job, signs)
    BY <2>1 DEF JobKeeps
  <2> QED BY <2>3, <2>4 DEF WordsInv
<1>2. WordsInv(signs) /\ [WordingNext]_<<wordVars, hand>> => WordsInv(signs)'
  <2> SUFFICES ASSUME WordsInv(signs), [WordingNext]_<<wordVars, hand>>
               PROVE  TermsPlain(terms', pending', signs) /\ JobKeeps(job', signs)
    BY DEF WordsInv
  <2>0. TermsPlain(terms, pending, signs) /\ JobKeeps(job, signs)
    BY DEF WordsInv
  <2>1. ASSUME UNCHANGED <<terms, pending>>
        PROVE  TermsPlain(terms', pending', signs)
    BY <2>0, <2>1
  <2>2. ASSUME UNCHANGED job
        PROVE  JobKeeps(job', signs)
    BY <2>0, <2>2
  <2>3. ASSUME NEW s, NEW k, job' = Unsettled(job, s, k)
        PROVE  JobKeeps(job', signs)
    <3>1. CASE job.at = "reading"
      <4>1. /\ job = [at |-> "reading", merged |-> job.merged, begun |-> job.begun, steady |-> job.steady]
            /\ PlainGlossary(job.merged, signs)
        BY <2>0, <3>1 DEF JobKeeps
      <4>2. job' = [at |-> "reading", merged |-> job.merged, begun |-> job.begun,
                    steady |-> job.steady \ {<<s, k>>}]
        BY <2>3, <3>1, <4>1 DEF Unsettled
      <4> QED BY <4>1, <4>2 DEF JobKeeps
    <3>2. CASE job.at # "reading"
      BY <2>2, <2>3, <3>2 DEF Unsettled
    <3> QED BY <3>1, <3>2
  <2>4. ASSUME NEW r \in Requests, NEW s \in Scopes, NEW e \in Entries, CheckTerm(r, s, e)
        PROVE  TermsPlain(terms', pending', signs) /\ JobKeeps(job', signs)
    <3> DEFINE p == [scope |-> s, source |-> e[1], target |-> e[2]]
    <3>1. UNCHANGED <<terms, job>> /\ pending' = [pending EXCEPT ![r] = <<p>>]
      BY <2>4 DEF CheckTerm
    <3>2. PlainSave(p, signs)
      BY DEF PlainSave, Written
    <3> HIDE DEF p
    <3>3. <<p>>[1] = p
      OBVIOUS
    <3>4. TermsPlain(terms', pending', signs)
      <4>1. DOMAIN pending' = Requests /\ \A q \in Requests : pending'[q] # <<>> => PlainSave(pending'[q][1], signs)
        BY <2>0, <3>1, <3>2, <3>3 DEF TermsPlain
      <4> QED BY <2>0, <3>1, <4>1 DEF TermsPlain
    <3> QED BY <2>2, <3>1, <3>4
  <2>5. ASSUME NEW r \in Requests, SaveTerm(r)
        PROVE  TermsPlain(terms', pending', signs) /\ JobKeeps(job', signs)
    <3> DEFINE p == pending[r][1]
               one == [k \in {p.source} |-> p.target]
               f == Over(one, terms[p.scope])
    <3>1. /\ terms' = [terms EXCEPT ![p.scope] = f] /\ job' = Unsettled(job, p.scope, p.source)
          /\ pending' = [pending EXCEPT ![r] = <<>>] /\ pending[r] # <<>>
      BY <2>5 DEF SaveTerm
    <3>2. PlainSave(p, signs)
      BY <2>0, <3>1 DEF TermsPlain
    <3> HIDE DEF p
    <3>3. p.scope \in Scopes /\ PlainGlossary(one, signs)
      BY <3>2 DEF PlainSave, PlainGlossary
    <3>4. PlainGlossary(f, signs)
      <4>1. PlainGlossary(terms[p.scope], signs)
        BY <2>0, <3>3 DEF TermsPlain
      <4> HIDE DEF one
      <4> QED BY <3>3, <4>1, PlainOver
    <3> HIDE DEF f
    <3>5. TermsPlain(terms', pending', signs)
      <4>1. DOMAIN terms' = Scopes /\ \A s \in Scopes : PlainGlossary(terms'[s], signs)
        BY <2>0, <3>1, <3>3, <3>4 DEF TermsPlain
      <4>2. DOMAIN pending' = Requests /\ \A q \in Requests : pending'[q] # <<>> => PlainSave(pending'[q][1], signs)
        BY <2>0, <3>1 DEF TermsPlain
      <4> QED BY <4>1, <4>2 DEF TermsPlain
    <3> QED BY <2>3, <3>1, <3>5
  <2>6. ASSUME NEW s \in Scopes, NEW k \in Sources, DeleteTerm(s, k)
        PROVE  TermsPlain(terms', pending', signs) /\ JobKeeps(job', signs)
    <3> DEFINE f == [j \in DOMAIN terms[s] \ {k} |-> terms[s][j]]
    <3>1. terms' = [terms EXCEPT ![s] = f] /\ job' = Unsettled(job, s, k) /\ pending' = pending
      <4>1. terms' = [terms EXCEPT ![s] = [j \in DOMAIN @ \ {k} |-> @[j]]] /\ job' = Unsettled(job, s, k) /\ pending' = pending
        BY <2>6 DEF DeleteTerm
      <4>2. DOMAIN terms = Scopes
        BY <2>0 DEF TermsPlain
      <4> QED BY <4>1, <4>2
    <3>2. PlainGlossary(f, signs)
      <4>1. PlainGlossary(terms[s], signs)
        BY <2>0 DEF TermsPlain
      <4> QED BY <4>1 DEF PlainGlossary
    <3> HIDE DEF f
    <3>3. TermsPlain(terms', pending', signs)
      <4>1. DOMAIN terms' = Scopes /\ \A q \in Scopes : PlainGlossary(terms'[q], signs)
        BY <2>0, <3>1, <3>2 DEF TermsPlain
      <4> QED BY <2>0, <3>1, <4>1 DEF TermsPlain
    <3> QED BY <2>3, <3>1, <3>3
  <2>7. CASE ReadGlobal
    <3> DEFINE d == Over(terms["global"], Seed)
    <3>1. /\ job' = [at |-> "reading", merged |-> d, begun |-> terms, steady |-> Scopes \X Sources]
          /\ UNCHANGED <<terms, pending>>
      BY <2>7 DEF ReadGlobal
    <3>2. PlainGlossary(terms["global"], signs) /\ PlainGlossary(Seed, signs)
      BY <2>0 DEF TermsPlain, Written, Scopes
    <3>3. PlainGlossary(d, signs)
      BY <3>2, PlainOver
    <3> HIDE DEF d
    <3>4. JobKeeps(job', signs)
      BY <3>1, <3>3 DEF JobKeeps
    <3> QED BY <2>1, <3>1, <3>4
  <2>8. CASE ReadPersonal
    <3> DEFINE d == Over(terms["user"], job.merged)
    <3>1. /\ job.at = "reading" /\ UNCHANGED <<terms, pending>>
          /\ job' = [at |-> "queued", glossary |-> d, begun |-> job.begun, steady |-> job.steady]
      BY <2>8 DEF ReadPersonal, Layered
    <3>2. PlainGlossary(terms["user"], signs) /\ PlainGlossary(job.merged, signs)
      BY <2>0, <3>1 DEF TermsPlain, JobKeeps, Scopes
    <3>3. PlainGlossary(d, signs)
      BY <3>2, PlainOver
    <3> HIDE DEF d
    <3>4. JobKeeps(job', signs)
      BY <3>1, <3>3 DEF JobKeeps
    <3> QED BY <2>1, <3>1, <3>4
  <2>9. CASE FallBack
    <3>1. /\ job' = [at |-> "queued", glossary |-> Seed, begun |-> job.begun, steady |-> {}]
          /\ UNCHANGED <<terms, pending>>
      BY <2>9 DEF FallBack
    <3>2. JobKeeps(job', signs)
      BY <3>1 DEF JobKeeps, Written
    <3> QED BY <2>1, <3>1, <3>2
  <2>10. CASE Transcribe
    <3>1. job.at = "queued" /\ UNCHANGED <<terms, pending>>
      BY <2>10 DEF Transcribe
    <3>2. PICK words \in RawLines :
             job' = [at |-> "corrected", glossary |-> job.glossary, words |-> words,
                     text |-> Glossed(words, job.glossary).text,
                     applied |-> Glossed(words, job.glossary).applied]
      BY <2>10 DEF Transcribe
    <3>3. Line(words, signs) /\ PlainGlossary(job.glossary, signs)
      <4>1. words \in Seq(Seq(signs))
        BY DEF Written
      <4> QED BY <2>0, <3>1, <4>1, LinesAre DEF JobKeeps
    <3>4. JobKeeps(job', signs)
      BY <3>2, <3>3 DEF JobKeeps
    <3> QED BY <2>1, <3>1, <3>4
  <2>11. CASE Clean
    <3>1. job.at = "corrected" /\ UNCHANGED <<terms, pending>>
      BY <2>11 DEF Clean
    <3>2. \E passthrough, a :
             job' = [at |-> "done", glossary |-> job.glossary, words |-> job.words, text |-> job.text,
                     line |-> RepairOrDegrade(job.text, a, job.applied, ~passthrough)]
      BY <2>11, Zenon DEF Clean
    <3>3. PICK edit, a :
             job' = [at |-> "done", glossary |-> job.glossary, words |-> job.words, text |-> job.text,
                     line |-> RepairOrDegrade(job.text, a, job.applied, edit)]
      BY <3>2, Zenon
    <3> DEFINE d == job.glossary
               words == job.words
               g == Glossed(words, d)
               line == RepairOrDegrade(g.text, a, g.applied, edit)
    <3>4. PlainGlossary(d, signs) /\ Line(words, signs) /\ job.text = g.text /\ job.applied = g.applied
      BY <2>0, <3>1 DEF JobKeeps
    <3>5. Survives(words, d, line.text)
      <4>1. \A i \in 1..Len(words) :
               words[i] \in DOMAIN d /\ Occurs(g.text, d[words[i]]) /\ d[words[i]] \in g.applied =>
                  d[words[i]] \in g.applied
        OBVIOUS
      <4>2. Alphabet(signs)
        BY DEF Written
      <4> HIDE DEF d, words
      <4> QED BY <3>4, <4>1, <4>2, GateKeeps
    <3>6. job' = [at |-> "done", glossary |-> d, words |-> words, text |-> g.text, line |-> line]
      BY <3>3, <3>4
    <3> HIDE DEF d, words, line
    <3>7. JobKeeps(job', signs)
      BY <3>4, <3>5, <3>6 DEF JobKeeps
    <3> QED BY <2>1, <3>1, <3>7
  <2>12. CASE WordNext
    BY <2>4, <2>5, <2>6, <2>7, <2>8, <2>9, <2>10, <2>11, <2>12 DEF WordNext
  <2>13. CASE UNCHANGED wordVars
    BY <2>1, <2>2, <2>13 DEF wordVars
  <2> QED BY <2>12, <2>13 DEF WordingNext
<1> QED BY <1>1, <1>2, PTL DEF WordingSpec

\* The lines of a result keep what the words of their line have to.
LinesKeep(rec, lines) == \A i \in DOMAIN lines : i \in DOMAIN rec /\ Survives(rec[i], Seed, lines[i].text)

\* Every original of a work-order is what was written for the line.
OrderKeeps(rec, ord) ==
  ord # Nil =>
     /\ DOMAIN ord = DOMAIN rec
     /\ \A i \in DOMAIN rec :
           ord[i] = [original |-> ord[i].original, slot |-> ord[i].slot]
           /\ ord[i].original = Glossed(rec[i], Seed).text

\* So does what a cleaning command is writing.
TaskKeeps(rec, t) == t # Nil /\ t.kind = "clean" => LinesKeep(rec, t.result)

\* Of the command line's part: what it has written, and what it is to write.
PublishedInv ==
  /\ recording \in Recordings
  /\ OrderKeeps(recording, order)
  /\ TaskKeeps(recording, task)
  /\ LinesKeep(recording, found.clean)

\* A recording of the setting is of lines of the alphabet.
LEMMA RecordingIs ==
  ASSUME NEW signs, Written(signs), NEW rec \in Recordings
  PROVE  \A i \in DOMAIN rec : Line(rec[i], signs)
<1> TAKE i \in DOMAIN rec
<1>1. rec \in Seq(Seq(Seq(signs)))
  BY DEF Written
<1>2. rec[i] \in Seq(Seq(signs))
  BY <1>1
<1> QED BY <1>2, LinesAre

\* What the command line has written keeps what its words have to, whatever
\* the agent fills in and wherever a command stops.
LEMMA PublishedHold ==
  ASSUME NEW signs, Written(signs)
  PROVE  WordingSpec => []PublishedInv
<1>1. HandInit => PublishedInv
  <2> SUFFICES ASSUME HandInit
               PROVE  PublishedInv
    OBVIOUS
  <2>1. /\ recording \in Recordings /\ order = Nil /\ task = Nil
        /\ found = [g \in DOMAIN Outputs |-> <<>>]
    BY DEF HandInit
  <2>2. found.clean = <<>>
    BY <2>1, OutputNames
  <2>3. LinesKeep(recording, found.clean)
    BY <2>2 DEF LinesKeep
  <2> QED BY <2>1, <2>3 DEF PublishedInv, OrderKeeps, TaskKeeps
<1>2. MarksInv /\ PublishedInv /\ [WordingNext]_<<wordVars, hand>> => PublishedInv'
  <2> SUFFICES ASSUME MarksInv, PublishedInv, [WordingNext]_<<wordVars, hand>>
               PROVE  PublishedInv'
    OBVIOUS
  <2>0. /\ recording \in Recordings /\ OrderKeeps(recording, order)
        /\ TaskKeeps(recording, task) /\ LinesKeep(recording, found.clean)
    BY DEF PublishedInv
  <2>a. /\ Alphabet(signs) /\ PlainGlossary(Seed, signs)
        /\ \A i \in DOMAIN recording : Line(recording[i], signs)
    BY <2>0, RecordingIs DEF Written
  <2>1. ASSUME UNCHANGED <<recording, order, task, found>>
        PROVE  PublishedInv'
    BY <2>0, <2>1 DEF PublishedInv
  <2>2. ASSUME UNCHANGED <<recording, order, found>>, task' = Nil
        PROVE  PublishedInv'
    BY <2>0, <2>2 DEF PublishedInv, TaskKeeps
  <2>3. ASSUME UNCHANGED <<recording, order, found>>, NEW k, NEW r, NEW o, Writing(k, r, o),
               k = "clean" => LinesKeep(recording, r)
        PROVE  PublishedInv'
    <3>1. task' = [kind |-> k, next |-> 1, by |-> count + 1, result |-> r, overwrite |-> o]
      BY <2>3 DEF Writing
    <3>2. task'.kind = k /\ task'.result = r
      BY <3>1
    <3>3. TaskKeeps(recording, task')
      BY <2>3, <3>2 DEF TaskKeeps
    <3> QED BY <2>0, <2>3, <3>3 DEF PublishedInv
  <2>4. ASSUME UNCHANGED <<recording, task, found>>, OrderKeeps(recording, order')
        PROVE  PublishedInv'
    BY <2>0, <2>4 DEF PublishedInv
  <2>5. CASE Emit
    <3>1. /\ order' = [i \in DOMAIN recording |-> [original |-> Glossed(recording[i], Seed).text, slot |-> Nil]]
          /\ UNCHANGED <<recording, task, found>>
      BY <2>5 DEF Emit
    <3>2. OrderKeeps(recording, order')
      BY <3>1 DEF OrderKeeps
    <3> QED BY <2>4, <3>1, <3>2
  <2>6. ASSUME order # Nil, NEW i \in DOMAIN order, NEW a, Fill(i, a)
        PROVE  PublishedInv'
    <3>1. order' = [order EXCEPT ![i].slot = a] /\ UNCHANGED <<recording, task, found>>
      BY <2>6 DEF Fill
    <3>2. /\ DOMAIN order = DOMAIN recording
          /\ \A j \in DOMAIN recording :
                order[j] = [original |-> order[j].original, slot |-> order[j].slot]
                /\ order[j].original = Glossed(recording[j], Seed).text
      BY <2>0, <2>6 DEF OrderKeeps
    <3>3. /\ DOMAIN order' = DOMAIN recording
          /\ \A j \in DOMAIN recording : j # i => order'[j] = order[j]
          /\ order'[i] = [original |-> order[i].original, slot |-> a]
      <4> HIDE DEF Fill
      <4>1. DOMAIN order' = DOMAIN recording
            /\ \A j \in DOMAIN recording : j # i => order'[j] = order[j]
        BY <3>1, <3>2
      <4>2. order'[i] = [order[i] EXCEPT !.slot = a]
        BY <2>6, <3>1
      <4>3. order[i] = [original |-> order[i].original, slot |-> order[i].slot]
        BY <2>6, <3>2
      <4>4. order'[i] = [original |-> order[i].original, slot |-> a]
        BY <4>2, <4>3
      <4> QED BY <4>1, <4>4
    <3>4. OrderKeeps(recording, order')
      BY <3>2, <3>3, <2>6 DEF OrderKeeps
    <3> QED BY <2>4, <3>1, <3>4
  <2>7. ASSUME NEW e, NEW o, Collect(e, o)
        PROVE  PublishedInv'
    <3> DEFINE r == [i \in DOMAIN order |-> Collected(order[i], e)]
    <3>1. order # Nil /\ Writing("clean", r, o) /\ UNCHANGED <<recording, order, found>>
      BY <2>7 DEF Collect
    <3>2. LinesKeep(recording, r)
      <4>1. ASSUME NEW i \in DOMAIN order
            PROVE  i \in DOMAIN recording /\ Survives(recording[i], Seed, Collected(order[i], e).text)
        <5>1. i \in DOMAIN recording /\ order[i].original = Glossed(recording[i], Seed).text
          BY <2>0, <3>1 DEF OrderKeeps
        <5> QED BY <2>a, <5>1, CollectedKeeps
      <4> QED BY <4>1 DEF LinesKeep
    <3> HIDE DEF r
    <3> QED BY <2>3, <3>1, <3>2
  <2>8. ASSUME NEW p, NEW o, AutoClean(p, o)
        PROVE  PublishedInv'
    <3> DEFINE glossed == [i \in DOMAIN recording |-> Glossed(recording[i], Seed)]
               same(i) == [text |-> glossed[i].text, overEdited |-> FALSE]
               r(i, a) == [j \in DOMAIN recording |->
                             RepairOrDegrade(glossed[j].text, IF j = i THEN a ELSE same(j),
                                             glossed[j].applied, ~p)]
    <3>1. UNCHANGED <<recording, order, found>> /\ \E i, a : Writing("clean", r(i, a), o)
      BY <2>8, Zenon DEF AutoClean
    <3>2. PICK i, a : Writing("clean", r(i, a), o)
      BY <3>1, Zenon
    <3>3. LinesKeep(recording, r(i, a))
      <4>1. ASSUME NEW j \in DOMAIN recording, NEW answer
            PROVE  Survives(recording[j], Seed,
                            RepairOrDegrade(glossed[j].text, answer, glossed[j].applied, ~p).text)
        <5> DEFINE words == recording[j]
                   g == Glossed(words, Seed)
        <5>1. glossed[j] = g
          OBVIOUS
        <5>2. \A n \in 1..Len(words) :
                 words[n] \in DOMAIN Seed /\ Occurs(g.text, Seed[words[n]])
                   /\ Seed[words[n]] \in g.applied => Seed[words[n]] \in g.applied
          OBVIOUS
        <5>3. Line(words, signs)
          BY <2>a
        <5>4. Survives(words, Seed, RepairOrDegrade(g.text, answer, g.applied, ~p).text)
          <6> HIDE DEF words
          <6> QED BY <2>a, <5>2, <5>3, GateKeeps
        <5> HIDE DEF glossed, g, words
        <5>5. Survives(words, Seed, RepairOrDegrade(glossed[j].text, answer, glossed[j].applied, ~p).text)
          BY <5>1, <5>4
        <5> QED BY <5>5 DEF words
      <4> QED BY <4>1 DEF LinesKeep
    <3> HIDE DEF r
    <3> QED BY <2>3, <3>1, <3>2, <3>3
  <2>9. ASSUME NEW o, ExtractCollect(o)
        PROVE  PublishedInv'
    <3>1. /\ \E r : Writing("extract", r, o)
          /\ UNCHANGED <<recording, order, found>>
      BY <2>9, Zenon DEF ExtractCollect
    <3>2. "extract" # "clean"
      OBVIOUS
    <3> QED BY <2>3, <3>1, <3>2
  <2>10. CASE Write
    <3>1. /\ task # Nil /\ UNCHANGED <<recording, order>>
          /\ found' = IF task.next = 1 THEN [found EXCEPT ![task.kind] = task.result] ELSE found
          /\ task' = Nil \/ task' = [task EXCEPT !.next = @ + 1]
      BY <2>10 DEF Write
    <3>2. LinesKeep(recording, found'.clean)
      <4>1. "clean" \in DOMAIN found
        BY OutputNames DEF MarksInv
      <4>2. CASE task.kind = "clean" /\ task.next = 1
        <5>1. found'.clean = task.result
          BY <3>1, <4>1, <4>2
        <5> QED BY <2>0, <3>1, <4>2, <5>1 DEF TaskKeeps
      <4>3. CASE ~(task.kind = "clean" /\ task.next = 1)
        <5>1. found'.clean = found.clean
          BY <3>1, <4>1, <4>3
        <5> QED BY <2>0, <5>1
      <4> QED BY <4>2, <4>3
    <3>3. TaskKeeps(recording, task')
      <4>1. CASE task' = Nil
        BY <4>1 DEF TaskKeeps
      <4>2. CASE task' = [task EXCEPT !.next = @ + 1]
        <5>1. task' = [kind |-> task.kind, next |-> task.next + 1, by |-> task.by,
                       result |-> task.result, overwrite |-> task.overwrite]
          BY <3>1, <4>2 DEF MarksInv
        <5>2. task'.kind = task.kind /\ task'.result = task.result
          BY <5>1
        <5> QED BY <2>0, <3>1, <5>2 DEF TaskKeeps
      <4> QED BY <3>1, <4>1, <4>2
    <3> QED BY <2>0, <3>1, <3>2, <3>3 DEF PublishedInv
  <2>11. CASE HandNext
    <3>1. ASSUME order # Nil, \E i \in DOMAIN order : \E a \in Answers(order[i].original) : Fill(i, a)
          PROVE  PublishedInv'
      BY <2>6, <3>1
    <3>2. CASE ExtractEmit
      BY <2>1, <3>2 DEF ExtractEmit
    <3>3. ASSUME NEW item, ExtractFill(item)
          PROVE  PublishedInv'
      BY <2>1, <3>3 DEF ExtractFill
    <3>4. CASE Skipped \/ Interrupted
      BY <2>2, <3>4 DEF Skipped, Interrupted
    <3> QED BY <2>5, <2>7, <2>8, <2>9, <2>10, <2>11, <3>1, <3>2, <3>3, <3>4, Zenon DEF HandNext
  <2>12. CASE WordNext /\ UNCHANGED hand
    BY <2>1, <2>12 DEF hand
  <2>13. CASE UNCHANGED <<wordVars, hand>>
    BY <2>1, <2>13 DEF hand
  <2> QED BY <2>11, <2>12, <2>13 DEF WordingNext
<1> QED BY <1>1, <1>2, MarksHold, PTL DEF WordingSpec

\* A job's text has its entries written as their targets.
LEMMA EntriesAreWritten ==
  ASSUME NEW signs, Written(signs), JobKeeps(job, signs)
  PROVE  EntriesWin /\ ContentSurvives
<1>1. ContentSurvives
  BY DEF ContentSurvives, JobKeeps
<1>2. ASSUME job.at \in {"corrected", "done"}
      PROVE  job.text = Homophone(Spaced(Replaced(job.words, job.glossary)))
  <2>1. /\ Line(job.words, signs) /\ PlainGlossary(job.glossary, signs)
        /\ job.text = Glossed(job.words, job.glossary).text
    BY <1>2 DEF JobKeeps
  <2>2. Alphabet(signs)
    BY DEF Written
  <2> QED BY <2>1, <2>2, GlossedIs
<1> QED BY <1>1, <1>2 DEF EntriesWin, Replaced

\* A word that is an entry is written as its target, and every published
\* line has the numbers that were heard and the targets of the glossary,
\* whatever is answered and whichever slots are left.
THEOREM LinesAlwaysSurvive ==
  ASSUME NEW signs, Written(signs)
  PROVE  WordingSpec => []LinesSurvive
<1>1. WordsInv(signs) /\ PublishedInv => LinesSurvive
  BY EntriesAreWritten DEF WordsInv, PublishedInv, LinesKeep, LinesSurvive
<1>2. WordingSpec => []WordsInv(signs)
  BY WordsHold
<1>3. WordingSpec => []PublishedInv
  BY PublishedHold
<1> QED BY <1>1, <1>2, <1>3, PTL
=============================================================================
