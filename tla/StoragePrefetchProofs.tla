------------------------ MODULE StoragePrefetchProofs ------------------------
(***************************************************************************)
(* StorageInv outlives every step of the storage threads, and the          *)
(* scheduler's steps that issue a prefetch or queue a backup.              *)
(***************************************************************************)
EXTENDS StorageInvariant, TLAPS

(* Numbers, sets and sequences *)

\* The facts one by one.
LEMMA Induction ==
  ASSUME SetFacts, NEW S \in SUBSET Nat, 0 \in S, \A n \in S : n + 1 \in S
  PROVE  S = Nat
  BY Zenon DEF SetFacts, InductionFact

\* A finite set is counted by a number, and can be listed.
LEMMA CardinalityIs ==
  ASSUME SetFacts, NEW S, IsFiniteSet(S)
  PROVE  Cardinality(S) \in Nat /\ Bijection(1..Cardinality(S), S) # {}
  BY Zenon DEF SetFacts, CardinalityFact

\* A subset of a finite set, and the rest.
LEMMA SubsetIs ==
  ASSUME SetFacts, NEW S, IsFiniteSet(S), NEW T \in SUBSET S
  PROVE  /\ IsFiniteSet(T) /\ Cardinality(T) \in Nat
         /\ Cardinality(S \ T) = Cardinality(S) - Cardinality(T)
<1>1. IsFiniteSet(T)
  BY Zenon DEF SetFacts, SubsetFact
<1>2. Cardinality(S \ T) = Cardinality(S) - Cardinality(T)
  BY Zenon DEF SetFacts, DifferenceFact
<1> QED
  BY <1>1, <1>2, CardinalityIs, Zenon

\* One element more.
LEMMA ElementIs ==
  ASSUME SetFacts, NEW S, IsFiniteSet(S), NEW x, x \notin S
  PROVE  Cardinality(S \cup {x}) = Cardinality(S) + 1
  BY Zenon DEF SetFacts, ElementFact

\* No element, and one.
LEMMA FewAre ==
  ASSUME SetFacts
  PROVE  /\ IsFiniteSet({}) /\ Cardinality({}) = 0
         /\ \A x : IsFiniteSet({x}) /\ Cardinality({x}) = 1
  BY Zenon DEF SetFacts, EmptyFact, SingleFact

\* The numbers up to n.
LEMMA IntervalIs ==
  ASSUME SetFacts, NEW n \in Nat
  PROVE  IsFiniteSet(1..n) /\ Cardinality(1..n) = n
  BY Zenon DEF SetFacts, IntervalFact

\* Only the empty sequence has length 0.
LEMMA EmptySeq ==
  ASSUME NEW S
  PROVE  \A seq \in Seq(S) : seq # <<>> => Len(seq) \in Nat \ {0}
  OBVIOUS

\* The elements of a part of a sequence.
LEMMA SubSeqProperties ==
  ASSUME NEW S, NEW s \in Seq(S), NEW m \in Nat \ {0}, NEW n \in Nat, n <= Len(s)
  PROVE  /\ SubSeq(s, m, n) \in Seq(S) /\ Len(SubSeq(s, m, n)) = IF m <= n THEN n - m + 1 ELSE 0
         /\ \A i \in 1..(n - m + 1) : SubSeq(s, m, n)[i] = s[m + i - 1]
  OBVIOUS

\* One more element at the end.
LEMMA AppendIs ==
  ASSUME NEW S, NEW s \in Seq(S), NEW e \in S
  PROVE  /\ Append(s, e) \in Seq(S) /\ Range(Append(s, e)) = Range(s) \cup {e}
         /\ IsInjective(s) /\ e \notin Range(s) => IsInjective(Append(s, e))
<1> DEFINE t == Append(s, e)
<1>1. /\ t \in Seq(S) /\ Len(t) = Len(s) + 1 /\ DOMAIN s = 1..Len(s) /\ DOMAIN t = 1..(Len(s) + 1)
      /\ \A i \in 1..Len(s) : t[i] = s[i]
      /\ t[Len(s) + 1] = e /\ Len(s) \in Nat
  OBVIOUS
<1> HIDE DEF t
<1>2. Range(t) = Range(s) \cup {e}
  <2>1. ASSUME NEW x \in Range(t) PROVE x \in Range(s) \cup {e}
    BY <1>1, <2>1 DEF Range
  <2>2. ASSUME NEW x \in Range(s) PROVE x \in Range(t)
    BY <1>1, <2>2 DEF Range
  <2>3. e \in Range(t)
    BY <1>1 DEF Range
  <2> QED
    BY <2>1, <2>2, <2>3, Zenon
<1>3. ASSUME IsInjective(s), e \notin Range(s) PROVE IsInjective(t)
  <2>1. \A i \in 1..Len(s) : s[i] # e
    BY <1>1, <1>3, Zenon DEF Range
  <2> QED
    BY <1>1, <1>3, <2>1 DEF IsInjective
<1> QED
  BY <1>1, <1>2, <1>3, Zenon DEF t

\* The first element is taken off.
LEMMA TailIs ==
  ASSUME NEW S, NEW s \in Seq(S), s # <<>>
  PROVE  /\ Tail(s) \in Seq(S) /\ Head(s) \in S
         /\ Range(s) = Range(Tail(s)) \cup {Head(s)}
         /\ IsInjective(s) => IsInjective(Tail(s)) /\ Head(s) \notin Range(Tail(s))
<1> DEFINE t == Tail(s) h == Head(s)
<1>1. /\ t \in Seq(S) /\ Len(s) = Len(t) + 1 /\ DOMAIN t = 1..Len(t) /\ DOMAIN s = 1..(Len(t) + 1)
      /\ \A i \in 1..Len(t) : t[i] = s[i + 1]
      /\ h = s[1] /\ h \in S /\ Len(t) \in Nat
  OBVIOUS
<1> HIDE DEF t, h
<1>2. \A i \in 1..(Len(t) + 1) : i = 1 \/ (i - 1 \in 1..Len(t) /\ s[i] = t[i - 1])
  BY <1>1
<1>3. \A i \in 1..Len(t) : i + 1 \in 1..(Len(t) + 1) /\ i + 1 # 1
  BY <1>1
<1>4. Range(s) = Range(t) \cup {h}
  <2>1. ASSUME NEW x \in Range(s) PROVE x \in Range(t) \cup {h}
    <3>1. PICK i \in 1..(Len(t) + 1) : x = s[i]
      BY <1>1, <2>1, Zenon DEF Range
    <3>2. CASE i = 1
      BY <1>1, <3>1, <3>2, Zenon
    <3>3. CASE i - 1 \in 1..Len(t) /\ s[i] = t[i - 1]
      BY <1>1, <3>1, <3>3, Zenon DEF Range
    <3> QED
      BY <1>2, <3>2, <3>3, Zenon
  <2>2. ASSUME NEW x \in Range(t) PROVE x \in Range(s)
    BY <1>1, <1>3, <2>2, Zenon DEF Range
  <2>3. h \in Range(s)
    BY <1>1 DEF Range
  <2> QED
    BY <2>1, <2>2, <2>3, Zenon
<1>5. ASSUME IsInjective(s) PROVE IsInjective(t) /\ h \notin Range(t)
  <2>1. \A i, j \in 1..(Len(t) + 1) : s[i] = s[j] => i = j
    BY <1>1, <1>5, Zenon DEF IsInjective
  <2>2. \A i, j \in 1..Len(t) : t[i] = t[j] => i = j
    BY <1>1, <1>3, <2>1
  <2>3. \A i \in 1..Len(t) : t[i] # h
    BY <1>1, <1>3, <2>1
  <2> QED
    BY <1>1, <2>2, <2>3, Zenon DEF IsInjective, Range
<1> QED
  BY <1>1, <1>4, <1>5, Zenon DEF t, h
\* A set of numbers that has with each the smaller ones is an interval.
LEMMA DownClosed ==
  ASSUME SetFacts, NEW L \in Nat, NEW D \in SUBSET (1..L),
         \A n \in D : \A m \in 1..n : m \in D
  PROVE  Cardinality(D) \in 0..L /\ D = 1..Cardinality(D)
<1> DEFINE S == {n \in Nat : \E m \in 0..n : D \cap (1..n) = 1..m}
<1>1. 0 \in S
  <2>1. D \cap (1..0) = 1..0 /\ 0 \in 0..0
    OBVIOUS
  <2> QED
    BY <2>1, Zenon
<1>2. ASSUME NEW n \in S PROVE n + 1 \in S
  <2>1. n \in Nat /\ n + 1 \in Nat
    OBVIOUS
  <2>2. PICK m \in 0..n : D \cap (1..n) = 1..m
    BY Zenon
  <2>3. CASE n + 1 \in D
    <3>1. \A k \in 1..(n + 1) : k \in D
      BY <2>3, Zenon
    <3>2. D \cap (1..(n + 1)) = 1..(n + 1) /\ n + 1 \in 0..(n + 1)
      BY <2>1, <3>1
    <3> QED
      BY <2>1, <3>2, Zenon
  <2>4. CASE n + 1 \notin D
    <3>1. \A k \in 1..(n + 1) : k # n + 1 => k \in 1..n
      BY <2>1
    <3>2. 1..n \subseteq 1..(n + 1) /\ m \in 0..(n + 1)
      BY <2>1
    <3>3. D \cap (1..(n + 1)) = 1..m
      BY <2>2, <2>4, <3>1, <3>2, Zenon
    <3> QED
      BY <2>1, <3>2, <3>3, Zenon
  <2> QED
    BY <2>3, <2>4, Zenon
<1>3. S = Nat
  <2>1. S \in SUBSET Nat
    BY Zenon
  <2> HIDE DEF S
  <2> QED
    BY <1>1, <1>2, <2>1, Induction, Zenon
<1>4. PICK m \in 0..L : D \cap (1..L) = 1..m
  BY <1>3, Zenon
<1>5. D = 1..m
  BY <1>4, Zenon
<1>6. Cardinality(1..m) = m
  BY IntervalIs
<1> QED
  BY <1>5, <1>6, Zenon

\* A part of a sequence.
LEMMA PartIs ==
  ASSUME NEW S, NEW s \in Seq(S), NEW a \in Nat \ {0}, NEW b \in Nat, b <= Len(s)
  PROVE  /\ SubSeq(s, a, b) \in Seq(S)
         /\ Range(SubSeq(s, a, b)) = {s[n] : n \in a..b}
         /\ Len(SubSeq(s, a, b)) = IF a <= b THEN b - a + 1 ELSE 0
         /\ IsInjective(s) => IsInjective(SubSeq(s, a, b))
<1> DEFINE t == SubSeq(s, a, b)
<1>1. \A i \in a..b : s[i] \in S /\ i \in DOMAIN s
  OBVIOUS
<1>2. /\ t \in Seq(S) /\ Len(t) = (IF a <= b THEN b - a + 1 ELSE 0)
      /\ \A i \in 1..(b - a + 1) : t[i] = s[a + i - 1]
  BY <1>1, SubSeqProperties
<1>3. DOMAIN t = 1..(b - a + 1)
  <2>1. 1..Len(t) = 1..(b - a + 1)
    BY <1>2
  <2> HIDE DEF t
  <2> QED
    BY <1>2, <2>1
<1> HIDE DEF t
<1>4. Range(t) = {s[n] : n \in a..b}
  <2>1. ASSUME NEW x \in Range(t) PROVE x \in {s[n] : n \in a..b}
    <3>1. PICK i \in 1..(b - a + 1) : x = t[i]
      BY <1>3, <2>1, Zenon DEF Range
    <3>2. a + i - 1 \in a..b /\ x = s[a + i - 1]
      BY <1>2, <3>1
    <3> QED
      BY <3>2, Zenon
  <2>2. ASSUME NEW n \in a..b PROVE s[n] \in Range(t)
    <3>1. n - a + 1 \in 1..(b - a + 1) /\ a + (n - a + 1) - 1 = n
      OBVIOUS
    <3>2. t[n - a + 1] = s[n]
      BY <1>2, <3>1, Zenon
    <3> QED
      BY <1>3, <3>1, <3>2, Zenon DEF Range
  <2> QED
    BY <2>1, <2>2, Zenon
<1>5. ASSUME IsInjective(s) PROVE IsInjective(t)
  <2>1. \A i, j \in DOMAIN s : s[i] = s[j] => i = j
    BY <1>5, Zenon DEF IsInjective
  <2>2. ASSUME NEW i \in 1..(b - a + 1), NEW j \in 1..(b - a + 1), t[i] = t[j] PROVE i = j
    <3>1. a + i - 1 \in DOMAIN s /\ a + j - 1 \in DOMAIN s
      OBVIOUS
    <3>2. a + i - 1 = a + j - 1
      BY <1>2, <2>1, <2>2, <3>1, Zenon
    <3> QED
      BY <3>2
  <2> QED
    BY <1>3, <2>2, Zenon DEF IsInjective
<1> QED
  BY <1>2, <1>4, <1>5, Zenon DEF t

\* Two sequences one after the other.
LEMMA JoinIs ==
  ASSUME NEW S, NEW s \in Seq(S), NEW t \in Seq(S)
  PROVE  /\ s \o t \in Seq(S) /\ Range(s \o t) = Range(s) \cup Range(t)
         /\ (IsInjective(s) /\ IsInjective(t) /\ Range(s) \cap Range(t) = {}) => IsInjective(s \o t)
<1> DEFINE u == s \o t
<1>1. /\ u \in Seq(S) /\ Len(u) = Len(s) + Len(t)
      /\ \A i \in 1..(Len(s) + Len(t)) : u[i] = IF i <= Len(s) THEN s[i] ELSE t[i - Len(s)]
  OBVIOUS
<1>2. /\ DOMAIN s = 1..Len(s) /\ DOMAIN t = 1..Len(t) /\ DOMAIN u = 1..(Len(s) + Len(t))
      /\ Len(s) \in Nat /\ Len(t) \in Nat
  BY <1>1
<1>3. Range(u) = Range(s) \cup Range(t)
  <2>1. ASSUME NEW x \in Range(u) PROVE x \in Range(s) \cup Range(t)
    <3>1. PICK i \in 1..(Len(s) + Len(t)) : x = u[i]
      BY <1>2, <2>1, Zenon DEF Range
    <3>2. (i <= Len(s) /\ i \in 1..Len(s)) \/ (~ (i <= Len(s)) /\ i - Len(s) \in 1..Len(t))
      BY <1>2
    <3> QED
      BY <1>1, <1>2, <3>1, <3>2, Zenon DEF Range
  <2>2. ASSUME NEW i \in 1..Len(s) PROVE s[i] \in Range(u)
    <3>1. i \in 1..(Len(s) + Len(t)) /\ u[i] = s[i]
      BY <1>1, <1>2
    <3> QED
      BY <1>2, <3>1, Zenon DEF Range
  <2>3. ASSUME NEW i \in 1..Len(t) PROVE t[i] \in Range(u)
    <3>1. i + Len(s) \in 1..(Len(s) + Len(t)) /\ u[i + Len(s)] = t[i]
      BY <1>1, <1>2
    <3> QED
      BY <1>2, <3>1, Zenon DEF Range
  <2> QED
    BY <1>2, <2>1, <2>2, <2>3, Zenon DEF Range
<1> HIDE DEF u
<1>4. ASSUME IsInjective(s), IsInjective(t), Range(s) \cap Range(t) = {} PROVE IsInjective(u)
  <2>1. \A i, j \in 1..Len(s) : s[i] = s[j] => i = j
    BY <1>2, <1>4, Zenon DEF IsInjective
  <2>2. \A i, j \in 1..Len(t) : t[i] = t[j] => i = j
    BY <1>2, <1>4, Zenon DEF IsInjective
  <2>3. \A i \in 1..Len(s), j \in 1..Len(t) : s[i] # t[j]
    BY <1>2, <1>4, Zenon DEF Range
  <2>4. ASSUME NEW i \in 1..(Len(s) + Len(t)), NEW j \in 1..(Len(s) + Len(t)), u[i] = u[j] PROVE i = j
    <3>1. CASE i <= Len(s) /\ j <= Len(s)
      BY <1>1, <1>2, <2>1, <2>4, <3>1
    <3>2. CASE i > Len(s) /\ j > Len(s)
      <4>1. i - Len(s) \in 1..Len(t) /\ j - Len(s) \in 1..Len(t) /\ t[i - Len(s)] = t[j - Len(s)]
        BY <1>1, <1>2, <2>4, <3>2
      <4>2. i - Len(s) = j - Len(s)
        BY <2>2, <4>1, Zenon
      <4> QED
        BY <1>2, <4>2
    <3>3. CASE i <= Len(s) /\ j > Len(s)
      <4>1. i \in 1..Len(s) /\ j - Len(s) \in 1..Len(t) /\ s[i] = t[j - Len(s)]
        BY <1>1, <1>2, <2>4, <3>3
      <4> QED
        BY <2>3, <4>1, Zenon
    <3>4. CASE i > Len(s) /\ j <= Len(s)
      <4>1. j \in 1..Len(s) /\ i - Len(s) \in 1..Len(t) /\ s[j] = t[i - Len(s)]
        BY <1>1, <1>2, <2>4, <3>4
      <4> QED
        BY <2>3, <4>1, Zenon
    <3> QED
      BY <1>2, <3>1, <3>2, <3>3, <3>4
  <2> QED
    BY <1>2, <2>4, Zenon DEF IsInjective
<1> QED
  BY <1>1, <1>3, <1>4, Zenon DEF u

\* A finite set, listed.
LEMMA ListingIs ==
  ASSUME SetFacts, NEW S, IsFiniteSet(S)
  PROVE  Listing(S) \in Seq(S) /\ IsInjective(Listing(S)) /\ Range(Listing(S)) = S
<1> DEFINE n == Cardinality(S) f == Listing(S)
<1>1. n \in Nat /\ Bijection(1..n, S) # {}
  BY CardinalityIs, Zenon
<1>2. f \in Bijection(1..n, S)
  BY <1>1, Zenon DEF Listing
<1> HIDE DEF n, f
<1>3. f \in [1..n -> S] /\ (\A i, j \in 1..n : f[i] = f[j] => i = j) /\ \A x \in S : \E i \in 1..n : f[i] = x
  BY <1>2, Zenon DEF Bijection, Injection, Surjection, IsInjective
<1>4. f \in Seq(S) /\ DOMAIN f = 1..n
  BY <1>1, <1>3
<1> QED
  BY <1>3, <1>4 DEF f, IsInjective, Range
-----------------------------------------------------------------------------
(* Paths *)

\* A request's key is a non-empty sequence of pages.
LEMMA KeyIs ==
  ASSUME NEW r \in Requests
  PROVE  Key[r] \in Seq(Range(Key[r])) /\ Len(Key[r]) \in Nat \ {0}
<1>1. Key[r] \in Seq(Range(Key[r])) /\ Key[r] # <<>>
  BY StorageAssumption, Zenon
<1> DEFINE S == Range(Key[r]) k == Key[r]
<1>2. k \in Seq(S) /\ k # <<>>
  BY <1>1, Zenon
<1> HIDE DEF S, k
<1>3. Len(k) \in Nat /\ Len(k) # 0
  BY <1>2, EmptySeq, Zenon
<1> QED
  BY <1>1, <1>3, Zenon DEF k

\* A path has the length it says, and its parts are paths.
LEMMA PrefixIs ==
  ASSUME NEW r \in Requests, NEW n \in 0..Len(Key[r])
  PROVE  /\ Len(Prefix(r, n)) = n /\ Prefix(r, n) \in Paths
         /\ n # 0 => Prefix(r, n) # <<>>
         /\ \A m \in 0..n : SubSeq(Prefix(r, n), 1, m) = Prefix(r, m)
<1> DEFINE S == Range(Key[r]) k == Key[r]
<1>1. k \in Seq(S) /\ Len(k) \in Nat
  BY KeyIs, Zenon
<1> HIDE DEF S, k
<1>2. ASSUME NEW m \in 0..Len(k)
      PROVE  /\ SubSeq(k, 1, m) \in Seq(S) /\ Len(SubSeq(k, 1, m)) = m
             /\ \A i \in 1..m : SubSeq(k, 1, m)[i] = k[i]
  <2>1. \A i \in 1..m : k[i] \in S
    BY <1>1
  <2>2. /\ SubSeq(k, 1, m) \in Seq(S) /\ Len(SubSeq(k, 1, m)) = (IF 1 <= m THEN m - 1 + 1 ELSE 0)
        /\ \A i \in 1..(m - 1 + 1) : SubSeq(k, 1, m)[i] = k[1 + i - 1]
    BY <2>1, <1>1, SubSeqProperties
  <2> QED
    BY <2>2, <1>1
<1>3. n \in 0..Len(k)
  BY Zenon DEF k
<1> DEFINE p == SubSeq(k, 1, n)
<1>4. p \in Seq(S) /\ Len(p) = n /\ \A i \in 1..n : p[i] = k[i]
  BY <1>2, <1>3, Zenon
<1>5. ASSUME NEW m \in 0..n PROVE SubSeq(p, 1, m) = SubSeq(k, 1, m)
  <2> HIDE DEF p
  <2>1. \A i \in 1..m : p[i] \in S
    BY <1>1, <1>3, <1>4
  <2>2. /\ SubSeq(p, 1, m) \in Seq(S) /\ Len(SubSeq(p, 1, m)) = (IF 1 <= m THEN m - 1 + 1 ELSE 0)
        /\ \A i \in 1..(m - 1 + 1) : SubSeq(p, 1, m)[i] = p[1 + i - 1]
    BY <2>1, <1>3, SubSeqProperties
  <2> DEFINE x == SubSeq(p, 1, m) y == SubSeq(k, 1, m)
  <2>3. x \in Seq(S) /\ Len(x) = m /\ \A i \in 1..m : x[i] = k[i]
    BY <2>2, <1>3, <1>4
  <2>4. y \in Seq(S) /\ Len(y) = m /\ \A i \in 1..m : y[i] = k[i]
    BY <1>2, <1>3
  <2> HIDE DEF x, y
  <2>5. x = y
    BY <2>3, <2>4
  <2> QED
    BY <2>5, Zenon DEF x, y
<1>6. n # 0 => p # <<>>
  BY <1>4, Zenon
<1>7. p \in Paths
  <2>1. CASE n = 0
    <3>1. p = <<>>
      BY <1>4, <2>1, EmptySeq, Zenon
    <3> QED
      BY <3>1, Zenon DEF Paths
  <2>2. CASE n # 0
    <3>1. n \in 1..Len(Key[r])
      BY <1>1, <2>2 DEF k
    <3>2. Prefix(r, n) \in Paths
      BY <3>1 DEF Paths
    <3> QED
      BY <3>2, Zenon DEF p, k, Prefix
  <2> QED
    BY <2>1, <2>2, Zenon
<1> HIDE DEF p
<1>8. p = Prefix(r, n) /\ \A m : SubSeq(k, 1, m) = Prefix(r, m)
  BY Zenon DEF p, k, Prefix
<1> QED
  BY <1>4, <1>5, <1>6, <1>7, <1>8, Zenon

\* A prefix of a prefix.
LEMMA PrefixPart ==
  ASSUME NEW r \in Requests, NEW n \in 0..Len(Key[r]), NEW m \in 0..n
  PROVE  IsPrefix(Prefix(r, m), Prefix(r, n))
<1>1. Len(Key[r]) \in Nat
  BY KeyIs, Zenon
<1>2. m \in 0..Len(Key[r])
  BY <1>1
<1>3. Len(Prefix(r, n)) = n /\ SubSeq(Prefix(r, n), 1, m) = Prefix(r, m)
  BY PrefixIs, Zenon
<1>4. Len(Prefix(r, m)) = m
  BY <1>2, PrefixIs, Zenon
<1>5. m <= n
  BY <1>1
<1> QED
  BY <1>3, <1>4, <1>5, Zenon DEF IsPrefix

\* Every path is some request's.
LEMMA PathIs ==
  ASSUME NEW p \in Paths
  PROVE  p = <<>> \/ \E r \in Requests : \E n \in 1..Len(Key[r]) : p = Prefix(r, n)
  BY Zenon DEF Paths

\* Equal paths have the same prefixes.
LEMMA SamePrefix ==
  ASSUME NEW r \in Requests, NEW n \in 0..Len(Key[r]), NEW s \in Requests, NEW k \in 0..Len(Key[s]),
         Prefix(r, n) = Prefix(s, k)
  PROVE  n = k /\ \A m \in 0..n : Prefix(r, m) = Prefix(s, m)
<1>1. Len(Prefix(r, n)) = n /\ \A m \in 0..n : SubSeq(Prefix(r, n), 1, m) = Prefix(r, m)
  BY PrefixIs, Zenon
<1>2. Len(Prefix(s, k)) = k /\ \A m \in 0..k : SubSeq(Prefix(s, k), 1, m) = Prefix(s, m)
  BY PrefixIs, Zenon
<1>3. n = k
  BY <1>1, <1>2, Zenon
<1>4. ASSUME NEW m \in 0..n PROVE Prefix(r, m) = Prefix(s, m)
  <2>1. SubSeq(Prefix(r, n), 1, m) = Prefix(r, m)
    BY <1>1, Zenon
  <2>2. SubSeq(Prefix(s, k), 1, m) = Prefix(s, m)
    BY <1>2, <1>3, Zenon
  <2> QED
    BY <2>1, <2>2, Zenon
<1> QED
  BY <1>3, <1>4, Zenon

\* What match_prefix finds in a closed tree.
LEMMA MatchedIs ==
  ASSUME SetFacts, NEW t, ClosedIn(t), NEW r \in Requests
  PROVE  /\ Matched(t, r) \in 0..Len(Key[r])
         /\ \A n \in 1..Len(Key[r]) : Prefix(r, n) \in DOMAIN t <=> n <= Matched(t, r)
<1> DEFINE D == {n \in 1..Len(Key[r]) : Prefix(r, n) \in DOMAIN t}
<1>1. Len(Key[r]) \in Nat
  BY KeyIs, Zenon
<1>2. D \in SUBSET (1..Len(Key[r]))
  BY Zenon
<1>3. \A n \in D : \A m \in 1..n : m \in 1..Len(Key[r])
  BY <1>1
<1>4. \A n \in D : \A m \in 1..n : Prefix(r, m) \in DOMAIN t
  BY Zenon DEF ClosedIn
<1>5. \A n \in D : \A m \in 1..n : m \in D
  BY <1>3, <1>4, Zenon
<1>6. Matched(t, r) = Cardinality(D)
  BY Zenon DEF Matched
<1>7. \A n \in 1..Len(Key[r]) : n \in D <=> Prefix(r, n) \in DOMAIN t
  BY Zenon
<1> HIDE DEF D
<1>8. Cardinality(D) \in 0..Len(Key[r]) /\ D = 1..Cardinality(D)
  BY <1>1, <1>2, <1>5, DownClosed, Zenon
<1>9. PICK c \in 0..Len(Key[r]) : c = Cardinality(D)
  BY <1>8, Zenon
<1>10. \A n \in 1..Len(Key[r]) : n \in D <=> n <= c
  BY <1>1, <1>8, <1>9
<1> QED
  BY <1>6, <1>7, <1>9, <1>10, Zenon

-----------------------------------------------------------------------------
(* Owners of pages *)

\* The pages of hand k and of the three other owners are dealt out again.
LEMMA DealtOut ==
  ASSUME NEW F, NEW R, NEW T, NEW H, Apart(F, R, T, H),
         NEW F2, NEW R2, NEW T2, NEW H2, NEW k \in DOMAIN H, DOMAIN H2 = DOMAIN H,
         \A i \in DOMAIN H : i # k => H2[i] \subseteq H[i],
         F2 \cup R2 \cup T2 \cup H2[k] \subseteq F \cup R \cup T \cup H[k],
         F2 \cap R2 = {}, F2 \cap T2 = {}, R2 \cap T2 = {}, H2[k] \cap (F2 \cup R2 \cup T2) = {}
  PROVE  Apart(F2, R2, T2, H2)
<1>1. \A i \in DOMAIN H : i # k => H[i] \cap (F \cup R \cup T \cup H[k]) = {}
  BY Zenon DEF Apart
<1>2. \A i \in DOMAIN H : i # k => H2[i] \cap (F2 \cup R2 \cup T2) = {} /\ H2[i] \cap H2[k] = {}
  BY <1>1, Zenon
<1>3. \A i, j \in DOMAIN H : i # k /\ j # k /\ i # j => H2[i] \cap H2[j] = {}
  <2>1. \A i, j \in DOMAIN H : i # j => H[i] \cap H[j] = {}
    BY Zenon DEF Apart
  <2> QED
    BY <2>1, Zenon
<1>4. \A i \in DOMAIN H2 : H2[i] \cap (F2 \cup R2 \cup T2) = {}
  BY <1>2, Zenon
<1>5. \A i, j \in DOMAIN H2 : i # j => H2[i] \cap H2[j] = {}
  BY <1>2, <1>3, Zenon
<1> QED
  BY <1>4, <1>5, Zenon DEF Apart

\* Pages of the pool go to a new hand.
LEMMA DealtNew ==
  ASSUME NEW F, NEW R, NEW T, NEW H, Apart(F, R, T, H),
         NEW F2, NEW H2, NEW k, k \notin DOMAIN H, DOMAIN H2 = DOMAIN H \cup {k},
         \A i \in DOMAIN H : H2[i] = H[i],
         F2 \cup H2[k] \subseteq F, F2 \cap H2[k] = {}
  PROVE  Apart(F2, R, T, H2)
<1>1. \A i \in DOMAIN H : H2[i] \cap (F \cup R \cup T) = {}
  BY Zenon DEF Apart
<1>2. H2[k] \cap (F2 \cup R \cup T) = {} /\ F2 \cap R = {} /\ F2 \cap T = {} /\ R \cap T = {}
  BY Zenon DEF Apart
<1>3. \A i \in DOMAIN H2 : H2[i] \cap (F2 \cup R \cup T) = {}
  BY <1>1, <1>2, Zenon
<1>4. \A i, j \in DOMAIN H : i # j => H2[i] \cap H2[j] = {}
  BY Zenon DEF Apart
<1>5. \A i, j \in DOMAIN H2 : i # j => H2[i] \cap H2[j] = {}
  BY <1>1, <1>4, Zenon
<1> QED
  BY <1>2, <1>3, <1>5, Zenon DEF Apart

\* No hand gets a page.
LEMMA DealtBack ==
  ASSUME NEW F, NEW R, NEW T, NEW H, Apart(F, R, T, H),
         NEW F2, NEW R2, NEW T2, NEW H2, DOMAIN H2 = DOMAIN H,
         \A i \in DOMAIN H : H2[i] \subseteq H[i],
         F2 \cup R2 \cup T2 \subseteq F \cup R \cup T,
         F2 \cap R2 = {}, F2 \cap T2 = {}, R2 \cap T2 = {}
  PROVE  Apart(F2, R2, T2, H2)
<1>1. \A i \in DOMAIN H : H[i] \cap (F \cup R \cup T) = {}
  BY Zenon DEF Apart
<1>2. \A i \in DOMAIN H2 : H2[i] \cap (F2 \cup R2 \cup T2) = {}
  BY <1>1, Zenon
<1>3. \A i, j \in DOMAIN H : i # j => H[i] \cap H[j] = {}
  BY Zenon DEF Apart
<1>4. \A i, j \in DOMAIN H2 : i # j => H2[i] \cap H2[j] = {}
  BY <1>3, Zenon
<1> QED
  BY <1>2, <1>4, Zenon DEF Apart
-----------------------------------------------------------------------------
(* What a step leaves alone *)

\* The entries of ongoing_prefetch outlive a step that touches none of them.
LEMMA EntriesStay ==
  ASSUME Entries, UNCHANGED <<where, ongoing>>, DOMAIN ops \subseteq DOMAIN ops',
         \A i \in DOMAIN ops : ops'[i].rid = ops[i].rid
  PROVE  Entries'
  BY Zenon DEF Entries

\* So do the stages when no operation, queue or page content changes.
LEMMA StagesStay ==
  ASSUME Stages, UNCHANGED <<ops, storage, prefetchQ, buffer, io, data>>
  PROVE  Stages'
  BY Zenon DEF Stages, OperationIsSound, QueueOf, IoIsSound

\* So does the ownership when every hand keeps its pages.
LEMMA OwnershipStays ==
  ASSUME Ownership, UNCHANGED <<free, releaseQ, tree, ongoing>>, DOMAIN ops' = DOMAIN ops,
         \A i \in DOMAIN ops : Hand(i)' = Hand(i)
  PROVE  Ownership'
<1>1. Hands' = Hands
  BY Zenon DEF Hands
<1> QED
  BY <1>1, Zenon DEF Ownership

\* A hand keeps its pages when its operation's counts stay.
LEMMA HandStays ==
  ASSUME NEW i, UNCHANGED ongoing, ops'[i].rid = ops[i].rid, ops'[i].pages = ops[i].pages,
         ops'[i].held = ops[i].held, ops'[i].completed = ops[i].completed
  PROVE  Hand(i)' = Hand(i)
  BY Zenon DEF Hand, Counted

\* The contents stay when pages, tree, backend and entries do.
LEMMA DataStays ==
  ASSUME DataInv, UNCHANGED <<tree, data, storage, ops, ongoing>>
  PROVE  DataInv'
  BY Zenon DEF DataInv, TreeHoldsItsData, StorageHoldsItsData, EntryData, PathAt

\* The host counts stay when anchors and backups do.
LEMMA HostStays ==
  ASSUME Entries, HostInv, UNCHANGED <<tree, hostRef, ongoing, backups, backupQ, ackQ>>,
         \A i \in DOMAIN ops : ops'[i].rid = ops[i].rid /\ ops'[i].base = ops[i].base
  PROVE  HostInv'
<1>1. \A r \in Requests : ongoing[r] # 0 => ongoing[r] \in DOMAIN ops
  BY Zenon DEF Entries
<1>2. \A r \in Requests : ongoing[r] # 0 =>
         AnchorOf(ops[ongoing[r]])' = AnchorOf(ops[ongoing[r]]) /\ ops'[ongoing[r]].base = ops[ongoing[r]].base
  BY <1>1, Zenon DEF AnchorOf
<1>3. ASSUME NEW p
      PROVE  {r \in Requests : ongoing[r] # 0 /\ AnchorOf(ops[ongoing[r]]) = p}'
               = {r \in Requests : ongoing[r] # 0 /\ AnchorOf(ops[ongoing[r]]) = p}
  BY <1>2, Zenon
<1>4. HostRefsAreExact'
  BY <1>3, Zenon DEF HostInv, HostRefsAreExact
<1>5. TreeInv'
  BY <1>2, Zenon DEF HostInv, TreeInv, ClosedIn, AnchorsIn, BackedIn
<1>6. BackupsAreOnce'
  BY Zenon DEF HostInv, BackupsAreOnce
<1> QED
  BY <1>4, <1>5, <1>6, Zenon DEF HostInv

\* The end of a scheduling pass touches nothing the invariant speaks of.
LEMMA EndPassStep ==
  ASSUME StorageInv, UNCHANGED <<where, hostVars, opVars, threadVars, backupVars>>
  PROVE  StorageInv'
<1> USE DEF StorageInv, hostVars, opVars, threadVars, backupVars
<1>1. Types'
  BY Zenon DEF Types
<1>2. Entries'
  BY EntriesStay, Zenon
<1>3. Stages'
  BY StagesStay, Zenon
<1>4. Ownership'
  BY Zenon DEF Ownership, Hands, Hand, Counted
<1>5. DataInv'
  BY DataStays, Zenon
<1>6. HostInv'
  BY HostStays, Zenon
<1> QED
  BY <1>1, <1>2, <1>3, <1>4, <1>5, <1>6, Zenon

-----------------------------------------------------------------------------
(* Operations *)

\* One element of a sequence is replaced.
LEMMA EditIs ==
  ASSUME NEW S, NEW s \in Seq(S), NEW i \in DOMAIN s, NEW e \in S
  PROVE  /\ [s EXCEPT ![i] = e] \in Seq(S) /\ DOMAIN [s EXCEPT ![i] = e] = DOMAIN s
         /\ [s EXCEPT ![i] = e][i] = e
         /\ \A j \in DOMAIN s : j # i => [s EXCEPT ![i] = e][j] = s[j]
  OBVIOUS

\* What the invariant says of one operation, unfolded.
LEMMA OpIs ==
  ASSUME Types, Stages, NEW i \in DOMAIN ops
  PROVE  /\ ops[i] \in Operation /\ ops[i].rid \in Requests
         /\ ops[i].base \in Nat /\ ops[i].len \in Nat /\ ops[i].hash \in Nat
         /\ ops[i].held \in Nat /\ ops[i].completed \in Nat
         /\ ops[i].pages \in Seq(Pages) /\ DOMAIN ops[i].pages = 1..Len(ops[i].pages)
         /\ Len(ops[i].pages) \in Nat /\ IsInjective(ops[i].pages)
         /\ ops[i].base + ops[i].len = Len(Key[ops[i].rid])
         /\ ops[i].completed <= ops[i].held /\ ops[i].held <= Len(ops[i].pages) /\ Len(ops[i].pages) <= ops[i].len
         /\ Counted(i) \in {0, ops[i].completed}
         /\ i \in Nat \ {0}
<1>1. ops[i] \in Operation /\ i \in Nat \ {0}
  BY DEF Types
<1>2. OperationIsSound(ops[i])
  BY Zenon DEF Stages
<1>3. ops[i].pages \in Seq(Pages)
  BY <1>1, Zenon DEF Operation
<1>4. Counted(i) \in {0, ops[i].completed}
  BY Zenon DEF Counted
<1> QED
  BY <1>1, <1>2, <1>3, <1>4 DEF Operation, OperationIsSound

\* A path of an operation is a path.
LEMMA PathAtIs ==
  ASSUME Types, Stages, NEW i \in DOMAIN ops, NEW n \in 0..ops[i].len
  PROVE  /\ PathAt(ops[i], n) = Prefix(ops[i].rid, ops[i].base + n)
         /\ ops[i].base + n \in 0..Len(Key[ops[i].rid])
         /\ PathAt(ops[i], n) \in Paths /\ Len(PathAt(ops[i], n)) = ops[i].base + n
<1> DEFINE r == ops[i].rid b == ops[i].base l == ops[i].len
<1>1. r \in Requests /\ b \in Nat /\ l \in Nat /\ b + l = Len(Key[r])
  BY OpIs, Zenon
<1>2. PathAt(ops[i], n) = Prefix(r, b + n) /\ n \in 0..l
  BY Zenon DEF PathAt
<1> HIDE DEF r, b, l
<1>3. b + n \in 0..Len(Key[r])
  BY <1>1, <1>2
<1>4. Prefix(r, b + n) \in Paths /\ Len(Prefix(r, b + n)) = b + n
  BY <1>1, <1>3, PrefixIs, Zenon
<1> QED
  BY <1>2, <1>3, <1>4, Zenon DEF r, b

\* An operation's page is in its hand until it is counted.
LEMMA HandHas ==
  ASSUME Types, Stages, NEW i \in DOMAIN ops, NEW n \in (ops[i].completed + 1)..ops[i].held
  PROVE  ops[i].pages[n] \in Hand(i) /\ ops[i].pages[n] \in Pages /\ n \in DOMAIN ops[i].pages
<1>1. ops[i].completed \in Nat /\ ops[i].held \in Nat /\ ops[i].held <= Len(ops[i].pages)
      /\ Len(ops[i].pages) \in Nat
  BY OpIs, Zenon
<1>2. Counted(i) \in {0, ops[i].completed}
  BY OpIs, Zenon
<1>3. n \in (Counted(i) + 1)..ops[i].held /\ n \in 1..Len(ops[i].pages)
  BY <1>1, <1>2
<1>4. ops[i].pages \in Seq(Pages)
  BY OpIs, Zenon
<1> QED
  BY <1>3, <1>4 DEF Hand
\* The pages of an operation from h + 1 on.
LEMMA SlotsAre ==
  ASSUME Types, Stages, NEW i \in DOMAIN ops, NEW h \in Nat
  PROVE  /\ SubSeq(ops[i].pages, h + 1, ops[i].held) \in Seq(Pages)
         /\ Range(SubSeq(ops[i].pages, h + 1, ops[i].held)) = {ops[i].pages[n] : n \in (h + 1)..ops[i].held}
         /\ IsInjective(SubSeq(ops[i].pages, h + 1, ops[i].held))
<1> DEFINE s == ops[i].pages a == h + 1 b == ops[i].held
<1>1. s \in Seq(Pages) /\ IsInjective(s) /\ b \in Nat /\ b <= Len(s) /\ a \in Nat \ {0}
  BY OpIs
<1> HIDE DEF s, a, b
<1>2. SubSeq(s, a, b) \in Seq(Pages) /\ Range(SubSeq(s, a, b)) = {s[n] : n \in a..b} /\ IsInjective(SubSeq(s, a, b))
  BY <1>1, PartIs
<1> QED
  BY <1>2, Zenon DEF s, a, b

-----------------------------------------------------------------------------
(* The storage threads *)

(* The storage threads *)

\* The I/O thread takes the next operation from prefetch_buffer.
LEMMA IoTakeStep ==
  ASSUME StorageInv, IoTake
  PROVE  StorageInv'
<1> DEFINE i == Head(buffer) o2 == [ops[i] EXCEPT !.stage = "io"]
<1> USE DEF StorageInv, hostVars, opVars, threadVars, backupVars, reqVars
<1>1. /\ io.step = "idle" /\ buffer # <<>> /\ buffer' = Tail(buffer)
      /\ \E got \in 0..ops[i].hash : io' = Fetching(i, got)
      /\ ops' = [ops EXCEPT ![i] = o2]
      /\ UNCHANGED <<where, tree, free, data, hostRef, ongoing, occupied, prefetchQ, revokeQ, releaseQ,
                     storage, backupQ, ackQ, backups>>
  BY Zenon DEF IoTake
<1>2. buffer \in Seq(Nat) /\ IsInjective(buffer) /\ \A n \in DOMAIN buffer : buffer[n] \in DOMAIN ops /\ ops[buffer[n]].stage = "buffered"
  BY Zenon DEF Types, Stages, QueueOf
<1>3. /\ Tail(buffer) \in Seq(Nat) /\ i \in Nat /\ IsInjective(Tail(buffer)) /\ i \notin Range(Tail(buffer))
      /\ Range(buffer) = Range(Tail(buffer)) \cup {i}
  BY <1>1, <1>2, TailIs, Zenon
<1>4. \A j \in Range(buffer) : j \in DOMAIN ops /\ ops[j].stage = "buffered"
  BY <1>2, Zenon DEF Range
<1>5. i \in DOMAIN ops /\ ops[i].stage = "buffered"
  BY <1>3, <1>4, Zenon
<1>6. ops[i] \in Operation /\ OperationIsSound(ops[i]) /\ ops \in Seq(Operation)
  BY <1>5, OpIs, Zenon DEF Stages, Types
<1>7. /\ o2 \in Operation /\ o2.rid = ops[i].rid /\ o2.base = ops[i].base /\ o2.len = ops[i].len
      /\ o2.pages = ops[i].pages /\ o2.held = ops[i].held /\ o2.completed = ops[i].completed
      /\ o2.stage = "io" /\ o2.hash = ops[i].hash
  BY <1>6, Zenon DEF Operation
<1> HIDE DEF i, o2
<1>8. /\ ops' \in Seq(Operation) /\ DOMAIN ops' = DOMAIN ops /\ ops'[i] = o2
      /\ \A j \in DOMAIN ops : j # i => ops'[j] = ops[j]
  <2>1. /\ [ops EXCEPT ![i] = o2] \in Seq(Operation) /\ DOMAIN [ops EXCEPT ![i] = o2] = DOMAIN ops
        /\ [ops EXCEPT ![i] = o2][i] = o2
        /\ \A j \in DOMAIN ops : j # i => [ops EXCEPT ![i] = o2][j] = ops[j]
    BY <1>5, <1>6, <1>7, EditIs, Zenon
  <2> QED
    BY <1>1, <2>1, Zenon
<1>9. \A j \in DOMAIN ops : /\ ops'[j].rid = ops[j].rid /\ ops'[j].base = ops[j].base /\ ops'[j].len = ops[j].len
                            /\ ops'[j].pages = ops[j].pages /\ ops'[j].held = ops[j].held
                            /\ ops'[j].completed = ops[j].completed
  BY <1>7, <1>8, Zenon
<1>10. PICK got \in 0..ops[i].hash : io' = Fetching(i, got)
  BY <1>1, Zenon
<1>11. Types'
  <2>1. io' \in [step : {"idle", "write", "count", "finish", "dead"}, op : Nat, next : Nat, got : Nat]
    BY <1>3, <1>6, <1>10 DEF Fetching, Operation
  <2> QED
    BY <1>1, <1>3, <1>8, <2>1, Zenon DEF Types
<1>12. Entries'
  BY <1>1, <1>8, <1>9, EntriesStay, Zenon
<1>13. Stages'
  <2>1. OperationIsSound(o2)
    BY <1>5, <1>6, <1>7, Zenon DEF OperationIsSound, PathAt
  <2>2. \A j \in DOMAIN ops' : OperationIsSound(ops'[j])
    BY <1>8, <2>1, Zenon DEF Stages
  <2>3. ASSUME NEW j \in DOMAIN ops' PROVE OperationIsSound(ops[j])'
    BY <2>2, <1>1, Zenon DEF OperationIsSound
  <2>4. QueueOf(prefetchQ, "queued")'
    BY <1>1, <1>5, <1>8, Zenon DEF Stages, QueueOf
  <2>5. QueueOf(buffer, "buffered")'
    BY <1>1, <1>3, <1>4, <1>8 DEF QueueOf, Range
  <2>6. ops[i].completed = 0 /\ ops[i].hash \in Nat
    BY <1>5, <1>6, Zenon DEF OperationIsSound, Operation
  <2>7. IoIsSound'
    BY <1>5, <1>7, <1>8, <1>10, <2>6 DEF IoIsSound, Fetching
  <2> QED
    BY <2>3, <2>4, <2>5, <2>7, Zenon DEF Stages
<1>14. Ownership'
  <2>1. ASSUME NEW j \in DOMAIN ops PROVE Hand(j)' = Hand(j)
    BY <1>1, <1>9, HandStays, Zenon
  <2> QED
    BY <1>1, <1>8, <2>1, OwnershipStays, Zenon
<1>15. DataInv'
  <2>1. EntryData'
    <3>1. \A r \in Requests : ongoing[r] # 0 => ongoing[r] \in DOMAIN ops
      BY Zenon DEF Entries
    <3> QED
      BY <1>1, <1>9, <3>1 DEF DataInv, EntryData, PathAt
  <2> QED
    BY <1>1, <2>1, Zenon DEF DataInv, TreeHoldsItsData, StorageHoldsItsData
<1>16. HostInv'
  BY <1>1, <1>9, HostStays, Zenon
<1> QED
  BY <1>11, <1>12, <1>13, <1>14, <1>15, <1>16, Zenon

\* The page the I/O thread is at is its operation's, in no other hand.
LEMMA PageAtHand ==
  ASSUME StorageInv, NEW g, io.op \in DOMAIN ops,
         NEW n \in (ops[io.op].completed + 1)..ops[io.op].held, g = ops[io.op].pages[n]
  PROVE  /\ g \in Pages /\ \A p \in DOMAIN tree : tree[p] # g
         /\ \A r \in Requests : ongoing[r] # 0 =>
               \A m \in 1..ops[ongoing[r]].completed : ops[ongoing[r]].pages[m] # g
<1> USE DEF StorageInv
<1> DEFINE i == io.op
<1>1. g \in Hand(i) /\ g \in Pages /\ n \in DOMAIN ops[i].pages
  BY HandHas, Zenon
<1>2. Hands[i] = Hand(i) /\ i \in DOMAIN Hands
  BY Zenon DEF Hands
<1>3. Apart(Range(free), Range(releaseQ), Range(tree), Hands)
  BY Zenon DEF Ownership
<1>4. g \notin Range(tree)
  BY <1>1, <1>2, <1>3, Zenon DEF Apart
<1>5. ASSUME NEW r \in Requests, ongoing[r] # 0, NEW m \in 1..ops[ongoing[r]].completed
      PROVE  ops[ongoing[r]].pages[m] # g
  <2> DEFINE j == ongoing[r]
  <2>1. j \in DOMAIN ops /\ ops[j].rid = r
    BY <1>5, Zenon DEF Entries
  <2>2. /\ ops[j].completed \in Nat /\ ops[j].held \in Nat /\ Len(ops[j].pages) \in Nat
        /\ ops[j].completed <= ops[j].held /\ ops[j].held <= Len(ops[j].pages)
        /\ IsInjective(ops[j].pages) /\ DOMAIN ops[j].pages = 1..Len(ops[j].pages)
    BY <2>1, OpIs, Zenon
  <2>3. m \in DOMAIN ops[j].pages /\ m \in 1..ops[j].held
    BY <2>2
  <2>4. CASE j = i
    <3>1. m # n
      BY <2>2, <2>4
    <3> QED
      BY <1>1, <2>2, <2>3, <2>4, <3>1, Zenon DEF IsInjective
  <2>5. CASE j # i
    <3>1. Counted(j) = 0
      BY <2>1, Zenon DEF Counted
    <3>2. ops[j].pages[m] \in Hand(j)
      <4>1. Counted(j) + 1 = 1
        BY <3>1
      <4> QED
        BY <2>3, <4>1, Zenon DEF Hand
    <3>3. Hands[j] = Hand(j) /\ j \in DOMAIN Hands
      BY <2>1, Zenon DEF Hands
    <3>4. Hands[j] \cap Hands[i] = {}
      BY <1>2, <1>3, <2>5, <3>3, Zenon DEF Apart
    <3> QED
      BY <1>1, <1>2, <3>2, <3>3, <3>4, Zenon
  <2> QED
    BY <2>4, <2>5, Zenon
<1> QED
  BY <1>1, <1>4, <1>5, Zenon DEF Range

\* It writes one page: into a page of its operation's own, whoever has
\* settled it meanwhile.
LEMMA IoWriteStep ==
  ASSUME StorageInv, IoWrite
  PROVE  StorageInv'
<1> USE DEF StorageInv, hostVars, opVars, threadVars, backupVars, reqVars
<1> DEFINE i == io.op o == ops[io.op] g == o.pages[io.next]
<1>1. /\ io.step = "write"
      /\ UNCHANGED <<where, tree, free, hostRef, ops, ongoing, prefetchQ, buffer, revokeQ, releaseQ,
                     storage, backupQ, ackQ, backups>>
      /\ \/ /\ io.next <= o.held /\ data' = [data EXCEPT ![g] = storage[PathAt(o, io.next)]]
            /\ io' = [io EXCEPT !.step = "count"]
         \/ io.next > o.held /\ io' = [io EXCEPT !.step = "dead"] /\ UNCHANGED data
  BY Zenon DEF IoWrite
<1>2. /\ i \in DOMAIN ops /\ o.stage = "io" /\ io.next = o.completed + 1
      /\ io.next <= io.got /\ io.got <= o.hash /\ io.next \in Nat /\ io.got \in Nat
  BY <1>1, Zenon DEF Stages, IoIsSound, Types
<1>3. io' \in [step : {"idle", "write", "count", "finish", "dead"}, op : Nat, next : Nat, got : Nat]
  BY <1>1, Zenon DEF Types
<1>4. Entries' /\ Ownership' /\ HostInv'
  <2>1. \A j \in DOMAIN ops : Hand(j)' = Hand(j)
    BY <1>1, HandStays, Zenon
  <2>2. Ownership'
    BY <1>1, <2>1, OwnershipStays, Zenon
  <2>3. Entries' /\ HostInv'
    BY <1>1, EntriesStay, HostStays, Zenon
  <2> QED
    BY <2>2, <2>3, Zenon
<1>5. QueueOf(prefetchQ, "queued")' /\ QueueOf(buffer, "buffered")'
  BY <1>1, Zenon DEF Stages, QueueOf
<1>6. ASSUME NEW j \in DOMAIN ops' PROVE OperationIsSound(ops[j])'
  BY <1>1, Zenon DEF OperationIsSound, Stages
<1>7. CASE io.next > o.held /\ io' = [io EXCEPT !.step = "dead"] /\ UNCHANGED data
  <2>1. Types'
    BY <1>1, <1>3, <1>7, Zenon DEF Types
  <2>2. IoIsSound'
    <3>1. io'.step = "dead" /\ io'.op = i
      BY <1>7, Zenon DEF Types
    <3> QED
      BY <1>1, <1>2, <3>1, Zenon DEF IoIsSound
  <2>3. DataInv'
    BY <1>1, <1>7, DataStays, Zenon
  <2> QED
    BY <1>4, <1>5, <1>6, <2>1, <2>2, <2>3, Zenon DEF Stages
<1>8. CASE /\ io.next <= o.held /\ data' = [data EXCEPT ![g] = storage[PathAt(o, io.next)]]
           /\ io' = [io EXCEPT !.step = "count"]
  <2>1. o.completed \in Nat /\ o.held \in Nat /\ o.hash \in Nat /\ o.len \in Nat
    BY <1>2, OpIs, Zenon
  <2>2. io.next \in (o.completed + 1)..o.held
    BY <1>2, <1>8, <2>1
  <2>3. /\ g \in Pages /\ \A p \in DOMAIN tree : tree[p] # g
        /\ \A r \in Requests : ongoing[r] # 0 =>
              \A m \in 1..ops[ongoing[r]].completed : ops[ongoing[r]].pages[m] # g
    <3> HIDE DEF StorageInv
    <3> QED
      BY <1>2, <2>2, PageAtHand, Zenon
  <2>4. OperationIsSound(o)
    BY <1>2, Zenon DEF Stages
  <2>5. io.next \in 1..o.hash /\ io.next \in 0..o.len /\ PathAt(o, io.next) \in DOMAIN storage
    BY <1>2, <2>1, <2>4 DEF OperationIsSound
  <2>6. storage[PathAt(o, io.next)] = PathAt(o, io.next) /\ PathAt(o, io.next) \in Paths
    <3>1. PathAt(o, io.next) \in Paths
      BY <1>2, <2>5, PathAtIs, Zenon
    <3> QED
      BY <2>5, <3>1, Zenon DEF DataInv, StorageHoldsItsData
  <2>7. data \in [Pages -> Paths]
    BY Zenon DEF Types
  <2> HIDE DEF o, g
  <2>8. /\ data' \in [Pages -> Paths] /\ data'[g] = PathAt(o, io.next)
        /\ \A x \in Pages : x # g => data'[x] = data[x]
    BY <1>8, <2>3, <2>6, <2>7, Zenon
  <2>9. Types'
    BY <1>1, <1>3, <2>8, Zenon DEF Types
  <2>10. IoIsSound'
    <3>1. io'.step = "count" /\ io'.op = i /\ io'.next = io.next /\ io'.got = io.got
      BY <1>8, Zenon DEF Types
    <3>2. /\ i \in DOMAIN ops' /\ ops'[i].stage = "io" /\ io'.next = ops'[i].completed + 1
          /\ io'.next <= io'.got /\ io'.got <= ops'[i].hash /\ io'.next <= ops'[i].held
      BY <1>1, <1>2, <1>8, <3>1, Zenon DEF o
    <3>3. data'[ops'[i].pages[io'.next]] = PathAt(ops'[i], io'.next)
      BY <1>1, <2>8, <3>1, Zenon DEF o, g
    <3> QED
      BY <3>1, <3>2, <3>3, Zenon DEF IoIsSound, PathAt
  <2>11. DataInv'
    <3>1. TreeHoldsItsData'
      <4>1. \A p \in DOMAIN tree : tree[p] \in Pages
        BY Zenon DEF Types
      <4> QED
        BY <1>1, <2>3, <2>8, <4>1, Zenon DEF DataInv, TreeHoldsItsData
    <3>2. ASSUME NEW r \in Requests, ongoing[r] # 0, NEW n \in 1..ops[ongoing[r]].completed
          PROVE  data'[ops[ongoing[r]].pages[n]] = PathAt(ops[ongoing[r]], n)
      <4>1. ongoing[r] \in DOMAIN ops
        BY <3>2, Zenon DEF Entries
      <4>2. /\ ops[ongoing[r]].pages \in Seq(Pages) /\ ops[ongoing[r]].completed \in Nat /\ ops[ongoing[r]].held \in Nat
            /\ ops[ongoing[r]].completed <= ops[ongoing[r]].held /\ ops[ongoing[r]].held <= Len(ops[ongoing[r]].pages)
        BY <4>1, OpIs, Zenon
      <4>3. ops[ongoing[r]].pages[n] \in Pages
        BY <4>2
      <4>4. data[ops[ongoing[r]].pages[n]] = PathAt(ops[ongoing[r]], n)
        BY <3>2, Zenon DEF DataInv, EntryData
      <4> QED
        BY <2>3, <2>8, <3>2, <4>3, <4>4, Zenon
    <3>3. EntryData'
      BY <1>1, <3>2, Zenon DEF EntryData, PathAt
    <3> QED
      BY <1>1, <3>1, <3>3, Zenon DEF DataInv, StorageHoldsItsData
  <2> QED
    BY <1>4, <1>5, <1>6, <2>9, <2>10, <2>11, Zenon DEF Stages
<1> QED
  BY <1>1, <1>7, <1>8, Zenon

\* It counts the page (increment), unless the operation has been told to
\* stop.
LEMMA IoIncrementStep ==
  ASSUME StorageInv, IoIncrement
  PROVE  StorageInv'
<1> USE DEF StorageInv, hostVars, opVars, threadVars, backupVars, reqVars
<1>0. PICK i : i = io.op
  BY Zenon
<1> DEFINE o == ops[i] o2 == [o EXCEPT !.completed = @ + 1]
<1>1. /\ io.step = "count"
      /\ UNCHANGED <<where, tree, free, data, hostRef, ongoing, prefetchQ, buffer, revokeQ, releaseQ,
                     storage, backupQ, ackQ, backups>>
      /\ \/ io' = [io EXCEPT !.step = "finish"] /\ UNCHANGED ops
         \/ /\ ops' = [ops EXCEPT ![i] = o2]
            /\ io' = [io EXCEPT !.step = IF io.next < io.got THEN "write" ELSE "finish", !.next = @ + 1]
  BY <1>0, Zenon DEF IoIncrement
<1>2. /\ i \in DOMAIN ops /\ o.stage = "io" /\ io.next = o.completed + 1 /\ io.next <= o.held
      /\ io.next <= io.got /\ io.got <= o.hash /\ io.next \in Nat /\ io.got \in Nat
      /\ data[o.pages[io.next]] = PathAt(o, io.next)
  BY <1>0, <1>1, Zenon DEF Stages, IoIsSound, Types
<1>3. io' \in [step : {"idle", "write", "count", "finish", "dead"}, op : Nat, next : Nat, got : Nat]
  <2>1. /\ io \in [step : {"idle", "write", "count", "finish", "dead"}, op : Nat, next : Nat, got : Nat]
        /\ io.next + 1 \in Nat
    BY DEF Types
  <2>2. CASE io' = [io EXCEPT !.step = "finish"]
    BY <2>1, <2>2, Zenon
  <2>3. CASE io' = [io EXCEPT !.step = IF io.next < io.got THEN "write" ELSE "finish", !.next = @ + 1]
    BY <2>1, <2>3, Zenon
  <2> QED
    BY <1>1, <2>2, <2>3, Zenon
<1>4. CASE io' = [io EXCEPT !.step = "finish"] /\ UNCHANGED ops
  <2>1. Types'
    BY <1>1, <1>3, <1>4, Zenon DEF Types
  <2>2. \A j \in DOMAIN ops : Hand(j)' = Hand(j)
    BY <1>1, <1>4, HandStays, Zenon
  <2>3. Ownership'
    BY <1>1, <1>4, <2>2, OwnershipStays, Zenon
  <2>4. Entries' /\ HostInv' /\ DataInv'
    BY <1>1, <1>4, EntriesStay, HostStays, DataStays, Zenon
  <2>5. QueueOf(prefetchQ, "queued")' /\ QueueOf(buffer, "buffered")'
    BY <1>1, <1>4, Zenon DEF Stages, QueueOf
  <2>6. ASSUME NEW j \in DOMAIN ops' PROVE OperationIsSound(ops[j])'
    BY <1>1, <1>4, Zenon DEF OperationIsSound, Stages
  <2>7. IoIsSound'
    <3>1. io'.step = "finish" /\ io'.op = i
      BY <1>0, <1>4, Zenon DEF Types
    <3> QED
      BY <1>4, <1>2, <3>1, Zenon DEF IoIsSound
  <2> QED
    BY <2>1, <2>3, <2>4, <2>5, <2>6, <2>7, Zenon DEF Stages
<1>5. CASE /\ ops' = [ops EXCEPT ![i] = o2]
           /\ io' = [io EXCEPT !.step = IF io.next < io.got THEN "write" ELSE "finish", !.next = @ + 1]
  <2>1. o \in Operation /\ OperationIsSound(o) /\ ops \in Seq(Operation)
    BY <1>2 DEF Stages, Types
  <2>2. /\ o2 \in Operation /\ o2.rid = o.rid /\ o2.base = o.base /\ o2.len = o.len /\ o2.pages = o.pages
        /\ o2.held = o.held /\ o2.completed = o.completed + 1 /\ o2.stage = "io" /\ o2.hash = o.hash
    BY <1>2, <2>1, Zenon DEF Operation
  <2> HIDE DEF o2
  <2>3. /\ ops' \in Seq(Operation) /\ DOMAIN ops' = DOMAIN ops /\ ops'[i] = o2
        /\ \A j \in DOMAIN ops : j # i => ops'[j] = ops[j]
    BY <1>2, <1>5, <2>1, <2>2
  <2>4. \A j \in DOMAIN ops : /\ ops'[j].rid = ops[j].rid /\ ops'[j].base = ops[j].base
                              /\ ops'[j].pages = ops[j].pages /\ ops'[j].held = ops[j].held
    BY <2>2, <2>3, Zenon
  <2>5. Types'
    BY <1>1, <1>3, <2>3, Zenon DEF Types
  <2>6. Entries' /\ HostInv'
    <3>1. Entries'
      BY <1>1, <2>3, <2>4, EntriesStay, Zenon
    <3>2. HostInv'
      BY <1>1, <2>4, HostStays, Zenon
    <3> QED
      BY <3>1, <3>2, Zenon
  <2>7. Stages'
    <3>1. OperationIsSound(o2)
      BY <1>2, <2>1, <2>2, Zenon DEF OperationIsSound, PathAt, Operation
    <3>2. \A j \in DOMAIN ops' : OperationIsSound(ops'[j])
      BY <2>3, <3>1, Zenon DEF Stages
    <3>3. ASSUME NEW j \in DOMAIN ops' PROVE OperationIsSound(ops[j])'
      BY <3>2, <1>1, Zenon DEF OperationIsSound
    <3>4. QueueOf(prefetchQ, "queued")' /\ QueueOf(buffer, "buffered")'
      BY <1>1, <1>2, <2>3 DEF Stages, QueueOf
    <3>5. /\ io'.step = (IF io.next < io.got THEN "write" ELSE "finish") /\ io'.op = i
          /\ io'.next = io.next + 1 /\ io'.got = io.got
      BY <1>0, <1>5, Zenon DEF Types
    <3>6. IoIsSound'
      BY <1>2, <2>2, <2>3, <3>5 DEF IoIsSound
    <3> QED
      BY <3>3, <3>4, <3>6, Zenon DEF Stages
  <2>8. Ownership'
    <3>1. \A j \in DOMAIN ops : j # i => Hand(j)' = Hand(j)
      BY <1>1, <2>3, HandStays, Zenon
    <3>2. Hand(i)' \subseteq Hand(i)
      <4>1. Counted(i) \in Nat /\ Counted(i)' \in Nat /\ Counted(i) <= Counted(i)' /\ o.held \in Nat
        <5>1. o.completed \in Nat /\ o.held \in Nat
          BY <2>1, Zenon DEF Operation
        <5>2. Counted(i)' = IF ongoing[o.rid] = i THEN 0 ELSE o.completed + 1
          BY <1>1, <2>2, <2>3, Zenon DEF Counted
        <5>3. Counted(i) = IF ongoing[o.rid] = i THEN 0 ELSE o.completed
          BY Zenon DEF Counted
        <5> QED
          BY <5>1, <5>2, <5>3
      <4>2. (Counted(i)' + 1)..o.held \subseteq (Counted(i) + 1)..o.held
        BY <4>1
      <4> QED
        BY <2>2, <2>3, <4>2, Zenon DEF Hand
    <3>3. /\ DOMAIN Hands' = DOMAIN Hands
          /\ \A j \in DOMAIN Hands : Hands'[j] \subseteq Hands[j]
      BY <2>3, <3>1, <3>2, Zenon DEF Hands
    <3>4. Apart(Range(free), Range(releaseQ), Range(tree), Hands)
      BY Zenon DEF Ownership
    <3>5. /\ Range(free) \cap Range(releaseQ) = {} /\ Range(free) \cap Range(tree) = {}
          /\ Range(releaseQ) \cap Range(tree) = {}
      BY <3>4, Zenon DEF Apart
    <3>6. Apart(Range(free), Range(releaseQ), Range(tree), Hands')
      BY <3>3, <3>4, <3>5, DealtBack
    <3> QED
      BY <1>1, <3>6, Zenon DEF Ownership
  <2>9. DataInv'
    <3>1. ASSUME NEW r \in Requests, ongoing[r] # 0, NEW n \in 1..ops'[ongoing[r]].completed
          PROVE  data[ops[ongoing[r]].pages[n]] = PathAt(ops[ongoing[r]], n)
      <4>1. ongoing[r] \in DOMAIN ops
        BY <3>1, Zenon DEF Entries
      <4>2. CASE n \in 1..ops[ongoing[r]].completed
        BY <3>1, <4>2, Zenon DEF DataInv, EntryData
      <4>3. CASE n \notin 1..ops[ongoing[r]].completed
        <5>1. ongoing[r] = i
          BY <4>1, <4>3, <2>3, Zenon
        <5>2. o.completed \in Nat /\ n \in 1..(o.completed + 1) /\ n \notin 1..o.completed
          BY <2>1, <2>2, <2>3, <4>3, <5>1, <3>1, Zenon DEF Operation
        <5>3. n = io.next
          BY <1>2, <5>2
        <5> QED
          BY <1>2, <5>1, <5>3, Zenon
      <4> QED
        BY <4>2, <4>3, Zenon
    <3>2. \A r \in Requests : ongoing[r] # 0 => ongoing[r] \in DOMAIN ops
      BY Zenon DEF Entries
    <3>3. EntryData'
      BY <1>1, <2>4, <3>1, <3>2 DEF EntryData, PathAt
    <3> QED
      BY <1>1, <3>3, Zenon DEF DataInv, TreeHoldsItsData, StorageHoldsItsData
  <2> QED
    BY <2>5, <2>6, <2>7, <2>8, <2>9, Zenon
<1> QED
  BY <1>1, <1>4, <1>5, Zenon

\* A thread sets how far an operation is, and leaves its pages alone.
LEMMA OpsEdited ==
  ASSUME StorageInv, UNCHANGED <<where, tree, data, hostRef, ongoing, storage, backups, backupQ, ackQ>>,
         DOMAIN ops' = DOMAIN ops,
         \A j \in DOMAIN ops : /\ ops'[j].rid = ops[j].rid /\ ops'[j].base = ops[j].base
                               /\ ops'[j].pages = ops[j].pages /\ ops'[j].completed = ops[j].completed
  PROVE  Entries' /\ DataInv' /\ HostInv'
<1>1. Entries /\ DataInv /\ HostInv
  BY Zenon DEF StorageInv
<1>2. Entries'
  BY <1>1, EntriesStay, Zenon
<1>3. HostInv'
  BY <1>1, HostStays, Zenon
<1>4. \A r \in Requests : ongoing[r] # 0 => ongoing[r] \in DOMAIN ops
  BY <1>1, Zenon DEF Entries
<1>5. EntryData'
  BY <1>1, <1>4, Zenon DEF DataInv, EntryData, PathAt
<1> QED
  BY <1>1, <1>2, <1>3, <1>5, Zenon DEF DataInv, TreeHoldsItsData, StorageHoldsItsData

\* A thread gives the pages of operation i from h + 1 on to the release queue.
LEMMA HandOver ==
  ASSUME StorageInv, NEW i \in DOMAIN ops, NEW h \in Nat, Counted(i) <= h,
         NEW q \in Seq(Pages), IsInjective(q), Range(q) = {ops[i].pages[n] : n \in (h + 1)..ops[i].held},
         releaseQ' = releaseQ \o q, UNCHANGED <<free, tree, ongoing>>,
         DOMAIN ops' = DOMAIN ops, \A j \in DOMAIN ops : j # i => ops'[j] = ops[j],
         ops'[i].rid = ops[i].rid, ops'[i].pages = ops[i].pages, ops'[i].completed = ops[i].completed,
         ops'[i].held = IF h < ops[i].held THEN h ELSE ops[i].held
  PROVE  Ownership' /\ releaseQ' \in Seq(Pages)
<1> DEFINE P == ops[i].pages d == ops[i].held c == Counted(i) d2 == ops'[i].held
           F == Range(free) R == Range(releaseQ) T == Range(tree) Q == Range(q)
<1>1. Types /\ Stages /\ Ownership
  BY Zenon DEF StorageInv
<1>2. /\ d \in Nat /\ c \in Nat /\ Len(P) \in Nat /\ d <= Len(P) /\ IsInjective(P) /\ DOMAIN P = 1..Len(P)
      /\ ops[i].completed \in Nat /\ ops[i].completed <= d
  <2>1. Counted(i) \in {0, ops[i].completed}
    BY <1>1, OpIs, Zenon
  <2> QED
    BY <1>1, <2>1, OpIs
<1>3. Counted(i)' = c
  BY Zenon DEF Counted
<1>4. Hand(i)' = {P[n] : n \in (c + 1)..d2} /\ Hand(i) = {P[n] : n \in (c + 1)..d}
  BY <1>3, Zenon DEF Hand
<1>5. \A j \in DOMAIN ops : j # i => Hand(j)' = Hand(j)
  BY HandStays, Zenon
<1>6. Hands'[i] = Hand(i)' /\ Hands[i] = Hand(i) /\ DOMAIN Hands' = DOMAIN Hands \cup {i}
      /\ i \in DOMAIN Hands /\ \A j \in DOMAIN Hands : j # i => Hands'[j] \subseteq Hands[j]
  BY <1>5, Zenon DEF Hands
<1>7. Apart(F, R, T, Hands) /\ releaseQ \in Seq(Pages) /\ IsInjective(releaseQ)
  BY <1>1, Zenon DEF Ownership, Types
<1>8. Hand(i) \cap (F \cup R \cup T) = {} /\ F \cap R = {} /\ F \cap T = {} /\ R \cap T = {}
  BY <1>6, <1>7, Zenon DEF Apart
<1>9. Q \subseteq Hand(i) /\ Hand(i)' \subseteq Hand(i) /\ Q \cap Hand(i)' = {}
  <2> HIDE DEF P, d, c, d2
  <2>1. Q = {P[n] : n \in (h + 1)..d} /\ d2 = (IF h < d THEN h ELSE d) /\ c <= h
    BY Zenon DEF P, d, d2, c
  <2>2. (h + 1)..d \subseteq (c + 1)..d /\ (c + 1)..d2 \subseteq (c + 1)..d
    BY <1>2, <2>1
  <2>3. \A m \in (h + 1)..d, n \in (c + 1)..d2 : m # n /\ m \in DOMAIN P /\ n \in DOMAIN P
    BY <1>2, <2>1
  <2>4. \A m \in (h + 1)..d, n \in (c + 1)..d2 : P[m] # P[n]
    BY <1>2, <2>3, Zenon DEF IsInjective
  <2>5. Hand(i)' = {P[n] : n \in (c + 1)..d2} /\ Hand(i) = {P[n] : n \in (c + 1)..d}
    BY <1>4, Zenon DEF P, c, d, d2
  <2>6. Q \subseteq Hand(i) /\ Hand(i)' \subseteq Hand(i)
    BY <2>1, <2>2, <2>5, Zenon
  <2>7. Q \cap Hand(i)' = {}
    <3>1. ASSUME NEW x \in Q, x \in Hand(i)' PROVE FALSE
      <4>1. PICK m \in (h + 1)..d : x = P[m]
        BY <2>1, Zenon
      <4>2. PICK n \in (c + 1)..d2 : x = P[n]
        BY <2>5, <3>1, Zenon
      <4> QED
        BY <2>4, <4>1, <4>2, Zenon
    <3> QED
      BY <3>1, Zenon
  <2> QED
    BY <2>6, <2>7, Zenon
<1>10. /\ releaseQ' \in Seq(Pages) /\ Range(releaseQ') = R \cup Q /\ IsInjective(releaseQ')
  <2>1. R \cap Q = {}
    BY <1>8, <1>9, Zenon
  <2>2. /\ releaseQ \o q \in Seq(Pages) /\ Range(releaseQ \o q) = R \cup Q /\ IsInjective(releaseQ \o q)
    BY <1>7, <2>1, JoinIs
  <2> QED
    BY <2>2, Zenon
<1>11. Apart(F, R \cup Q, T, Hands')
  <2> DEFINE H == Hands H2 == Hands' X == Hand(i) Y == Hand(i)'
  <2>1. /\ i \in DOMAIN H /\ X = H[i] /\ DOMAIN H2 = DOMAIN H /\ \A j \in DOMAIN H : j # i => H2[j] \subseteq H[j]
        /\ H2[i] = Y
    BY <1>6, Zenon
  <2>2. Apart(F, R, T, H)
    BY <1>7, Zenon
  <2> DEFINE R2 == R \cup Q
  <2> HIDE DEF H, H2, X, Y, F, R, T, Q
  <2>3. /\ F \cup R2 \cup T \cup H2[i] \subseteq F \cup R \cup T \cup H[i]
        /\ F \cap R2 = {} /\ F \cap T = {} /\ R2 \cap T = {}
        /\ H2[i] \cap (F \cup R2 \cup T) = {}
    BY <1>8, <1>9, <2>1, Zenon DEF X, Y
  <2> HIDE DEF R2
  <2>4. Apart(F, R2, T, H2)
    BY <2>1, <2>2, <2>3, DealtOut
  <2> QED
    BY <2>4, Zenon DEF H2, R2
<1> QED
  BY <1>1, <1>10, <1>11, Zenon DEF Ownership

\* It leaves the operation and releases what was not fetched.
LEMMA IoFinishStep ==
  ASSUME StorageInv, IoFinish
  PROVE  StorageInv'
<1>0. PICK i : i = io.op
  BY Zenon
<1> DEFINE o == ops[i] o2 == Closed(o)
<1>1. /\ io.step = "finish" /\ io' = IoIdle /\ ops' = [ops EXCEPT ![i] = o2]
      /\ releaseQ' = releaseQ \o SubSeq(o.pages, o.completed + 1, o.held)
      /\ UNCHANGED <<where, tree, free, data, hostRef, ongoing, prefetchQ, buffer, revokeQ,
                     storage, backupQ, ackQ, backups>>
  BY <1>0, Zenon DEF IoFinish, Unfilled, Slots, reqVars, hostVars, backupVars
<1>2. Types /\ Stages
  BY Zenon DEF StorageInv
<1>3. i \in DOMAIN ops /\ o.stage = "io"
  BY <1>0, <1>1, <1>2, Zenon DEF Stages, IoIsSound, Types
<1>4. o \in Operation /\ OperationIsSound(o) /\ ops \in Seq(Operation)
  BY <1>2, <1>3 DEF Stages, Types
<1>5. /\ o2 \in Operation /\ o2.rid = o.rid /\ o2.base = o.base /\ o2.len = o.len /\ o2.pages = o.pages
      /\ o2.held = o.completed /\ o2.completed = o.completed /\ o2.stage = "over" /\ o2.hash = o.hash
  BY <1>4, Zenon DEF Operation, Closed
<1> HIDE DEF o2
<1>6. /\ ops' \in Seq(Operation) /\ DOMAIN ops' = DOMAIN ops /\ ops'[i] = o2
      /\ \A j \in DOMAIN ops : j # i => ops'[j] = ops[j]
  BY <1>1, <1>3, <1>4, <1>5
<1>7. \A j \in DOMAIN ops : /\ ops'[j].rid = ops[j].rid /\ ops'[j].base = ops[j].base
                            /\ ops'[j].pages = ops[j].pages /\ ops'[j].completed = ops[j].completed
  BY <1>5, <1>6, Zenon
<1>8. Entries' /\ DataInv' /\ HostInv'
  BY <1>1, <1>6, <1>7, OpsEdited, Zenon
<1>9. /\ o.completed \in Nat /\ o.held \in Nat /\ o.pages \in Seq(Pages) /\ o.held <= Len(o.pages)
      /\ o.completed <= o.held /\ IsInjective(o.pages) /\ Counted(i) \in {0, o.completed}
  BY <1>2, <1>3, OpIs, Zenon
<1>10. Ownership' /\ releaseQ' \in Seq(Pages)
  <2> DEFINE h == o.completed q == SubSeq(o.pages, h + 1, o.held)
  <2>1. /\ q \in Seq(Pages) /\ Range(q) = {o.pages[n] : n \in (h + 1)..o.held} /\ IsInjective(q)
    <3>1. h + 1 \in Nat \ {0}
      BY <1>9
    <3> QED
      BY <1>2, <1>3, <1>9, SlotsAre, Zenon
  <2>2. Counted(i) <= h /\ h \in Nat /\ ops'[i].held = IF h < o.held THEN h ELSE o.held
    BY <1>5, <1>6, <1>9
  <2>3. releaseQ' = releaseQ \o q
    BY <1>1, Zenon
  <2> HIDE DEF q, h
  <2> QED
    BY <1>1, <1>3, <1>6, <1>7, <2>1, <2>2, <2>3, HandOver, Zenon
<1>11. Types'
  BY <1>1, <1>2, <1>6, <1>10, Zenon DEF Types, IoIdle
<1>12. Stages'
  <2>1. OperationIsSound(o2)
    BY <1>4, <1>5, <1>9 DEF OperationIsSound
  <2>2. \A j \in DOMAIN ops' : OperationIsSound(ops'[j])
    BY <1>2, <1>6, <2>1, Zenon DEF Stages
  <2>3. ASSUME NEW j \in DOMAIN ops' PROVE OperationIsSound(ops[j])'
    BY <2>2, <1>1, Zenon DEF OperationIsSound
  <2>4. QueueOf(prefetchQ, "queued")' /\ QueueOf(buffer, "buffered")'
    BY <1>1, <1>2, <1>3, <1>6, Zenon DEF Stages, QueueOf
  <2>5. IoIsSound'
    BY <1>1, Zenon DEF IoIsSound, IoIdle
  <2> QED
    BY <2>3, <2>4, <2>5, Zenon DEF Stages
<1> QED
  BY <1>8, <1>10, <1>11, <1>12, Zenon DEF StorageInv

\* What _storage_hit_query finds is there.
LEMMA HitsAre ==
  ASSUME SetFacts, Types, Stages, NEW i \in DOMAIN ops
  PROVE  /\ StorageHits(ops[i]) \in 0..ops[i].len
         /\ \A m \in 1..StorageHits(ops[i]) : PathAt(ops[i], m) \in DOMAIN storage
<1> DEFINE L == ops[i].len D == {n \in 1..L : \A m \in 1..n : PathAt(ops[i], m) \in DOMAIN storage}
<1>1. L \in Nat
  BY OpIs, Zenon
<1>2. D \in SUBSET (1..L)
  BY Zenon
<1>3. \A n \in D : \A m \in 1..n : m \in D
  <2>1. ASSUME NEW n \in D, NEW m \in 1..n PROVE m \in D
    <3>1. m \in 1..L /\ \A k \in 1..m : k \in 1..n
      BY <1>1
    <3>2. \A k \in 1..n : PathAt(ops[i], k) \in DOMAIN storage
      BY Zenon
    <3> QED
      BY <3>1, <3>2, Zenon
  <2> QED
    BY <2>1, Zenon
<1>4. \A n \in D : 1 <= n /\ PathAt(ops[i], n) \in DOMAIN storage
  BY <1>1
<1>5. StorageHits(ops[i]) = Cardinality(D)
  BY Zenon DEF StorageHits
<1> HIDE DEF D, L
<1>6. Cardinality(D) \in 0..L /\ D = 1..Cardinality(D)
  BY <1>1, <1>2, <1>3, DownClosed, Zenon
<1> QED
  BY <1>4, <1>5, <1>6, Zenon DEF L

\* The prefetch thread asks the backend, then revokes the operation or trims
\* and buffers it.
LEMMA PrefetchThreadStep ==
  ASSUME SetFacts, StorageInv, PrefetchThread
  PROVE  StorageInv'
<1>0. PICK i : i = Head(prefetchQ)
  BY Zenon
<1>00. PICK hits : hits = StorageHits(ops[i])
  BY Zenon
<1> DEFINE o == ops[i]
<1>1. /\ prefetchQ # <<>> /\ prefetchQ' = Tail(prefetchQ)
      /\ UNCHANGED <<where, tree, free, data, hostRef, ongoing, io, storage, backupQ, ackQ, backups>>
      /\ \/ /\ revokeQ' = Append(revokeQ, o.rid) /\ releaseQ' = releaseQ \o o.pages
            /\ ops' = [ops EXCEPT ![i] = [o EXCEPT !.stage = "over", !.held = 0]]
            /\ UNCHANGED buffer
         \/ /\ ops' = [ops EXCEPT ![i] = Trimmed(o, hits)]
            /\ releaseQ' = releaseQ \o SubSeq(o.pages, hits + 1, o.held)
            /\ buffer' = Append(buffer, i) /\ UNCHANGED revokeQ
  BY <1>0, <1>00, Zenon DEF PrefetchThread, Slots, reqVars, hostVars, backupVars
<1>2. Types /\ Stages
  BY Zenon DEF StorageInv
<1>3. prefetchQ \in Seq(Nat) /\ IsInjective(prefetchQ)
      /\ \A n \in DOMAIN prefetchQ : prefetchQ[n] \in DOMAIN ops /\ ops[prefetchQ[n]].stage = "queued"
  BY <1>2, Zenon DEF Types, Stages, QueueOf
<1>4. /\ prefetchQ' \in Seq(Nat) /\ IsInjective(prefetchQ') /\ i \notin Range(prefetchQ')
      /\ Range(prefetchQ) = Range(prefetchQ') \cup {i}
  <2>1. /\ Tail(prefetchQ) \in Seq(Nat) /\ IsInjective(Tail(prefetchQ)) /\ Head(prefetchQ) \notin Range(Tail(prefetchQ))
        /\ Range(prefetchQ) = Range(Tail(prefetchQ)) \cup {Head(prefetchQ)}
    BY <1>1, <1>3, TailIs, Zenon
  <2> QED
    BY <1>0, <1>1, <2>1, Zenon
<1>5. \A j \in Range(prefetchQ) : j \in DOMAIN ops /\ ops[j].stage = "queued"
  BY <1>3, Zenon DEF Range
<1>6. i \in DOMAIN ops /\ o.stage = "queued"
  BY <1>4, <1>5, Zenon
<1>7. o \in Operation /\ OperationIsSound(o) /\ ops \in Seq(Operation) /\ o.completed = 0 /\ o.held = Len(o.pages)
  BY <1>2, <1>6 DEF Stages, Types, OperationIsSound
<1>8. /\ o.held \in Nat /\ o.pages \in Seq(Pages) /\ o.held <= Len(o.pages) /\ o.len \in Nat
      /\ IsInjective(o.pages) /\ Counted(i) = 0 /\ o.rid \in Requests /\ i \in Nat
  BY <1>2, <1>6, <1>7, OpIs, Zenon
<1>9. hits \in 0..o.len /\ \A m \in 1..hits : PathAt(o, m) \in DOMAIN storage
  BY <1>00, <1>2, <1>6, HitsAre, Zenon
<1>10. ASSUME NEW o2 \in Operation, NEW h \in Nat, ops' = [ops EXCEPT ![i] = o2],
              o2.rid = o.rid, o2.base = o.base, o2.pages = o.pages, o2.completed = o.completed, OperationIsSound(o2),
              o2.held = (IF h < o.held THEN h ELSE o.held), o2.stage # "queued",
              NEW q \in Seq(Pages), IsInjective(q), Range(q) = {o.pages[n] : n \in (h + 1)..o.held},
              releaseQ' = releaseQ \o q, revokeQ' \in Seq(Requests), buffer' \in Seq(Nat),
              IsInjective(buffer'), \A j \in Range(buffer') : j \in Range(buffer) \/ (j = i /\ o2.stage = "buffered")
       PROVE  StorageInv'
  <2>1. /\ ops' \in Seq(Operation) /\ DOMAIN ops' = DOMAIN ops /\ ops'[i] = o2
        /\ \A j \in DOMAIN ops : j # i => ops'[j] = ops[j]
    <3> HIDE DEF o
    <3> QED
      BY <1>6, <1>7, <1>10
  <2>2. \A j \in DOMAIN ops : /\ ops'[j].rid = ops[j].rid /\ ops'[j].base = ops[j].base
                              /\ ops'[j].pages = ops[j].pages /\ ops'[j].completed = ops[j].completed
    BY <1>10, <2>1, Zenon
  <2>3. Entries' /\ DataInv' /\ HostInv'
    BY <1>1, <2>1, <2>2, OpsEdited, Zenon
  <2>4. Counted(i) <= h
    BY <1>8
  <2>5. Ownership' /\ releaseQ' \in Seq(Pages)
    BY <1>1, <1>6, <1>10, <2>1, <2>4, HandOver, Zenon
  <2>6. Types'
    BY <1>1, <1>2, <1>4, <1>10, <2>1, <2>5, Zenon DEF Types
  <2>7. \A j \in DOMAIN ops' : OperationIsSound(ops'[j])
    BY <1>2, <1>10, <2>1, Zenon DEF Stages
  <2>8. ASSUME NEW j \in DOMAIN ops' PROVE OperationIsSound(ops[j])'
    BY <2>7, <1>1, Zenon DEF OperationIsSound
  <2>9. QueueOf(prefetchQ, "queued")'
    <3>1. \A n \in DOMAIN prefetchQ' : prefetchQ'[n] \in Range(prefetchQ')
      BY Zenon DEF Range
    <3>2. \A j \in Range(prefetchQ') : j \in DOMAIN ops' /\ ops'[j].stage = "queued"
      BY <1>4, <1>5, <2>1, Zenon
    <3> QED
      BY <1>4, <3>1, <3>2, Zenon DEF QueueOf
  <2>10. QueueOf(buffer, "buffered")'
    <3>1. \A n \in DOMAIN buffer' : buffer'[n] \in Range(buffer')
      BY Zenon DEF Range
    <3>2. \A j \in Range(buffer) : j \in DOMAIN ops /\ ops[j].stage = "buffered"
      BY <1>2, Zenon DEF Stages, QueueOf, Range
    <3>3. \A j \in Range(buffer') : j \in DOMAIN ops' /\ ops'[j].stage = "buffered"
      BY <1>6, <1>10, <2>1, <3>2, Zenon
    <3> QED
      BY <1>10, <3>1, <3>3, Zenon DEF QueueOf
  <2>11. IoIsSound'
    <3>1. io.step # "idle" => io.op # i
      BY <1>2, <1>6, Zenon DEF Stages, IoIsSound
    <3>2. io.step # "idle" => io.op \in DOMAIN ops' /\ ops'[io.op] = ops[io.op]
      BY <1>2, <2>1, <3>1, Zenon DEF Stages, IoIsSound
    <3> QED
      BY <1>1, <1>2, <3>2, Zenon DEF Stages, IoIsSound, PathAt
  <2> QED
    BY <2>3, <2>5, <2>6, <2>8, <2>9, <2>10, <2>11, Zenon DEF StorageInv, Stages
<1>11. buffer \in Seq(Nat) /\ IsInjective(buffer) /\ revokeQ \in Seq(Requests)
  BY <1>2, Zenon DEF Types, Stages, QueueOf
<1>12. CASE /\ revokeQ' = Append(revokeQ, o.rid) /\ releaseQ' = releaseQ \o o.pages
            /\ ops' = [ops EXCEPT ![i] = [o EXCEPT !.stage = "over", !.held = 0]]
            /\ UNCHANGED buffer
  <2> DEFINE o2 == [o EXCEPT !.stage = "over", !.held = 0]
  <2>1. /\ o2 \in Operation /\ o2.rid = o.rid /\ o2.base = o.base /\ o2.len = o.len /\ o2.pages = o.pages
        /\ o2.held = 0 /\ o2.completed = o.completed /\ o2.stage = "over"
    BY <1>7, Zenon DEF Operation
  <2> HIDE DEF o2
  <2>2. OperationIsSound(o2)
    BY <1>7, <1>8, <2>1 DEF OperationIsSound
  <2>3. Range(o.pages) = {o.pages[n] : n \in (0 + 1)..o.held}
    BY <1>7, <1>8 DEF Range
  <2>4. revokeQ' \in Seq(Requests)
    BY <1>8, <1>11, <1>12
  <2>5. ops' = [ops EXCEPT ![i] = o2] /\ 0 \in Nat /\ o2.held = (IF 0 < o.held THEN 0 ELSE o.held)
    BY <1>8, <1>12, <2>1 DEF o2
  <2>6. buffer' \in Seq(Nat) /\ IsInjective(buffer') /\ \A j \in Range(buffer') : j \in Range(buffer)
    BY <1>11, <1>12, Zenon
  <2> QED
    <3>0. o2.stage # "queued"
      BY <2>1, Zenon
    <3>1. \A j \in Range(buffer') : j \in Range(buffer) \/ (j = i /\ o2.stage = "buffered")
      BY <2>6, Zenon
    <3>2. releaseQ' = releaseQ \o o.pages
      BY <1>12, Zenon
    <3> QED
      BY <1>8, <1>10, <2>1, <2>2, <2>3, <2>4, <2>5, <2>6, <3>0, <3>1, <3>2, Zenon
<1>13. CASE /\ ops' = [ops EXCEPT ![i] = Trimmed(o, hits)]
            /\ releaseQ' = releaseQ \o SubSeq(o.pages, hits + 1, o.held)
            /\ buffer' = Append(buffer, i) /\ UNCHANGED revokeQ
  <2> DEFINE o2 == Trimmed(o, hits) q == SubSeq(o.pages, hits + 1, o.held)
  <2>1. hits \in Nat
    BY <1>8, <1>9
  <2>2. /\ o2 \in Operation /\ o2.rid = o.rid /\ o2.base = o.base /\ o2.len = o.len /\ o2.pages = o.pages
        /\ o2.held = (IF hits < o.held THEN hits ELSE o.held) /\ o2.completed = o.completed
        /\ o2.stage = "buffered" /\ o2.hash = hits
    BY <1>7, <2>1, Zenon DEF Operation, Trimmed
  <2>3. /\ q \in Seq(Pages) /\ Range(q) = {o.pages[n] : n \in (hits + 1)..o.held} /\ IsInjective(q)
    <3>1. hits + 1 \in Nat \ {0}
      BY <2>1
    <3> QED
      BY <1>2, <1>6, <2>1, SlotsAre, Zenon
  <2>4. ops' = [ops EXCEPT ![i] = o2] /\ releaseQ' = releaseQ \o q
    BY <1>13, Zenon
  <2> HIDE DEF o2, q
  <2>5. OperationIsSound(o2)
    BY <1>7, <1>8, <1>9, <2>1, <2>2 DEF OperationIsSound, PathAt
  <2>6. i \notin Range(buffer)
    BY <1>2, <1>6, Zenon DEF Stages, QueueOf, Range
  <2>7. buffer' \in Seq(Nat) /\ IsInjective(buffer') /\ Range(buffer') = Range(buffer) \cup {i}
    <3>1. Append(buffer, i) \in Seq(Nat) /\ IsInjective(Append(buffer, i)) /\ Range(Append(buffer, i)) = Range(buffer) \cup {i}
      BY <1>8, <1>11, <2>6, AppendIs
    <3> QED
      BY <1>13, <3>1, Zenon
  <2>8. revokeQ' \in Seq(Requests)
    BY <1>11, <1>13, Zenon
  <2>9. \A j \in Range(buffer') : j \in Range(buffer) \/ (j = i /\ o2.stage = "buffered")
    BY <2>2, <2>7, Zenon
  <2> QED
    BY <1>10, <2>1, <2>2, <2>3, <2>4, <2>5, <2>7, <2>8, <2>9, Zenon
<1> QED
  BY <1>1, <1>12, <1>13, Zenon

-----------------------------------------------------------------------------
(* Backups, and what evict_host may take *)

\* The backup thread writes one page to the backend and acknowledges it.
LEMMA BackupThreadStep ==
  ASSUME StorageInv, BackupThread
  PROVE  StorageInv'
<1>0. PICK op : op = Head(backupQ)
  BY Zenon
<1>1. /\ backupQ # <<>> /\ backupQ' = Tail(backupQ) /\ ackQ' = Append(ackQ, op.path)
      /\ \/ storage' = [p \in DOMAIN storage \cup {op.path} |-> IF p = op.path THEN data[op.page] ELSE storage[p]]
         \/ UNCHANGED storage
      /\ UNCHANGED <<where, tree, free, data, hostRef, ops, ongoing, prefetchQ, buffer, io, revokeQ, releaseQ, backups>>
  BY <1>0, Zenon DEF BackupThread, reqVars, hostVars, opVars, threadVars
<1>2. Types /\ Entries /\ Stages /\ Ownership /\ DataInv /\ HostInv
  BY Zenon DEF StorageInv
<1>3. backupQ \in Seq([path : Paths, page : Pages]) /\ ackQ \in Seq(Paths)
  BY <1>2, Zenon DEF Types
<1>4. /\ backupQ' \in Seq([path : Paths, page : Pages]) /\ 1 \in DOMAIN backupQ /\ op = backupQ[1]
      /\ \A k \in DOMAIN backupQ' : k \in Nat /\ k + 1 \in DOMAIN backupQ /\ backupQ'[k] = backupQ[k + 1] /\ k + 1 # 1
  BY <1>0, <1>1, <1>3
<1>5. /\ op.path \in Paths /\ op.page \in Pages
      /\ op.path \in backups \ Range(ackQ) /\ tree[op.path] = op.page /\ op.path \in DOMAIN tree
  <2> DEFINE A == [path : Paths, page : Pages]
  <2>1. op \in A
    <3>1. backupQ \in Seq(A)
      BY <1>3, Zenon
    <3> HIDE DEF A
    <3> QED
      BY <1>4, <3>1
  <2> QED
    BY <1>2, <1>4, <2>1, Zenon DEF HostInv, TreeInv, BackedIn, BackupsAreOnce
<1>6. data[op.page] = op.path
  BY <1>2, <1>5, Zenon DEF DataInv, TreeHoldsItsData
<1>7. ackQ' \in Seq(Paths) /\ Range(ackQ') = Range(ackQ) \cup {op.path}
  <2>1. Append(ackQ, op.path) \in Seq(Paths) /\ Range(Append(ackQ, op.path)) = Range(ackQ) \cup {op.path}
    BY <1>3, <1>5, AppendIs
  <2> QED
    BY <1>1, <2>1, Zenon
<1>8. /\ storage' \in [DOMAIN storage' -> Paths] /\ DOMAIN storage' \subseteq Paths
      /\ DOMAIN storage \subseteq DOMAIN storage' /\ \A p \in DOMAIN storage' : storage'[p] = p
  <2>1. /\ storage \in [DOMAIN storage -> Paths] /\ DOMAIN storage \subseteq Paths
        /\ \A p \in DOMAIN storage : storage[p] = p
    BY <1>2, Zenon DEF Types, DataInv, StorageHoldsItsData
  <2>2. CASE UNCHANGED storage
    BY <2>1, <2>2, Zenon
  <2>3. CASE storage' = [p \in DOMAIN storage \cup {op.path} |-> IF p = op.path THEN data[op.page] ELSE storage[p]]
    <3>1. DOMAIN storage' = DOMAIN storage \cup {op.path}
      BY <2>3, Zenon
    <3>2. \A p \in DOMAIN storage' : storage'[p] = p
      BY <1>6, <2>1, <2>3, Zenon
    <3> QED
      BY <1>5, <2>1, <2>3, <3>1, <3>2, Zenon
  <2> QED
    BY <1>1, <2>2, <2>3, Zenon
<1>9. Types'
  BY <1>1, <1>2, <1>4, <1>7, <1>8, Zenon DEF Types
<1>10. Entries'
  BY <1>1, <1>2, EntriesStay, Zenon
<1>11. Stages'
  <2>1. ASSUME NEW j \in DOMAIN ops' PROVE OperationIsSound(ops[j])'
    BY <1>1, <1>2, <1>8, Zenon DEF OperationIsSound, Stages
  <2> QED
    BY <1>1, <1>2, <2>1, Zenon DEF Stages, QueueOf, IoIsSound, PathAt
<1>12. Ownership'
  BY <1>1, <1>2, HandStays, OwnershipStays, Zenon
<1>13. DataInv'
  BY <1>1, <1>2, <1>8, Zenon DEF DataInv, TreeHoldsItsData, StorageHoldsItsData, EntryData, PathAt
<1>14. HostInv'
  <2>1. HostRefsAreExact'
    BY <1>1, <1>2, Zenon DEF HostInv, HostRefsAreExact, AnchorOf
  <2>2. TreeInv'
    BY <1>1, <1>2, <1>4, Zenon DEF HostInv, TreeInv, ClosedIn, AnchorsIn, BackedIn
  <2>3. /\ Range(ackQ) \subseteq backups
        /\ \A k \in DOMAIN backupQ : backupQ[k].path \in backups \ Range(ackQ)
        /\ \A k, l \in DOMAIN backupQ : backupQ[k].path = backupQ[l].path => k = l
    BY <1>2, Zenon DEF HostInv, BackupsAreOnce
  <2>4. \A k \in DOMAIN backupQ' : backupQ'[k].path \in backups \ Range(ackQ')
    BY <1>4, <1>5, <1>7, <2>3
  <2>5. \A k, l \in DOMAIN backupQ' : backupQ'[k].path = backupQ'[l].path => k = l
    <3>1. ASSUME NEW k \in DOMAIN backupQ', NEW l \in DOMAIN backupQ', backupQ'[k].path = backupQ'[l].path PROVE k = l
      <4>1. k + 1 = l + 1
        BY <1>4, <2>3, <3>1
      <4> QED
        BY <1>4, <4>1
    <3> QED
      BY <3>1, Zenon
  <2> QED
    BY <1>1, <1>5, <1>7, <2>1, <2>2, <2>3, <2>4, <2>5, Zenon DEF HostInv, BackupsAreOnce
<1> QED
  BY <1>9, <1>10, <1>11, <1>12, <1>13, <1>14, Zenon DEF StorageInv

\* A request changes its place.
LEMMA MoveStep ==
  ASSUME StorageInv, NEW r \in Requests, NEW to \in {"new", "waiting", "running", "done"},
         where' = [where EXCEPT ![r] = to], to = "waiting" \/ ongoing[r] = 0,
         UNCHANGED <<hostVars, opVars, threadVars, backupVars>>
  PROVE  StorageInv'
<1> USE DEF StorageInv, hostVars, opVars, threadVars, backupVars
<1>1. Types'
  BY Zenon DEF Types
<1>2. Entries'
  BY DEF Entries, Types
<1>3. Stages'
  BY StagesStay, Zenon
<1>4. Ownership'
  BY Zenon DEF Ownership, Hands, Hand, Counted
<1>5. DataInv'
  BY DataStays, Zenon
<1>6. HostInv'
  BY HostStays, Zenon
<1> QED
  BY <1>1, <1>2, <1>3, <1>4, <1>5, <1>6, Zenon

-----------------------------------------------------------------------------
(* Making room *)

\* The requests whose prefetch refers to node p.
Refs(p) == {r \in Requests : ongoing[r] # 0 /\ AnchorOf(ops[ongoing[r]]) = p}

\* The size of a set with at most one element.
LEMMA OneOf ==
  ASSUME SetFacts, NEW p, NEW S
  PROVE  IsFiniteSet({p} \cap S) /\ Cardinality({p} \cap S) = IF p \in S THEN 1 ELSE 0
<1>1. CASE p \in S
  <2>1. {p} \cap S = {p}
    BY <1>1, Zenon
  <2> QED
    BY <1>1, <2>1, FewAre, Zenon
<1>2. CASE p \notin S
  <2>1. {p} \cap S = {}
    BY <1>2, Zenon
  <2> QED
    BY <1>2, <2>1, FewAre, Zenon
<1> QED
  BY <1>1, <1>2, Zenon

\* The prefetches below a node are finitely many.
LEMMA RefsAre ==
  ASSUME SetFacts, NEW p
  PROVE  /\ IsFiniteSet(Refs(p)) /\ Cardinality(Refs(p)) \in Nat
         /\ \A r \in Refs(p) : Cardinality(Refs(p)) # 0
<1>1. IsFiniteSet(Requests) /\ Refs(p) \in SUBSET Requests
  BY StorageAssumption, Zenon DEF Refs
<1>2. IsFiniteSet(Refs(p))
  BY <1>1, SubsetIs, Zenon
<1>3. Cardinality(Refs(p)) \in Nat /\ Bijection(1..Cardinality(Refs(p)), Refs(p)) # {}
  BY <1>2, CardinalityIs, Zenon
<1>4. ASSUME NEW r \in Refs(p), Cardinality(Refs(p)) = 0 PROVE FALSE
  <2>1. PICK b \in Bijection(1..0, Refs(p)) : TRUE
    BY <1>3, <1>4, Zenon
  <2>2. PICK n \in 1..0 : b[n] = r
    BY <1>4, <2>1, Zenon DEF Bijection, Surjection
  <2> QED
    BY <2>2
<1> QED
  BY <1>2, <1>3, <1>4, Zenon

\* The anchor of an entry is a prefix of its own request's key.
LEMMA AnchorIs ==
  ASSUME StorageInv, NEW r \in Requests, ongoing[r] # 0
  PROVE  /\ ongoing[r] \in DOMAIN ops /\ ops[ongoing[r]].rid = r
         /\ ops[ongoing[r]].base \in 0..Len(Key[r])
         /\ AnchorOf(ops[ongoing[r]]) = Prefix(r, ops[ongoing[r]].base)
         /\ AnchorOf(ops[ongoing[r]]) \in Paths
<1>1. Types /\ Stages /\ ongoing[r] \in DOMAIN ops /\ ops[ongoing[r]].rid = r
  BY Zenon DEF StorageInv, Entries
<1> DEFINE b == ops[ongoing[r]].base l == ops[ongoing[r]].len
<1>2. b \in Nat /\ l \in Nat /\ b + l = Len(Key[r])
  BY <1>1, OpIs, Zenon
<1> HIDE DEF b, l
<1>3. b \in 0..Len(Key[r])
  BY <1>2
<1>4. Prefix(r, b) \in Paths
  BY <1>3, PrefixIs, Zenon
<1> QED
  BY <1>1, <1>3, <1>4, Zenon DEF AnchorOf, b

\* A node that a storage operation refers to is protected.
LEMMA ReferredIsProtected ==
  ASSUME SetFacts, StorageInv
  PROVE  /\ \A p \in backups : hostRef[p] # 0
         /\ \A r \in Requests : ongoing[r] # 0 => hostRef[AnchorOf(ops[ongoing[r]])] # 0
<1>1. \A p \in Paths : hostRef[p] = Cardinality(Refs(p)) + Cardinality({p} \cap backups)
  BY Zenon DEF StorageInv, HostInv, HostRefsAreExact, Refs
<1>2. ASSUME NEW p \in backups PROVE hostRef[p] # 0
  <2>1. p \in Paths
    BY Zenon DEF StorageInv, Types
  <2>2. Cardinality(Refs(p)) \in Nat /\ Cardinality({p} \cap backups) = 1
    BY RefsAre, OneOf, Zenon
  <2> QED
    BY <1>1, <2>1, <2>2
<1>3. ASSUME NEW r \in Requests, ongoing[r] # 0 PROVE hostRef[AnchorOf(ops[ongoing[r]])] # 0
  <2> DEFINE p == AnchorOf(ops[ongoing[r]])
  <2>1. p \in Paths /\ r \in Refs(p)
    BY <1>3, AnchorIs, Zenon DEF Refs
  <2> HIDE DEF p
  <2>2. Cardinality(Refs(p)) \in Nat \ {0}
    BY <2>1, RefsAre, Zenon
  <2>3. Cardinality({p} \cap backups) \in {0, 1}
    BY OneOf, Zenon
  <2>4. hostRef[p] # 0
    BY <1>1, <2>1, <2>2, <2>3
  <2> QED
    BY <2>4, Zenon DEF p
<1> QED
  BY <1>2, <1>3, Zenon

\* t and f can take the place of the tree and the pool.
HostHolds(t, f) ==
    /\ t \in [DOMAIN t -> Pages] /\ DOMAIN t \subseteq Paths \ {<<>>} /\ IsInjective(t)
    /\ f \in Seq(Pages) /\ IsInjective(f)
    /\ Apart(Range(f), Range(releaseQ), Range(t), Hands)
    /\ \A p \in DOMAIN t : data[t[p]] = p
    /\ ClosedIn(t) /\ AnchorsIn(t) /\ BackedIn(t)

\* The current host tier is one the invariant allows.
LEMMA TreeHolds ==
  ASSUME StorageInv
  PROVE  HostHolds(tree, free)
<1>1. Types /\ Ownership /\ DataInv /\ HostInv
  BY Zenon DEF StorageInv
<1>2. ClosedIn(tree) /\ AnchorsIn(tree) /\ BackedIn(tree)
  BY <1>1, Zenon DEF HostInv, TreeInv
<1>3. /\ tree \in [DOMAIN tree -> Pages] /\ DOMAIN tree \subseteq Paths \ {<<>>} /\ free \in Seq(Pages)
  BY <1>1, Zenon DEF Types
<1>4. IsInjective(free) /\ IsInjective(tree) /\ Apart(Range(free), Range(releaseQ), Range(tree), Hands)
  BY <1>1, Zenon DEF Ownership
<1>5. \A p \in DOMAIN tree : data[tree[p]] = p
  BY <1>1, Zenon DEF DataInv, TreeHoldsItsData
<1> QED
  BY <1>2, <1>3, <1>4, <1>5, Zenon DEF HostHolds

\* evict_host takes what no storage operation needs.
LEMMA EvictedHolds ==
  ASSUME SetFacts, StorageInv, NEW n, NEW E \in Evictable(n)
  PROVE  HostHolds(Without(tree, E), free \o Listing({tree[p] : p \in E}))
<1> DEFINE t == Without(tree, E) S == {tree[p] : p \in E} l == Listing(S) f == free \o l
<1>1. HostHolds(tree, free)
  BY TreeHolds, Zenon
<1>2. /\ tree \in [DOMAIN tree -> Pages] /\ DOMAIN tree \subseteq Paths \ {<<>>} /\ IsInjective(tree)
      /\ free \in Seq(Pages) /\ IsInjective(free)
      /\ Apart(Range(free), Range(releaseQ), Range(tree), Hands)
      /\ \A p \in DOMAIN tree : data[tree[p]] = p
  BY <1>1, Zenon DEF HostHolds
<1>3. E \in SUBSET DOMAIN tree /\ \A p \in E : hostRef[p] = 0 /\ \A q \in DOMAIN tree : IsPrefix(p, q) => q \in E
  BY Zenon DEF Evictable
<1>4. DOMAIN t = DOMAIN tree \ E /\ \A p \in DOMAIN t : t[p] = tree[p]
  BY Zenon DEF Without
<1>5. t \in [DOMAIN t -> Pages]
  <2>1. t = [p \in DOMAIN t |-> tree[p]]
    BY <1>4, Zenon DEF Without
  <2> HIDE DEF t
  <2> QED
    BY <1>2, <1>4, <2>1, Zenon
<1>6. S \in SUBSET Pages /\ IsFiniteSet(S)
  <2>1. S \in SUBSET Pages
    BY <1>2, <1>3
  <2>2. IsFiniteSet(Pages)
    BY StorageAssumption, IntervalIs, Zenon DEF Pages
  <2> QED
    BY <2>1, <2>2, SubsetIs, Zenon
<1>7. l \in Seq(Pages) /\ IsInjective(l) /\ Range(l) = S
  <2> HIDE DEF S
  <2>1. l \in Seq(S) /\ IsInjective(l) /\ Range(l) = S
    BY <1>6, ListingIs, Zenon
  <2> HIDE DEF l
  <2> QED
    BY <1>6, <2>1
<1>8. IsInjective(t)
  BY <1>2, <1>4, Zenon DEF IsInjective
<1>9. S \subseteq Range(tree) /\ Range(t) \subseteq Range(tree) /\ S \cap Range(t) = {}
  <2>1. S \subseteq Range(tree) /\ Range(t) \subseteq Range(tree)
    BY <1>3, <1>4, Zenon DEF Range
  <2>2. \A p \in E, q \in DOMAIN t : tree[p] # tree[q]
    BY <1>2, <1>3, <1>4, Zenon DEF IsInjective
  <2>3. \A p \in E, q \in DOMAIN t : tree[p] # t[q]
    BY <1>4, <2>2, Zenon
  <2> QED
    BY <2>1, <2>3, Zenon DEF Range
<1> HIDE DEF t, S, l
<1>10. /\ Range(free) \cap Range(releaseQ) = {} /\ Range(free) \cap Range(tree) = {}
       /\ Range(releaseQ) \cap Range(tree) = {}
  BY <1>2, Zenon DEF Apart
<1>11. f \in Seq(Pages) /\ IsInjective(f) /\ Range(f) = Range(free) \cup S
  <2>1. Range(free) \cap Range(l) = {}
    BY <1>7, <1>9, <1>10, Zenon
  <2> QED
    BY <1>2, <1>7, <2>1, JoinIs
<1> HIDE DEF f
<1>12. Apart(Range(f), Range(releaseQ), Range(t), Hands)
  <2>1. /\ Range(f) \cup Range(releaseQ) \cup Range(t) \subseteq Range(free) \cup Range(releaseQ) \cup Range(tree)
        /\ Range(f) \cap Range(releaseQ) = {} /\ Range(f) \cap Range(t) = {} /\ Range(releaseQ) \cap Range(t) = {}
    BY <1>9, <1>10, <1>11, Zenon
  <2> QED
    BY <1>2, <2>1, Zenon DEF Apart
<1>13. ClosedIn(t)
  <2>1. ASSUME NEW r \in Requests, NEW k \in 1..Len(Key[r]), NEW m \in 1..k, Prefix(r, k) \in DOMAIN t
        PROVE  Prefix(r, m) \in DOMAIN t
    <3>1. Prefix(r, k) \in DOMAIN tree /\ Prefix(r, k) \notin E
      BY <1>4, <2>1, Zenon
    <3>2. Prefix(r, m) \in DOMAIN tree
      BY <1>1, <3>1, Zenon DEF HostHolds, ClosedIn
    <3>3. Len(Key[r]) \in Nat
      BY KeyIs, Zenon
    <3>4. k \in 0..Len(Key[r]) /\ m \in 0..k
      BY <3>3
    <3>5. IsPrefix(Prefix(r, m), Prefix(r, k))
      BY <3>4, PrefixPart, Zenon
    <3> QED
      BY <1>3, <1>4, <3>1, <3>2, <3>5, Zenon
  <2> QED
    BY <2>1, Zenon DEF ClosedIn
<1>14. AnchorsIn(t)
  <2>1. ASSUME NEW r \in Requests, ongoing[r] # 0, NEW k \in 1..ops[ongoing[r]].base
        PROVE  Prefix(r, k) \in DOMAIN t
    <3> DEFINE b == ops[ongoing[r]].base
    <3>1. b \in 0..Len(Key[r]) /\ AnchorOf(ops[ongoing[r]]) = Prefix(r, b)
      BY <2>1, AnchorIs, Zenon
    <3>2. hostRef[Prefix(r, b)] # 0
      BY <2>1, <3>1, ReferredIsProtected, Zenon
    <3>3. \A j \in 1..b : Prefix(r, j) \in DOMAIN tree
      BY <1>1, <2>1, Zenon DEF HostHolds, AnchorsIn
    <3>4. Len(Key[r]) \in Nat
      BY KeyIs, Zenon
    <3>5. b \in 1..b /\ k \in 0..b
      BY <3>1, <3>4
    <3>6. IsPrefix(Prefix(r, k), Prefix(r, b))
      BY <3>1, <3>5, PrefixPart, Zenon
    <3> QED
      BY <1>3, <1>4, <3>2, <3>3, <3>5, <3>6, Zenon
  <2> QED
    BY <2>1, Zenon DEF AnchorsIn
<1>15. BackedIn(t)
  <2>1. \A p \in backups : p \in DOMAIN tree /\ p \notin E
    BY <1>1, <1>3, ReferredIsProtected, Zenon DEF HostHolds, BackedIn
  <2>2. \A k \in DOMAIN backupQ : backupQ[k].path \in backups /\ tree[backupQ[k].path] = backupQ[k].page
    BY <1>1, Zenon DEF StorageInv, HostInv, BackupsAreOnce, HostHolds, BackedIn
  <2> QED
    BY <1>4, <2>1, <2>2, Zenon DEF BackedIn
<1>16. DOMAIN t \subseteq Paths \ {<<>>} /\ \A p \in DOMAIN t : data[t[p]] = p
  BY <1>2, <1>4, Zenon
<1>17. HostHolds(t, f)
  BY <1>5, <1>8, <1>11, <1>12, <1>13, <1>14, <1>15, <1>16, Zenon DEF HostHolds
<1> QED
  BY <1>17, Zenon DEF t, f, l, S

\* So is what alloc leaves, with or without evict_host.
LEMMA RoomHolds ==
  ASSUME SetFacts, StorageInv, NEW n, NEW room \in Rooms(n)
  PROVE  HostHolds(room.tree, room.free) /\ DOMAIN room.tree \subseteq DOMAIN tree
<1>1. CASE room = [tree |-> tree, free |-> free]
  BY <1>1, TreeHolds, Zenon
<1>2. CASE \E E \in Evictable(n) :
              room = [tree |-> Without(tree, E), free |-> free \o Listing({tree[p] : p \in E})]
  <2>1. PICK E \in Evictable(n) :
              room = [tree |-> Without(tree, E), free |-> free \o Listing({tree[p] : p \in E})]
    BY <1>2, Zenon
  <2> DEFINE t == Without(tree, E) f == free \o Listing({tree[p] : p \in E})
  <2>2. HostHolds(t, f) /\ DOMAIN t \subseteq DOMAIN tree
    <3>1. DOMAIN t \subseteq DOMAIN tree
      BY Zenon DEF Without
    <3> QED
      BY <3>1, EvictedHolds, Zenon
  <2>3. room = [tree |-> t, free |-> f]
    BY <2>1, Zenon
  <2> HIDE DEF t, f
  <2>4. room.tree = t /\ room.free = f
    BY <2>3, Zenon
  <2> QED
    BY <2>2, <2>4, Zenon
<1> QED
  BY <1>1, <1>2, Zenon DEF Rooms

\* The entry's pages are in its hand.
LEMMA EntryHand ==
  ASSUME StorageInv, NEW r \in Requests, ongoing[r] # 0, NEW n \in 1..ops[ongoing[r]].held
  PROVE  ops[ongoing[r]].pages[n] \in Hand(ongoing[r]) /\ ongoing[r] \in DOMAIN ops
<1>1. ongoing[r] \in DOMAIN ops /\ ops[ongoing[r]].rid = r
  BY Zenon DEF StorageInv, Entries
<1>2. Counted(ongoing[r]) + 1 = 1
  BY <1>1 DEF Counted
<1> QED
  BY <1>1, <1>2, Zenon DEF Hand

\* The tree and the pool after an eviction.
LEMMA HostReplaced ==
  ASSUME NEW t, NEW f, HostHolds(t, f), tree' = t, free' = f, StorageInv,
         UNCHANGED <<releaseQ, ops, ongoing, data, storage, backups, backupQ, ackQ, hostRef>>
  PROVE  Ownership' /\ DataInv' /\ HostInv'
<1>1. Ownership /\ DataInv /\ HostInv
  BY Zenon DEF StorageInv
<1>2. Hands' = Hands
  BY Zenon DEF Hands, Hand, Counted
<1>3. Ownership'
  BY <1>1, <1>2, Zenon DEF HostHolds, Ownership
<1>4. DataInv'
  BY <1>1, Zenon DEF DataInv, HostHolds, TreeHoldsItsData, StorageHoldsItsData, EntryData, PathAt
<1>5. TreeInv'
  BY Zenon DEF HostHolds, TreeInv, ClosedIn, AnchorsIn, BackedIn
<1>6. HostRefsAreExact' /\ BackupsAreOnce'
  BY <1>1, Zenon DEF HostInv, HostRefsAreExact, BackupsAreOnce, AnchorOf
<1> QED
  BY <1>3, <1>4, <1>5, <1>6, Zenon DEF HostInv

-----------------------------------------------------------------------------
(* Issuing a prefetch and queueing a backup *)

\* A prefetch that was not issued leaves at most an eviction behind.
LEMMA RoomStep ==
  ASSUME StorageInv, NEW r \in Requests, NEW t, NEW f, HostHolds(t, f), tree' = t, free' = f,
         where' = [where EXCEPT ![r] = "waiting"],
         UNCHANGED <<data, hostRef, ops, ongoing, threadVars, backupVars>>
  PROVE  StorageInv'
<1> USE DEF threadVars, backupVars
<1>1. Ownership' /\ DataInv' /\ HostInv'
  BY HostReplaced, Zenon
<1>2. Types /\ Stages /\ Entries
  BY Zenon DEF StorageInv
<1>3. Stages'
  BY <1>2, StagesStay, Zenon
<1>4. Types' /\ Entries'
  BY <1>2 DEF Types, Entries, HostHolds
<1> QED
  BY <1>1, <1>3, <1>4, Zenon DEF StorageInv

\* prefetch_from_storage below a node of t, with pages of f.
LEMMA IssueStep ==
  ASSUME SetFacts, StorageInv, NEW r \in Requests, ongoing[r] = 0,
         where' = [where EXCEPT ![r] = "waiting"],
         NEW base \in 0..Len(Key[r]), NEW room, HostHolds(room.tree, room.free),
         \A m \in 1..base : Prefix(r, m) \in DOMAIN room.tree,
         NEW n \in 0..Len(room.free), n <= Len(Key[r]) - base, Issue(r, base, room, n),
         UNCHANGED <<data, buffer, io, revokeQ, releaseQ, backupVars>>
  PROVE  StorageInv'
<1> USE DEF backupVars
<1>0. PICK t, f : t = room.tree /\ f = room.free
  BY Zenon
<1>00. PICK k : k = Len(ops) + 1
  BY Zenon
<1> DEFINE o == [rid |-> r, base |-> base, len |-> Len(Key[r]) - base,
                 pages |-> SubSeq(f, 1, n), held |-> n,
                 hash |-> 0, completed |-> 0, terminated |-> FALSE, stage |-> "queued"]
           left == SubSeq(f, n + 1, Len(f))
<1>1. /\ ops' = Append(ops, o) /\ ongoing' = [ongoing EXCEPT ![r] = k]
      /\ prefetchQ' = Append(prefetchQ, k) /\ hostRef' = [hostRef EXCEPT ![Prefix(r, base)] = @ + 1]
      /\ free' = left /\ tree' = t
  BY <1>0, <1>00, Zenon DEF Issue, Protect, AnchorOf
<1>2. Types /\ Stages /\ Entries /\ DataInv /\ HostInv
  BY Zenon DEF StorageInv
<1>3. /\ t \in [DOMAIN t -> Pages] /\ DOMAIN t \subseteq Paths \ {<<>>} /\ IsInjective(t)
      /\ f \in Seq(Pages) /\ IsInjective(f) /\ Apart(Range(f), Range(releaseQ), Range(t), Hands)
      /\ \A p \in DOMAIN t : data[t[p]] = p
      /\ ClosedIn(t) /\ AnchorsIn(t) /\ BackedIn(t)
  BY <1>0, Zenon DEF HostHolds
<1>4. Len(f) \in Nat /\ n \in 0..Len(f) /\ n \in Nat /\ n <= Len(f) /\ Len(Key[r]) \in Nat /\ base \in Nat
  <2>1. Len(f) \in Nat
    BY <1>3
  <2>2. n \in 0..Len(f) /\ Len(Key[r]) \in Nat /\ base \in 0..Len(Key[r])
    BY <1>0, KeyIs, Zenon
  <2>3. PICK a, b : a = Len(f) /\ b = Len(Key[r])
    BY Zenon
  <2>4. n \in Nat /\ n <= a /\ base \in Nat
    BY <2>1, <2>2, <2>3
  <2> QED
    BY <2>1, <2>2, <2>3, <2>4, Zenon
<1>5. /\ SubSeq(f, 1, n) \in Seq(Pages) /\ Range(SubSeq(f, 1, n)) = {f[m] : m \in 1..n}
      /\ Len(SubSeq(f, 1, n)) = n /\ IsInjective(SubSeq(f, 1, n))
  <2>1. PICK a \in Nat \ {0} : a = 1
    OBVIOUS
  <2>2. f \in Seq(Pages) /\ IsInjective(f) /\ n \in Nat /\ n <= Len(f)
    BY <1>3, <1>4, Zenon
  <2>3. /\ SubSeq(f, a, n) \in Seq(Pages) /\ Range(SubSeq(f, a, n)) = {f[m] : m \in a..n}
        /\ Len(SubSeq(f, a, n)) = (IF a <= n THEN n - a + 1 ELSE 0) /\ IsInjective(SubSeq(f, a, n))
    BY <2>2, PartIs, SMTT(30)
  <2>4. (IF a <= n THEN n - a + 1 ELSE 0) = n
    BY <1>4, <2>1
  <2> QED
    BY <2>1, <2>3, <2>4, Zenon
<1>6. /\ left \in Seq(Pages) /\ Range(left) = {f[m] : m \in (n + 1)..Len(f)} /\ IsInjective(left)
  <2>1. n + 1 \in Nat \ {0} /\ Len(f) <= Len(f)
    BY <1>4
  <2> QED
    BY <1>3, <1>4, <2>1, PartIs
<1>7. /\ o \in Operation /\ o.rid = r /\ o.base = base /\ o.len = Len(Key[r]) - base /\ o.pages = SubSeq(f, 1, n)
      /\ o.held = n /\ o.completed = 0 /\ o.stage = "queued"
  <2>1. /\ o.rid = r /\ o.base = base /\ o.len = Len(Key[r]) - base /\ o.pages = SubSeq(f, 1, n)
        /\ o.held = n /\ o.completed = 0 /\ o.stage = "queued"
    BY Zenon
  <2>2. o \in Operation
    BY <1>4, <1>5 DEF Operation
  <2> QED
    BY <2>1, <2>2, Zenon
<1> HIDE DEF o, left
<1>8. /\ ops' \in Seq(Operation) /\ k \in Nat \ {0} /\ k \notin DOMAIN ops /\ DOMAIN ops' = DOMAIN ops \cup {k}
      /\ ops'[k] = o /\ \A j \in DOMAIN ops : ops'[j] = ops[j]
  <2>1. ops \in Seq(Operation)
    BY <1>2, Zenon DEF Types
  <2> QED
    BY <1>00, <1>1, <1>7, <2>1
<1>9. /\ ongoing' \in [Requests -> Nat] /\ ongoing'[r] = k /\ \A s \in Requests : s # r => ongoing'[s] = ongoing[s]
  BY <1>1, <1>2, <1>8, Zenon DEF Types
<1>10. \A s \in Requests : ongoing[s] # 0 => ongoing[s] \in DOMAIN ops /\ ops[ongoing[s]].rid = s /\ s # r
  BY <1>2, Zenon DEF Entries
<1>11. Prefix(r, base) \in Paths
  BY PrefixIs, Zenon
<1>12. prefetchQ' \in Seq(Nat) /\ IsInjective(prefetchQ') /\ Range(prefetchQ') = Range(prefetchQ) \cup {k}
  <2>1. prefetchQ \in Seq(Nat) /\ IsInjective(prefetchQ) /\ k \notin Range(prefetchQ)
    BY <1>2, <1>8 DEF Types, Stages, QueueOf, Range
  <2>2. /\ Append(prefetchQ, k) \in Seq(Nat) /\ IsInjective(Append(prefetchQ, k))
        /\ Range(Append(prefetchQ, k)) = Range(prefetchQ) \cup {k}
    BY <1>8, <2>1, AppendIs
  <2> QED
    BY <1>1, <2>2, Zenon
<1>13. hostRef' \in [Paths -> Int] /\ hostRef'[Prefix(r, base)] = hostRef[Prefix(r, base)] + 1
       /\ \A p \in Paths : p # Prefix(r, base) => hostRef'[p] = hostRef[p]
  <2>1. PICK a \in Paths : a = Prefix(r, base)
    BY <1>11, Zenon
  <2>2. hostRef \in [Paths -> Int] /\ hostRef' = [hostRef EXCEPT ![a] = @ + 1]
    BY <1>1, <1>2, <2>1, Zenon DEF Types
  <2>3. hostRef' \in [Paths -> Int] /\ hostRef'[a] = hostRef[a] + 1 /\ \A p \in Paths : p # a => hostRef'[p] = hostRef[p]
    BY <2>2
  <2> QED
    BY <2>1, <2>3, Zenon
<1>14. Types'
  BY <1>1, <1>2, <1>3, <1>6, <1>8, <1>9, <1>12, <1>13, Zenon DEF Types
<1>15. Entries'
  <2>1. where'[r] = "waiting" /\ \A s \in Requests : s # r => where'[s] = where[s]
    BY <1>2, Zenon DEF Types
  <2> QED
    BY <1>2, <1>7, <1>8, <1>9, <2>1 DEF Entries
<1>16. Stages'
  <2>1. OperationIsSound(o)
    BY <1>4, <1>5, <1>7 DEF OperationIsSound
  <2>2. \A j \in DOMAIN ops' : OperationIsSound(ops'[j])
    BY <1>2, <1>8, <2>1, Zenon DEF Stages
  <2>3. ASSUME NEW j \in DOMAIN ops' PROVE OperationIsSound(ops[j])'
    BY <2>2, Zenon DEF OperationIsSound
  <2>4. QueueOf(prefetchQ, "queued")'
    <3>1. \A j \in DOMAIN prefetchQ' : prefetchQ'[j] \in Range(prefetchQ')
      BY Zenon DEF Range
    <3>2. \A j \in Range(prefetchQ) : j \in DOMAIN ops /\ ops[j].stage = "queued"
      BY <1>2, Zenon DEF Stages, QueueOf, Range
    <3>3. \A j \in Range(prefetchQ') : j \in DOMAIN ops' /\ ops'[j].stage = "queued"
      BY <1>7, <1>8, <1>12, <3>2, Zenon
    <3> QED
      BY <1>12, <3>1, <3>3, Zenon DEF QueueOf
  <2>5. QueueOf(buffer, "buffered")'
    BY <1>2, <1>8, Zenon DEF Stages, QueueOf
  <2>6. IoIsSound'
    <3>1. io.step # "idle" => io.op \in DOMAIN ops
      BY <1>2, Zenon DEF Stages, IoIsSound
    <3>2. io.step # "idle" => io.op \in DOMAIN ops' /\ ops'[io.op] = ops[io.op]
      BY <1>8, <3>1, Zenon
    <3> QED
      BY <1>2, <3>2, Zenon DEF Stages, IoIsSound, PathAt
  <2> QED
    BY <2>3, <2>4, <2>5, <2>6, Zenon DEF Stages
<1>17. Ownership'
  <2>1. \A j \in DOMAIN ops : Hand(j)' = Hand(j)
    <3>1. ASSUME NEW j \in DOMAIN ops PROVE Hand(j)' = Hand(j)
      <4>1. ops[j].rid \in Requests /\ j # k /\ j # 0
        BY <1>2, <1>8, OpIs, Zenon
      <4>2. ongoing'[ops[j].rid] = j <=> ongoing[ops[j].rid] = j
        BY <1>9, <4>1, Zenon
      <4>3. Counted(j)' = Counted(j)
        BY <1>8, <4>2, Zenon DEF Counted
      <4> QED
        BY <1>8, <4>3, Zenon DEF Hand
    <3> QED
      BY <3>1, Zenon
  <2>2. Hand(k)' = {f[m] : m \in 1..n}
    <3>1. Counted(k)' + 1 = 1
      <4>1. ongoing'[ops'[k].rid] = k
        BY <1>7, <1>8, <1>9, Zenon
      <4>2. Counted(k)' = 0
        BY <4>1, Zenon DEF Counted
      <4> QED
        BY <4>2
    <3>2. Hand(k)' = {o.pages[m] : m \in (Counted(k)' + 1)..o.held}
      BY <1>8, Zenon DEF Hand
    <3>3. \A m \in 1..n : SubSeq(f, 1, n)[m] = f[m]
      BY <1>3, <1>4
    <3>4. \A m \in 1..n : o.pages[m] = f[m]
      BY <1>7, <3>3, Zenon
    <3>5. Hand(k)' = {o.pages[m] : m \in 1..n}
      BY <1>7, <3>1, <3>2, Zenon
    <3> QED
      BY <3>4, <3>5, Zenon
  <2>3. \A a \in 1..n, b \in (n + 1)..Len(f) : a # b /\ a \in DOMAIN f /\ b \in DOMAIN f
    BY <1>3, <1>4
  <2>4. \A a \in 1..n, b \in (n + 1)..Len(f) : f[a] # f[b]
    BY <1>3, <2>3, Zenon DEF IsInjective
  <2>5. \A a \in 1..n : f[a] \in Range(f)
    BY <1>3, <1>4 DEF Range
  <2>6. \A b \in (n + 1)..Len(f) : f[b] \in Range(f)
    BY <1>3, <1>4 DEF Range
  <2> DEFINE H == Hands H2 == Hands' F == Range(f) F2 == Range(left) R == Range(releaseQ) T == Range(t)
  <2>7. k \notin DOMAIN H /\ DOMAIN H2 = DOMAIN H \cup {k} /\ (\A j \in DOMAIN H : H2[j] = H[j]) /\ H2[k] = Hand(k)'
    BY <1>8, <2>1, Zenon DEF Hands
  <2>8. F2 \cup H2[k] \subseteq F /\ F2 \cap H2[k] = {}
    <3>1. F2 = {f[m] : m \in (n + 1)..Len(f)} /\ H2[k] = {f[m] : m \in 1..n}
      BY <1>6, <2>2, <2>7, Zenon
    <3> HIDE DEF F2, H2, F
    <3>2. F2 \cup H2[k] \subseteq F
      BY <2>5, <2>6, <3>1, Zenon DEF F
    <3>3. ASSUME NEW x \in F2, x \in H2[k] PROVE FALSE
      BY <2>4, <3>1, <3>3
    <3> QED
      BY <3>2, <3>3, Zenon
  <2>9. Apart(F, R, T, H)
    BY <1>3, Zenon
  <2> HIDE DEF H, H2, F, F2, R, T
  <2>10. Apart(F2, R, T, H2)
    BY <2>7, <2>8, <2>9, DealtNew, Zenon
  <2>11. Apart(Range(free'), Range(releaseQ'), Range(tree'), Hands')
    BY <1>1, <2>10, Zenon DEF F2, R, T, H2
  <2>12. IsInjective(free') /\ IsInjective(tree') /\ IsInjective(releaseQ')
    BY <1>1, <1>3, <1>6, Zenon DEF StorageInv, Ownership
  <2> QED
    BY <2>11, <2>12, Zenon DEF Ownership
<1>18. DataInv'
  <2>1. TreeHoldsItsData' /\ StorageHoldsItsData'
    BY <1>1, <1>2, <1>3, Zenon DEF DataInv, TreeHoldsItsData, StorageHoldsItsData
  <2>2. ASSUME NEW s \in Requests, ongoing'[s] # 0, NEW m \in 1..ops'[ongoing'[s]].completed
        PROVE  data[ops'[ongoing'[s]].pages[m]] = PathAt(ops'[ongoing'[s]], m)
    <3>1. s # r
      <4>1. s = r => m \in 1..0
        BY <1>7, <1>8, <1>9, Zenon
      <4> QED
        BY <4>1
    <3>2. ongoing'[s] = ongoing[s] /\ ongoing[s] # 0 /\ ops'[ongoing'[s]] = ops[ongoing[s]]
      BY <1>8, <1>9, <1>10, <2>2, <3>1, Zenon
    <3> QED
      BY <1>2, <2>2, <3>2, Zenon DEF DataInv, EntryData
  <2>3. EntryData'
    BY <2>2, Zenon DEF EntryData, PathAt
  <2> QED
    BY <2>1, <2>3, Zenon DEF DataInv
<1>19. HostInv'
  <2>1. TreeInv'
    <3>1. ClosedIn(t)' /\ BackedIn(t)'
      BY <1>3, Zenon DEF ClosedIn, BackedIn
    <3>2. \A s \in Requests : ongoing'[s] # 0 => \A m \in 1..ops'[ongoing'[s]].base : Prefix(s, m) \in DOMAIN t
      <4> SUFFICES ASSUME NEW s \in Requests, ongoing'[s] # 0, NEW m \in 1..ops'[ongoing'[s]].base
                   PROVE  Prefix(s, m) \in DOMAIN t
        BY Zenon
      <4>1. CASE s = r
        <5>1. ops'[ongoing'[s]].base = base
          BY <1>7, <1>8, <1>9, <4>1, Zenon
        <5> QED
          BY <1>0, <4>1, <5>1
      <4>2. CASE s # r
        <5>1. ongoing'[s] = ongoing[s] /\ ongoing[s] \in DOMAIN ops
          BY <1>9, <1>10, <4>2, Zenon
        <5>2. ops'[ongoing'[s]].base = ops[ongoing[s]].base /\ ongoing[s] # 0
          BY <1>8, <5>1, Zenon
        <5> QED
          BY <1>3, <5>2, Zenon DEF AnchorsIn
      <4> QED
        BY <4>1, <4>2, Zenon
    <3> QED
      BY <1>1, <3>1, <3>2, Zenon DEF TreeInv, AnchorsIn, ClosedIn, BackedIn
  <2>2. BackupsAreOnce'
    BY <1>2, Zenon DEF HostInv, BackupsAreOnce
  <2>3. ASSUME NEW p \in Paths
        PROVE  hostRef'[p] = Cardinality(Refs(p)') + Cardinality({p} \cap backups)
    <3> DEFINE A == Refs(p) B == Refs(p)'
    <3>1. \A s \in Requests : s # r => (s \in B <=> s \in A)
      BY <1>8, <1>9, <1>10 DEF Refs, AnchorOf
    <3>2. r \notin A /\ (r \in B <=> Prefix(r, base) = p)
      BY <1>7, <1>8, <1>9, Zenon DEF Refs, AnchorOf
    <3>3. A \subseteq Requests /\ B \subseteq Requests
      BY Zenon DEF Refs
    <3>4. hostRef[p] = Cardinality(A) + Cardinality({p} \cap backups)
      BY <1>2, Zenon DEF HostInv, HostRefsAreExact, Refs
    <3>5. IsFiniteSet(A) /\ Cardinality(A) \in Nat /\ Cardinality({p} \cap backups) \in {0, 1}
      BY RefsAre, OneOf, Zenon
    <3> HIDE DEF A, B
    <3>6. CASE Prefix(r, base) = p
      <4>1. B = A \cup {r}
        BY <3>1, <3>2, <3>3, <3>6, Zenon
      <4>2. Cardinality(A \cup {r}) = Cardinality(A) + 1
        BY <3>2, <3>5, ElementIs, Zenon
      <4>3. hostRef'[p] = hostRef[p] + 1
        BY <1>13, <3>6, Zenon
      <4>4. hostRef'[p] = Cardinality(B) + Cardinality({p} \cap backups)
        BY <3>4, <3>5, <4>1, <4>2, <4>3
      <4> QED
        BY <4>4, Zenon DEF B
    <3>7. CASE Prefix(r, base) # p
      <4>0. r \notin A /\ r \notin B
        BY <3>2, <3>7, Zenon
      <4>1. B = A
        <5>1. ASSUME NEW s \in B PROVE s \in A
          BY <3>1, <3>3, <4>0, Zenon
        <5>2. ASSUME NEW s \in A PROVE s \in B
          BY <3>1, <3>3, <4>0, Zenon
        <5> QED
          BY <5>1, <5>2, Zenon
      <4>2. hostRef'[p] = Cardinality(B) + Cardinality({p} \cap backups)
        BY <1>13, <3>4, <3>7, <4>1, Zenon
      <4> QED
        BY <4>2, Zenon DEF B
    <3> QED
      BY <3>6, <3>7, Zenon
  <2>4. HostRefsAreExact'
    BY <2>3, Zenon DEF HostRefsAreExact, Refs
  <2> QED
    BY <2>1, <2>2, <2>4, Zenon DEF HostInv
<1> QED
  BY <1>14, <1>15, <1>16, <1>17, <1>18, <1>19, Zenon DEF StorageInv

\* _add_request_to_queue, with its prefetch_from_storage.
LEMMA AddRequestStep ==
  ASSUME SetFacts, StorageInv, NEW r \in Requests, AddRequestToQueue(r)
  PROVE  StorageInv'
<1> DEFINE base == Matched(tree, r) need == Len(Key[r]) - base
<1>1. /\ where[r] # "waiting" /\ where' = [where EXCEPT ![r] = "waiting"] /\ PrefetchFromStorage(r)
      /\ UNCHANGED <<data, buffer, io, revokeQ, releaseQ, backupVars>>
  BY Zenon DEF AddRequestToQueue
<1>2. ongoing[r] = 0
  BY <1>1, Zenon DEF StorageInv, Entries
<1>3. ClosedIn(tree) /\ Len(Key[r]) \in Nat
  BY KeyIs, Zenon DEF StorageInv, HostInv, TreeInv
<1>4. base \in 0..Len(Key[r]) /\ \A m \in 1..Len(Key[r]) : Prefix(r, m) \in DOMAIN tree <=> m <= base
  BY <1>3, MatchedIs, Zenon
<1> HIDE DEF base
<1>5. CASE UNCHANGED <<tree, free, hostRef, opVars, prefetchQ>>
  BY <1>1, <1>5, MoveStep, Zenon DEF hostVars, threadVars
<1>6. ASSUME NEW room \in Rooms(need),
             \A p \in DOMAIN tree : IsPrefix(p, Prefix(r, base)) => p \in DOMAIN room.tree,
             NEW n, n = (IF need <= Len(room.free) THEN need ELSE Len(room.free)),
             \/ Issue(r, base, room, n)
             \/ tree' = room.tree /\ free' = room.free /\ UNCHANGED <<hostRef, opVars, prefetchQ>>
      PROVE  StorageInv'
  <2>1. HostHolds(room.tree, room.free)
    BY RoomHolds, Zenon
  <2>2. CASE tree' = room.tree /\ free' = room.free /\ UNCHANGED <<hostRef, opVars, prefetchQ>>
    BY <1>1, <2>1, <2>2, RoomStep, Zenon DEF opVars, threadVars
  <2>3. CASE Issue(r, base, room, n)
    <3>1. Len(room.free) \in Nat
      BY <2>1 DEF HostHolds
    <3>2. n \in 0..Len(room.free) /\ n <= Len(Key[r]) - base
      BY <1>3, <1>4, <1>6, <3>1
    <3>3. ASSUME NEW m \in 1..base PROVE Prefix(r, m) \in DOMAIN room.tree
      <4>1. m \in 1..Len(Key[r]) /\ m <= base /\ m \in 0..base
        BY <1>3, <1>4
      <4>2. Prefix(r, m) \in DOMAIN tree
        BY <1>4, <4>1, Zenon
      <4>3. IsPrefix(Prefix(r, m), Prefix(r, base))
        BY <1>4, <4>1, PrefixPart, Zenon
      <4> QED
        BY <1>6, <4>2, <4>3, Zenon
    <3> QED
      BY <1>1, <1>2, <1>4, <2>1, <2>3, <3>2, <3>3, IssueStep, Zenon
  <2> QED
    BY <1>6, <2>2, <2>3, Zenon
<1> QED
  BY <1>1, <1>5, <1>6, Zenon DEF PrefetchFromStorage, base

\* write_backup of one node and its write_backup_storage.
LEMMA WriteBackupStep ==
  ASSUME SetFacts, StorageInv, NEW r \in Requests, WriteBackup(r)
  PROVE  StorageInv'
<1>0. PICK M, p : M = Matched(tree, r) /\ p = Prefix(r, M + 1)
  BY Zenon
<1>1. /\ M < Len(Key[r]) /\ hostRef' = [hostRef EXCEPT ![p] = @ + 1]
      /\ backupQ' = Append(backupQ, [path |-> p, page |-> tree'[p]]) /\ backups' = backups \cup {p}
      /\ UNCHANGED <<where, ops, ongoing, prefetchQ, buffer, io, revokeQ, releaseQ, storage, ackQ>>
  BY <1>0, Zenon DEF WriteBackup, Protect, reqVars, opVars, threadVars
<1>2. PICK room \in Rooms(1) :
          /\ \A q \in DOMAIN tree : IsPrefix(q, p) => q \in DOMAIN room.tree
          /\ room.free # <<>>
          /\ tree' = [q \in DOMAIN room.tree \cup {p} |-> IF q = p THEN Head(room.free) ELSE room.tree[q]]
          /\ free' = Tail(room.free)
          /\ data' = [data EXCEPT ![Head(room.free)] = p]
  BY <1>0, Zenon DEF WriteBackup
<1>3. PICK t, f : t = room.tree /\ f = room.free
  BY Zenon
<1>4. PICK g : g = Head(f)
  BY Zenon
<1>5. /\ \A q \in DOMAIN tree : IsPrefix(q, p) => q \in DOMAIN t
      /\ f # <<>> /\ tree' = [q \in DOMAIN t \cup {p} |-> IF q = p THEN g ELSE t[q]]
      /\ free' = Tail(f) /\ data' = [data EXCEPT ![g] = p] /\ HostHolds(t, f) /\ DOMAIN t \subseteq DOMAIN tree
  BY <1>2, <1>3, <1>4, RoomHolds, Zenon
<1>6. Types /\ Stages /\ Entries /\ DataInv /\ HostInv /\ Ownership
  BY Zenon DEF StorageInv
<1>7. /\ t \in [DOMAIN t -> Pages] /\ DOMAIN t \subseteq Paths \ {<<>>} /\ IsInjective(t)
      /\ f \in Seq(Pages) /\ IsInjective(f) /\ Apart(Range(f), Range(releaseQ), Range(t), Hands)
      /\ \A q \in DOMAIN t : data[t[q]] = q
      /\ ClosedIn(t) /\ AnchorsIn(t) /\ BackedIn(t)
  BY <1>5, Zenon DEF HostHolds
<1>8. Len(Key[r]) \in Nat /\ ClosedIn(tree)
  BY <1>6, KeyIs, Zenon DEF HostInv, TreeInv
<1>9. M \in 0..Len(Key[r]) /\ \A n \in 1..Len(Key[r]) : Prefix(r, n) \in DOMAIN tree <=> n <= M
  BY <1>0, <1>8, MatchedIs, Zenon
<1>10. M + 1 \in 1..Len(Key[r]) /\ M + 1 \in 0..Len(Key[r]) /\ M + 1 # 0 /\ ~ (M + 1 <= M)
  BY <1>1, <1>8, <1>9
<1>11. p \in Paths \ {<<>>} /\ p \notin DOMAIN tree /\ p \notin DOMAIN t
  <2>1. p \in Paths /\ p # <<>>
    BY <1>0, <1>10, PrefixIs, Zenon
  <2>2. p \notin DOMAIN tree
    BY <1>0, <1>9, <1>10, Zenon
  <2> QED
    BY <1>5, <2>1, <2>2, Zenon
<1>12. /\ Tail(f) \in Seq(Pages) /\ g \in Pages /\ Range(f) = Range(Tail(f)) \cup {g}
       /\ IsInjective(Tail(f)) /\ g \notin Range(Tail(f))
  <2>1. f \in Seq(Pages) /\ f # <<>> /\ IsInjective(f)
    BY <1>5, <1>7, Zenon
  <2> QED
    BY <1>4, <2>1, TailIs, Zenon
<1>13. /\ DOMAIN tree' = DOMAIN t \cup {p} /\ tree'[p] = g /\ (\A q \in DOMAIN t : tree'[q] = t[q])
       /\ tree' \in [DOMAIN tree' -> Pages]
  <2>1. /\ DOMAIN tree' = DOMAIN t \cup {p} /\ tree'[p] = g /\ \A q \in DOMAIN t : tree'[q] = t[q]
    BY <1>5, <1>11, Zenon
  <2>2. tree' = [q \in DOMAIN tree' |-> tree'[q]]
    BY <1>5, <2>1, Zenon
  <2>3. \A q \in DOMAIN tree' : tree'[q] \in Pages
    BY <1>7, <1>12, <2>1, Zenon
  <2> QED
    BY <2>1, <2>2, <2>3, Zenon
<1>14. /\ data' \in [Pages -> Paths] /\ data'[g] = p /\ \A x \in Pages : x # g => data'[x] = data[x]
  <2>1. data \in [Pages -> Paths] /\ data' = [data EXCEPT ![g] = p]
    BY <1>5, <1>6, Zenon DEF Types
  <2> QED
    BY <1>11, <1>12, <2>1, Zenon
<1>15. hostRef' \in [Paths -> Int] /\ hostRef'[p] = hostRef[p] + 1 /\ \A q \in Paths : q # p => hostRef'[q] = hostRef[q]
  <2>1. hostRef \in [Paths -> Int] /\ p \in Paths
    BY <1>6, <1>11, Zenon DEF Types
  <2> QED
    BY <1>1, <2>1
<1>16. Range(tree') = Range(t) \cup {g} /\ g \notin Range(t) /\ g \notin Range(releaseQ)
       /\ \A i \in DOMAIN ops : g \notin Hand(i)
  <2>1. Range(tree') = Range(t) \cup {g}
    BY <1>13 DEF Range
  <2>2. g \in Range(f)
    BY <1>12, Zenon
  <2>3. g \notin Range(t) /\ g \notin Range(releaseQ) /\ \A i \in DOMAIN Hands : g \notin Hands[i]
    BY <1>7, <2>2, Zenon DEF Apart
  <2> QED
    BY <2>1, <2>3, Zenon DEF Hands
<1>17. backupQ' \in Seq([path : Paths, page : Pages])
       /\ Len(backupQ) \in Nat /\ DOMAIN backupQ = 1..Len(backupQ) /\ DOMAIN backupQ' = 1..(Len(backupQ) + 1)
       /\ (\A k \in DOMAIN backupQ : backupQ'[k] = backupQ[k]) /\ backupQ'[Len(backupQ) + 1] = [path |-> p, page |-> g]
  <2> DEFINE A == [path : Paths, page : Pages] e == [path |-> p, page |-> g]
  <2>1. backupQ \in Seq(A) /\ e \in A /\ backupQ' = Append(backupQ, e)
    BY <1>1, <1>6, <1>11, <1>12, <1>13, Zenon DEF Types
  <2> HIDE DEF A, e
  <2>2. /\ backupQ' \in Seq(A) /\ Len(backupQ) \in Nat /\ DOMAIN backupQ = 1..Len(backupQ)
        /\ DOMAIN backupQ' = 1..(Len(backupQ) + 1)
        /\ (\A k \in DOMAIN backupQ : backupQ'[k] = backupQ[k]) /\ backupQ'[Len(backupQ) + 1] = e
    BY <2>1
  <2> QED
    BY <2>2, Zenon DEF A, e
<1>18. Types'
  <2>1. free' \in Seq(Pages)
    BY <1>5, <1>12, Zenon
  <2>2. DOMAIN tree' \subseteq Paths \ {<<>>} /\ tree' \in [DOMAIN tree' -> Pages]
    BY <1>7, <1>11, <1>13, Zenon
  <2>3. backups' \in SUBSET Paths
    BY <1>1, <1>6, <1>11, Zenon DEF Types
  <2>4. backupQ' \in Seq([path : Paths, page : Pages])
    BY <1>17, Zenon
  <2>5. data' \in [Pages -> Paths] /\ hostRef' \in [Paths -> Int]
    BY <1>14, <1>15, Zenon
  <2> QED
    BY <1>1, <1>6, <2>1, <2>2, <2>3, <2>4, <2>5, Zenon DEF Types
<1>19. Entries'
  BY <1>1, <1>6, EntriesStay, Zenon
<1>20. Stages'
  <2>1. ASSUME NEW j \in DOMAIN ops' PROVE OperationIsSound(ops[j])'
    BY <1>1, <1>6, Zenon DEF OperationIsSound, Stages
  <2>2. QueueOf(prefetchQ, "queued")' /\ QueueOf(buffer, "buffered")'
    BY <1>1, <1>6, Zenon DEF Stages, QueueOf
  <2>3. IoIsSound
    BY <1>6, Zenon DEF Stages
  <2>4. ASSUME io.step = "count" PROVE data'[ops[io.op].pages[io.next]] = data[ops[io.op].pages[io.next]]
    <3>1. io.op \in DOMAIN ops /\ io.next = ops[io.op].completed + 1 /\ io.next <= ops[io.op].held
      BY <2>3, <2>4, Zenon DEF IoIsSound
    <3>2. ops[io.op].completed \in Nat /\ ops[io.op].held \in Nat
      BY <1>6, <3>1, OpIs, Zenon
    <3>3. io.next \in (ops[io.op].completed + 1)..ops[io.op].held
      BY <3>1, <3>2
    <3>4. ops[io.op].pages[io.next] \in Hand(io.op) /\ ops[io.op].pages[io.next] \in Pages
      BY <1>6, <3>1, <3>3, HandHas, Zenon
    <3> QED
      BY <1>14, <1>16, <3>1, <3>4, Zenon
  <2>5. IoIsSound'
    BY <1>1, <2>3, <2>4, Zenon DEF IoIsSound, PathAt
  <2> QED
    BY <2>1, <2>2, <2>5, Zenon DEF Stages
<1>21. Ownership'
  <2>1. Hands' = Hands
    BY <1>1, Zenon DEF Hands, Hand, Counted
  <2>2. Apart(Range(Tail(f)), Range(releaseQ), Range(t) \cup {g}, Hands)
    <3> DEFINE F == Range(f) F2 == Range(Tail(f)) R == Range(releaseQ) T == Range(t)
    <3>1. Apart(F, R, T, Hands) /\ F = F2 \cup {g} /\ g \notin F2
      BY <1>7, <1>12, Zenon
    <3> HIDE DEF F, F2, R, T
    <3> QED
      BY <3>1, Zenon DEF Apart, F2, R, T
  <2>3. IsInjective(tree')
    <3>1. \A q \in DOMAIN t : t[q] # g
      BY <1>16, Zenon DEF Range
    <3> QED
      BY <1>7, <1>13, <3>1 DEF IsInjective
  <2>4. IsInjective(free') /\ IsInjective(releaseQ')
    BY <1>1, <1>5, <1>6, <1>12, Zenon DEF Ownership
  <2>5. Apart(Range(free'), Range(releaseQ'), Range(tree'), Hands')
    BY <1>1, <1>5, <1>16, <2>1, <2>2, Zenon
  <2> QED
    BY <2>3, <2>4, <2>5, Zenon DEF Ownership
<1>22. DataInv'
  <2>1. TreeHoldsItsData'
    <3>1. \A q \in DOMAIN t : t[q] # g /\ t[q] \in Pages
      BY <1>7, <1>16, Zenon DEF Range
    <3>2. \A q \in DOMAIN t : data'[tree'[q]] = q
      BY <1>7, <1>13, <1>14, <3>1, Zenon
    <3> QED
      BY <1>13, <1>14, <3>2, Zenon DEF TreeHoldsItsData
  <2>2. StorageHoldsItsData'
    BY <1>1, <1>6, Zenon DEF DataInv, StorageHoldsItsData
  <2>3. ASSUME NEW s \in Requests, ongoing[s] # 0, NEW n \in 1..ops[ongoing[s]].completed
        PROVE  data'[ops[ongoing[s]].pages[n]] = PathAt(ops[ongoing[s]], n)
    <3>1. ongoing[s] \in DOMAIN ops
      BY <1>6, <2>3, Zenon DEF Entries
    <3>2. /\ ops[ongoing[s]].completed \in Nat /\ ops[ongoing[s]].held \in Nat
          /\ ops[ongoing[s]].completed <= ops[ongoing[s]].held
          /\ ops[ongoing[s]].held <= Len(ops[ongoing[s]].pages) /\ ops[ongoing[s]].pages \in Seq(Pages)
      BY <1>6, <3>1, OpIs, Zenon
    <3>3. n \in 1..ops[ongoing[s]].held /\ ops[ongoing[s]].pages[n] \in Pages
      BY <3>2
    <3>4. ops[ongoing[s]].pages[n] \in Hand(ongoing[s])
      BY <2>3, <3>3, EntryHand, Zenon
    <3>5. data[ops[ongoing[s]].pages[n]] = PathAt(ops[ongoing[s]], n)
      BY <1>6, <2>3, Zenon DEF DataInv, EntryData
    <3> QED
      BY <1>14, <1>16, <3>1, <3>3, <3>4, <3>5, Zenon
  <2>4. EntryData'
    BY <1>1, <2>3, Zenon DEF EntryData, PathAt
  <2> QED
    BY <2>1, <2>2, <2>4, Zenon DEF DataInv
<1>23. backups \subseteq DOMAIN t /\ p \notin backups
       /\ \A k \in DOMAIN backupQ : t[backupQ[k].path] = backupQ[k].page /\ backupQ[k].path \in backups \ Range(ackQ)
  BY <1>6, <1>7, <1>11, Zenon DEF BackedIn, HostInv, BackupsAreOnce
<1>24. \A k \in DOMAIN backupQ' : k \in DOMAIN backupQ \/ k = Len(backupQ) + 1
  BY <1>17
<1>25. TreeInv'
  <2>1. ClosedIn(tree')
    <3>1. ASSUME NEW s \in Requests, NEW n \in 1..Len(Key[s]), NEW m \in 1..n, Prefix(s, n) \in DOMAIN tree'
          PROVE  Prefix(s, m) \in DOMAIN tree'
      <4>1. CASE Prefix(s, n) \in DOMAIN t
        BY <1>7, <1>13, <4>1, Zenon DEF ClosedIn
      <4>2. CASE Prefix(s, n) = p
        <5>1. Len(Key[s]) \in Nat
          BY KeyIs, Zenon
        <5>2. n \in 0..Len(Key[s]) /\ m \in 0..n
          BY <5>1
        <5>3. Prefix(s, n) = Prefix(r, M + 1)
          BY <1>0, <4>2, Zenon
        <5>4. n = M + 1 /\ \A i \in 0..n : Prefix(s, i) = Prefix(r, i)
          BY <1>10, <5>2, <5>3, SamePrefix
        <5>5. Prefix(s, m) = Prefix(r, m)
          BY <5>2, <5>4, Zenon
        <5>6. CASE m = n
          BY <1>13, <4>2, <5>6, Zenon
        <5>7. CASE m # n
          <6>1. m \in 1..Len(Key[r]) /\ m <= M /\ m \in 0..(M + 1)
            BY <1>8, <1>9, <1>10, <5>2, <5>4, <5>7
          <6>2. Prefix(r, m) \in DOMAIN tree
            BY <1>9, <6>1, Zenon
          <6>3. IsPrefix(Prefix(r, m), p)
            BY <1>0, <1>10, <6>1, PrefixPart, Zenon
          <6> QED
            BY <1>5, <1>13, <5>5, <6>2, <6>3, Zenon
        <5> QED
          BY <5>6, <5>7, Zenon
      <4> QED
        BY <1>13, <3>1, <4>1, <4>2, Zenon
    <3> QED
      BY <3>1, Zenon DEF ClosedIn
  <2>2. \A s \in Requests : ongoing[s] # 0 => \A n \in 1..ops[ongoing[s]].base : Prefix(s, n) \in DOMAIN tree'
    BY <1>7, <1>13, Zenon DEF AnchorsIn
  <2>3. backups' \subseteq DOMAIN tree'
    BY <1>1, <1>13, <1>23, Zenon
  <2>4. ASSUME NEW k \in DOMAIN backupQ' PROVE tree'[backupQ'[k].path] = backupQ'[k].page
    <3>1. CASE k \in DOMAIN backupQ
      BY <1>13, <1>17, <1>23, <3>1
    <3>2. CASE k = Len(backupQ) + 1
      BY <1>13, <1>17, <3>2
    <3> QED
      BY <1>24, <3>1, <3>2, Zenon
  <2> QED
    BY <1>1, <2>1, <2>2, <2>3, <2>4, Zenon DEF TreeInv, ClosedIn, AnchorsIn, BackedIn
<1>26. BackupsAreOnce'
  <2>1. /\ Range(ackQ) \subseteq backups
        /\ \A k, l \in DOMAIN backupQ : backupQ[k].path = backupQ[l].path => k = l
    BY <1>6, Zenon DEF HostInv, BackupsAreOnce
  <2>2. \A k \in DOMAIN backupQ : backupQ'[k].path = backupQ[k].path /\ backupQ[k].path # p
    BY <1>17, <1>23, Zenon
  <2>3. backupQ'[Len(backupQ) + 1].path = p
    BY <1>17
  <2>4. \A k \in DOMAIN backupQ' : backupQ'[k].path \in backups' \ Range(ackQ)
    BY <1>1, <1>23, <1>24, <2>1, <2>2, <2>3, Zenon
  <2>5. \A k, l \in DOMAIN backupQ' : backupQ'[k].path = backupQ'[l].path => k = l
    BY <1>24, <2>1, <2>2, <2>3, Zenon
  <2> QED
    BY <1>1, <2>1, <2>4, <2>5, Zenon DEF BackupsAreOnce
<1>27. HostRefsAreExact'
  <2>1. ASSUME NEW q \in Paths PROVE hostRef'[q] = Cardinality(Refs(q)') + Cardinality({q} \cap backups')
    <3>1. Refs(q)' = Refs(q)
      BY <1>1, Zenon DEF Refs, AnchorOf
    <3>2. hostRef[q] = Cardinality(Refs(q)) + Cardinality({q} \cap backups)
      BY <1>6, Zenon DEF HostInv, HostRefsAreExact, Refs
    <3>3. Cardinality(Refs(q)) \in Nat
      BY RefsAre, Zenon
    <3>4. Cardinality({q} \cap backups) = IF q \in backups THEN 1 ELSE 0
      BY OneOf, Zenon
    <3>5. Cardinality({q} \cap backups') = IF q \in backups' THEN 1 ELSE 0
      BY OneOf, Zenon
    <3>6. CASE q = p
      BY <1>1, <1>15, <1>23, <3>1, <3>2, <3>3, <3>4, <3>5, <3>6
    <3>7. CASE q # p
      BY <1>1, <1>15, <3>1, <3>2, <3>3, <3>4, <3>5, <3>7, Zenon
    <3> QED
      BY <3>6, <3>7, Zenon
  <2> QED
    BY <2>1, Zenon DEF HostRefsAreExact, Refs
<1> QED
  BY <1>18, <1>19, <1>20, <1>21, <1>22, <1>25, <1>26, <1>27, Zenon DEF StorageInv, HostInv
=============================================================================
