---------------------------- MODULE Lists_proofs ----------------------------
(***************************************************************************)
(* Facts about sequences that the other proofs use, and proofs about       *)
(* ListBytes, for lists of any length and members of any length.           *)
(*                                                                         *)
(* Induction is over sets of naturals: what is to be shown of all is that  *)
(* the set of those that have it is closed.                                *)
(***************************************************************************)
EXTENDS ListBytes, SequenceTheorems, FiniteSetTheorems, WellFoundedInduction, TLAPS

\* Every set of naturals that is not empty has a least element.
LEMMA LeastNat ==
  ASSUME NEW T, T \subseteq Nat, T # {}
  PROVE  \E m \in T : \A k \in T : m <= k
<1> DEFINE Below == {0 .. k : k \in T}
<1>1. Below \subseteq FiniteSubsetsOf(Nat)
  <2> SUFFICES ASSUME NEW k \in T  PROVE 0 .. k \in FiniteSubsetsOf(Nat)
    OBVIOUS
  <2>1. IsFiniteSet(0 .. k)
    BY FS_Interval
  <2> QED  BY <2>1 DEF FiniteSubsetsOf
<1>2. PICK B \in Below : \A C \in Below : <<C, B>> \notin StrictSubsetOrdering(Nat)
  <2>1. Below # {}
    OBVIOUS
  <2> HIDE DEF Below
  <2> QED  BY <1>1, <2>1, WFMin, FS_StrictSubsetOrderingWellFounded
<1>3. PICK m \in T : B = 0 .. m
  OBVIOUS
<1>4. ASSUME NEW k \in T, k < m  PROVE FALSE
  <2>1. 0 .. k \in Below
    OBVIOUS
  <2>2. /\ 0 .. k \subseteq 0 .. m /\ 0 .. k # 0 .. m
        /\ 0 .. k \subseteq Nat /\ 0 .. m \subseteq Nat
    BY <1>4
  <2>3. <<0 .. k, B>> \in StrictSubsetOrdering(Nat)
    BY <1>3, <2>2 DEF StrictSubsetOrdering
  <2> QED  BY <1>2, <2>1, <2>3
<1> QED  BY <1>4

\* A set of naturals with 0 and the successor of each of its members has all.
LEMMA Induct ==
  ASSUME NEW T, 0 \in T, \A n \in Nat : n \in T => n + 1 \in T
  PROVE  \A n \in Nat : n \in T
<1> DEFINE U == {n \in Nat : n \notin T}
<1> SUFFICES ASSUME U # {}  PROVE FALSE
  OBVIOUS
<1>1. PICK m \in U : \A k \in U : m <= k
  <2>1. U \subseteq Nat
    OBVIOUS
  <2> HIDE DEF U
  <2> QED  BY <2>1, LeastNat
<1>2. m - 1 \in Nat /\ m - 1 \notin U
  BY <1>1
<1> QED  BY <1>2

\* What a number has when all greater ones have it, and all from some on
\* have it, all have.
LEMMA InductDown ==
  ASSUME NEW T, NEW N \in Nat,
         \A i \in Nat : i > N => i \in T,
         \A i \in Nat : i <= N /\ (\A j \in Nat : j > i => j \in T) => i \in T
  PROVE  \A i \in Nat : i \in T
<1> DEFINE U == {d \in Nat : d <= N /\ N - d \notin T}
<1> SUFFICES ASSUME NEW i \in Nat, i \notin T  PROVE FALSE
  OBVIOUS
<1>1. i <= N /\ N - i \in Nat
  OBVIOUS
<1>2. N - (N - i) = i
  OBVIOUS
<1>3. N - i \in U
  BY <1>1, <1>2
<1>4. PICK d \in U : \A k \in U : d <= k
  <2>1. U \subseteq Nat
    OBVIOUS
  <2> HIDE DEF U
  <2> QED  BY <1>3, <2>1, LeastNat
<1>5. PICK m \in Nat : m = N - d
  OBVIOUS
<1>6. m <= N /\ m \notin T
  BY <1>5
<1>7. PICK j \in Nat : j > m /\ j \notin T
  BY <1>6
<1>8. j <= N /\ N - j \in Nat /\ N - (N - j) = j
  BY <1>7
<1>9. N - j \in U
  BY <1>7, <1>8
<1>10. d <= N - j
  BY <1>4, <1>9
<1> QED  BY <1>5, <1>7, <1>8, <1>10

\* A sequence that is put together from its end: a recursive function whose
\* calls move on towards N exists.
Chained(f, N, first, next) ==
    \A i \in Nat : f[i] = IF i \in 1 .. N THEN <<first[i]>> \o f[next[i]] ELSE <<>>

LEMMA ChainExists ==
  ASSUME NEW S, NEW N \in Nat, NEW first \in [1 .. N -> S], NEW next \in [1 .. N -> Nat],
         \A i \in 1 .. N : next[i] > i
  PROVE  \E f \in [Nat -> Seq(S)] : Chained(f, N, first, next)
<1> DEFINE Turn(f, i) == IF i \in 1 .. N THEN <<first[i]>> \o f[next[i]] ELSE <<>>
           Above(f, m) == f \in [Nat -> Seq(S)] /\ \A i \in Nat : i >= m => f[i] = Turn(f, i)
           Has(m) == \E f : Above(f, m)
           T == {m \in Nat : Has(m)}
<1>1. ASSUME NEW m \in Nat, m > N  PROVE m \in T
  <2>1. Above([i \in Nat |-> <<>>], m)
    BY <1>1
  <2> QED  BY <2>1
<1>2. ASSUME NEW m \in Nat, m <= N, \A j \in Nat : j > m => j \in T  PROVE m \in T
  <2>1. PICK n \in Nat : n = m + 1
    OBVIOUS
  <2>2. PICK f : Above(f, n)
    <3>1. n \in T
      BY <1>2, <2>1
    <3> HIDE DEF Above
    <3> QED  BY <3>1
  <2>3. PICK new : new = Turn(f, m)
    OBVIOUS
  <2>4. new \in Seq(S)
    <3>1. CASE m \in 1 .. N
      <4>1. <<first[m]>> \in Seq(S) /\ f[next[m]] \in Seq(S)
        BY <2>2, <3>1
      <4>2. <<first[m]>> \o f[next[m]] \in Seq(S)
        BY <4>1, ConcatProperties
      <4> QED  BY <2>3, <3>1, <4>2
    <3>2. CASE m \notin 1 .. N
      BY <2>3, <3>2
    <3> QED  BY <3>1, <3>2
  <2>5. PICK g : g = [i \in Nat |-> IF i = m THEN new ELSE f[i]]
    OBVIOUS
  <2>6. g \in [Nat -> Seq(S)]
    BY <2>2, <2>4, <2>5
  <2>7. ASSUME NEW i \in Nat, i >= m  PROVE g[i] = Turn(g, i)
    <3>1. i \in 1 .. N => g[next[i]] = f[next[i]]
      <4> SUFFICES ASSUME i \in 1 .. N  PROVE g[next[i]] = f[next[i]]
        OBVIOUS
      <4>1. next[i] \in Nat /\ next[i] # m
        BY <2>7
      <4> QED  BY <2>5, <4>1
    <3>2. Turn(g, i) = Turn(f, i)
      BY <3>1
    <3>3. CASE i = m
      BY <2>3, <2>5, <3>2, <3>3
    <3>4. CASE i # m
      <4>1. i >= n
        BY <2>1, <2>7, <3>4
      <4>2. f[i] = Turn(f, i)
        BY <2>2, <4>1
      <4>3. g[i] = f[i]
        BY <2>5, <3>4
      <4> HIDE DEF Turn
      <4> QED  BY <3>2, <4>2, <4>3
    <3> QED  BY <3>3, <3>4
  <2>8. Above(g, m)
    <3> HIDE DEF Turn
    <3> QED  BY <2>6, <2>7
  <2> QED  BY <2>8
<1>3. \A m \in Nat : m \in T
  <2> HIDE DEF T
  <2> QED  BY <1>1, <1>2, InductDown
<1>4. PICK f : Above(f, 0)
  <2>1. 0 \in T
    <3> HIDE DEF T
    <3> QED  BY <1>3
  <2>2. Has(0)
    <3> HIDE DEF Has
    <3> QED  BY <2>1
  <2>3. PICK m : m = 0
    OBVIOUS
  <2>4. Has(m)
    BY <2>2, <2>3
  <2>5. PICK f : Above(f, m)
    <3> HIDE DEF Above
    <3> QED  BY <2>4
  <2> HIDE DEF Above
  <2> QED  BY <2>3, <2>5
<1>5. ASSUME NEW i \in Nat  PROVE f[i] = Turn(f, i)
  <2> HIDE DEF Turn
  <2> QED  BY <1>4
<1>6. f \in [Nat -> Seq(S)] /\ Chained(f, N, first, next)
  BY <1>4, <1>5 DEF Chained
<1> QED  BY <1>6

---------------------------------------------------------------------------
(* FlattenSeq.                                                             *)

\* The concatenations of the first members of a sequence of sequences.
RunningConcats(f, ss) == /\ DOMAIN f = 1 .. Len(ss)
                         /\ \A i \in 1 .. Len(ss) : f[i] = IF i = 1 THEN ss[i] ELSE f[i - 1] \o ss[i]

\* There are such, and they are sequences.
LEMMA PrefixesExist ==
  ASSUME NEW S, NEW ss \in Seq(Seq(S))
  PROVE  \E f \in [1 .. Len(ss) -> Seq(S)] : RunningConcats(f, ss)
<1> DEFINE Upto(f, n) == /\ f \in [1 .. n -> Seq(S)]
                         /\ \A i \in 1 .. n : f[i] = IF i = 1 THEN ss[i] ELSE f[i - 1] \o ss[i]
           Has(n) == \E f : Upto(f, n)
           T == {n \in Nat : n <= Len(ss) => Has(n)}
<1>1. 0 \in T
  <2>1. Upto([i \in 1 .. 0 |-> <<>>], 0)
    OBVIOUS
  <2> QED  BY <2>1
<1>2. ASSUME NEW n \in Nat, n \in T  PROVE n + 1 \in T
  <2> SUFFICES ASSUME n + 1 <= Len(ss)  PROVE Has(n + 1)
    <3> HIDE DEF Has
    <3> QED  OBVIOUS
  <2>1. PICK f : Upto(f, n)
    <3>1. Has(n)
      <4> HIDE DEF Has
      <4> QED  BY <1>2
    <3> QED  BY <3>1
  <2> DEFINE new == IF n + 1 = 1 THEN ss[n + 1] ELSE f[n] \o ss[n + 1]
             g == [i \in 1 .. n + 1 |-> IF i <= n THEN f[i] ELSE new]
  <2>2. ss[n + 1] \in Seq(S)
    BY ElementOfSeq
  <2>3. new \in Seq(S)
    <3>1. CASE n = 0
      BY <2>2, <3>1
    <3>2. CASE n # 0
      <4>1. f[n] \in Seq(S)
        BY <2>1, <3>2
      <4>2. f[n] \o ss[n + 1] \in Seq(S)
        BY <2>2, <4>1, ConcatProperties
      <4> QED  BY <3>2, <4>2
    <3> QED  BY <3>1, <3>2
  <2>4. \A i \in 1 .. n : f[i] \in Seq(S)
    BY <2>1
  <2>5. g \in [1 .. n + 1 -> Seq(S)]
    <3> HIDE DEF new
    <3> QED  BY <2>3, <2>4
  <2>6. ASSUME NEW i \in 1 .. n + 1
        PROVE  g[i] = IF i = 1 THEN ss[i] ELSE g[i - 1] \o ss[i]
    <3>1. CASE i <= n
      <4>1. i \in 1 .. n /\ (i # 1 => i - 1 \in 1 .. n)
        BY <3>1
      <4>2. g[i] = f[i] /\ (i # 1 => g[i - 1] = f[i - 1])
        BY <4>1
      <4> HIDE DEF g
      <4> QED  BY <2>1, <4>1, <4>2
    <3>2. CASE i = n + 1
      <4>1. g[i] = new /\ (i # 1 => g[i - 1] = f[n])
        BY <3>2
      <4> HIDE DEF g
      <4> QED  BY <3>2, <4>1
    <3> QED  BY <3>1, <3>2
  <2> HIDE DEF g
  <2>7. Upto(g, n + 1)
    BY <2>5, <2>6
  <2> QED  BY <2>7
<1>3. Has(Len(ss))
  <2> HIDE DEF Has
  <2>1. Len(ss) \in T
    <3> HIDE DEF T
    <3> QED  BY <1>1, <1>2, Induct, LenProperties
  <2> QED  BY <2>1
<1> QED  BY <1>3 DEF RunningConcats

\* The first n members are the same.
Agree(s, t, n) == /\ Len(s) \in Nat /\ Len(t) \in Nat
                  /\ n <= Len(s) /\ n <= Len(t)
                  /\ \A i \in 1 .. n : s[i] = t[i]

\* They depend on the members so far alone.
LEMMA SamePrefixes ==
  ASSUME NEW ss, NEW tt, NEW n \in Nat, Agree(ss, tt, n),
         NEW f, NEW g, RunningConcats(f, ss), RunningConcats(g, tt), NEW j \in 1 .. n
  PROVE  f[j] = g[j]
<1> USE DEF Agree
<1> DEFINE T == {i \in Nat : i \in 1 .. n => f[i] = g[i]}
<1>1. 0 \in T
  OBVIOUS
<1>2. ASSUME NEW i \in Nat, i \in T  PROVE i + 1 \in T
  <2>1. PICK k : k = i + 1
    OBVIOUS
  <2> SUFFICES ASSUME k \in 1 .. n  PROVE f[k] = g[k]
    BY <2>1
  <2>2. k \in 1 .. Len(ss) /\ k \in 1 .. Len(tt) /\ ss[k] = tt[k]
    OBVIOUS
  <2>3. f[k] = IF k = 1 THEN ss[k] ELSE f[k - 1] \o ss[k]
    BY <2>2 DEF RunningConcats
  <2>4. g[k] = IF k = 1 THEN tt[k] ELSE g[k - 1] \o tt[k]
    BY <2>2 DEF RunningConcats
  <2>5. k # 1 => f[k - 1] = g[k - 1]
    <3>1. k # 1 => i \in 1 .. n /\ k - 1 = i
      BY <2>1
    <3> QED  BY <1>2, <3>1
  <2> QED  BY <2>2, <2>3, <2>4, <2>5
<1>3. \A i \in Nat : i \in T
  <2> HIDE DEF T
  <2> QED  BY <1>1, <1>2, Induct
<1> QED  BY <1>3

\* The last of them is what FlattenSeq returns.
LEMMA FlattenIs ==
  ASSUME NEW S, NEW ss \in Seq(Seq(S)), ss # <<>>
  PROVE  \E f \in [1 .. Len(ss) -> Seq(S)] : RunningConcats(f, ss) /\ FlattenSeq(ss) = f[Len(ss)]
<1> DEFINE Recurs(f) == f = [i \in 1 .. Len(ss) |-> IF i = 1 THEN ss[i] ELSE f[i - 1] \o ss[i]]
           f == CHOOSE f : Recurs(f)
<1>1. PICK g \in [1 .. Len(ss) -> Seq(S)] : RunningConcats(g, ss)
  BY PrefixesExist
<1>2. Recurs(g)
  BY <1>1 DEF RunningConcats
<1>3. Recurs(f)
  <2> HIDE DEF Recurs
  <2> QED  BY <1>2
<1>4. FlattenSeq(ss) = f[Len(ss)]
  BY DEF FlattenSeq
<1> HIDE DEF f
<1>5. RunningConcats(f, ss)
  BY <1>3 DEF RunningConcats
<1>6. \A i \in 1 .. Len(ss) : f[i] = g[i]
  <2>1. Agree(ss, ss, Len(ss))
    BY LenProperties DEF Agree
  <2> QED  BY <1>1, <1>5, <2>1, SamePrefixes
<1>7. f = [i \in 1 .. Len(ss) |-> f[i]]
  BY <1>3
<1>8. f \in [1 .. Len(ss) -> Seq(S)]
  BY <1>1, <1>6, <1>7
<1> QED  BY <1>4, <1>5, <1>8

---------------------------------------------------------------------------
(* Induction over sequences.                                               *)

\* A set with the empty sequence and with what comes of its members when an
\* element is appended has all sequences.
LEMMA SeqInduct ==
  ASSUME NEW S, NEW T, <<>> \in T,
         \A s \in Seq(S), e \in S : s \in T => Append(s, e) \in T
  PROVE  \A s \in Seq(S) : s \in T
<1> DEFINE U == {n \in Nat : \A s \in Seq(S) : Len(s) = n => s \in T}
<1>1. 0 \in U
  BY EmptySeq
<1>2. ASSUME NEW n \in Nat, n \in U  PROVE n + 1 \in U
  <2> SUFFICES ASSUME NEW s \in Seq(S), Len(s) = n + 1  PROVE s \in T
    OBVIOUS
  <2>1. PICK t : t = SubSeq(s, 1, n)
    OBVIOUS
  <2>2. s[n + 1] \in S /\ \A i \in 1 .. n : s[i] \in S
    BY ElementOfSeq
  <2>3. t \in Seq(S) /\ Len(t) = n /\ \A i \in 1 .. n : t[i] = s[i]
    BY <2>1, <2>2, SubSeqProperties
  <2>4. Append(t, s[n + 1]) \in Seq(S) /\ Len(Append(t, s[n + 1])) = n + 1
    BY <2>2, <2>3, AppendProperties
  <2>5. \A i \in 1 .. n + 1 : Append(t, s[n + 1])[i] = s[i]
    BY <2>2, <2>3, AppendProperties
  <2>6. Append(t, s[n + 1]) = s
    BY <2>4, <2>5, SeqEqual
  <2>7. t \in T
    BY <1>2, <2>3
  <2> QED  BY <2>2, <2>3, <2>6, <2>7
<1>3. \A n \in Nat : n \in U
  <2> HIDE DEF U
  <2> QED  BY <1>1, <1>2, Induct
<1> QED  BY <1>3, LenProperties

\* The same from the front.
LEMMA SeqInductFront ==
  ASSUME NEW S, NEW T, <<>> \in T,
         \A s \in Seq(S), e \in S : s \in T => <<e>> \o s \in T
  PROVE  \A s \in Seq(S) : s \in T
<1> DEFINE U == {n \in Nat : \A s \in Seq(S) : Len(s) = n => s \in T}
<1>1. 0 \in U
  BY EmptySeq
<1>2. ASSUME NEW n \in Nat, n \in U  PROVE n + 1 \in U
  <2> SUFFICES ASSUME NEW s \in Seq(S), Len(s) = n + 1  PROVE s \in T
    OBVIOUS
  <2>1. s # <<>>
    BY EmptySeq
  <2>2. /\ Head(s) \in S /\ Tail(s) \in Seq(S) /\ Len(Tail(s)) = n
        /\ s = <<Head(s)>> \o Tail(s)
    BY <2>1, HeadTailProperties
  <2>3. Tail(s) \in T
    BY <1>2, <2>2
  <2> QED  BY <2>2, <2>3
<1>3. \A n \in Nat : n \in U
  <2> HIDE DEF U
  <2> QED  BY <1>1, <1>2, Induct
<1> QED  BY <1>3, LenProperties

---------------------------------------------------------------------------
(* What FlattenSeq returns, and of what.                                   *)

LEMMA FlattenEmpty == FlattenSeq(<<>>) = <<>>
BY DEF FlattenSeq

LEMMA FlattenType ==
  ASSUME NEW S, NEW ss \in Seq(Seq(S))
  PROVE  FlattenSeq(ss) \in Seq(S)
<1>1. CASE ss = <<>>
  BY <1>1, FlattenEmpty, EmptySeq
<1>2. CASE ss # <<>>
  <2>1. Len(ss) \in 1 .. Len(ss)
    <3>1. Len(ss) \in Nat \ {0}
      BY <1>2, EmptySeq
    <3> QED  BY <3>1
  <2>2. PICK f \in [1 .. Len(ss) -> Seq(S)] : FlattenSeq(ss) = f[Len(ss)]
    BY <1>2, FlattenIs
  <2> QED  BY <2>1, <2>2
<1> QED  BY <1>1, <1>2

LEMMA FlattenAppend ==
  ASSUME NEW S, NEW ss \in Seq(Seq(S)), NEW s \in Seq(S)
  PROVE  FlattenSeq(Append(ss, s)) = FlattenSeq(ss) \o s
<1>1. PICK tt : tt = Append(ss, s)
  OBVIOUS
<1>2. PICK n \in Nat : n = Len(ss)
  BY LenProperties
<1>3. /\ tt \in Seq(Seq(S)) /\ tt # <<>> /\ Len(tt) = n + 1
      /\ \A i \in 1 .. n : tt[i] = ss[i]
      /\ tt[n + 1] = s
  BY <1>1, <1>2, AppendProperties
<1>4. PICK g : RunningConcats(g, tt) /\ FlattenSeq(tt) = g[n + 1]
  BY <1>3, FlattenIs
<1>5. g[n + 1] = IF n = 0 THEN tt[n + 1] ELSE g[n] \o tt[n + 1]
  <2>1. PICK k : k = n + 1
    OBVIOUS
  <2>2. k \in 1 .. Len(tt) /\ (k = 1 <=> n = 0) /\ k - 1 = n
    BY <1>3, <2>1
  <2>3. g[k] = IF k = 1 THEN tt[k] ELSE g[k - 1] \o tt[k]
    BY <1>4, <2>2 DEF RunningConcats
  <2> QED  BY <2>1, <2>2, <2>3
<1>6. CASE n = 0
  <2>1. ss = <<>>
    BY <1>2, <1>6, EmptySeq
  <2>2. FlattenSeq(ss) = <<>>
    BY <2>1, FlattenEmpty
  <2>3. g[n + 1] = s
    BY <1>3, <1>5, <1>6
  <2> QED  BY <1>1, <1>4, <2>2, <2>3, ConcatEmptySeq
<1>7. CASE n # 0
  <2>1. ss # <<>>
    BY <1>2, <1>7, EmptySeq
  <2>2. PICK f : RunningConcats(f, ss) /\ FlattenSeq(ss) = f[n]
    BY <1>2, <2>1, FlattenIs
  <2>4. f[n] = g[n]
    <3>1. Agree(ss, tt, n)
      BY <1>2, <1>3 DEF Agree
    <3>2. RunningConcats(f, ss) /\ RunningConcats(g, tt)
      BY <1>4, <2>2
    <3>3. n \in 1 .. n
      BY <1>7
    <3> QED  BY <3>1, <3>2, <3>3, SamePrefixes
  <2>5. g[n + 1] = g[n] \o s
    BY <1>3, <1>5, <1>7
  <2> QED  BY <1>1, <1>4, <2>2, <2>4, <2>5
<1> QED  BY <1>6, <1>7

LEMMA FlattenConcat ==
  ASSUME NEW S, NEW ss \in Seq(Seq(S)), NEW tt \in Seq(Seq(S))
  PROVE  FlattenSeq(ss \o tt) = FlattenSeq(ss) \o FlattenSeq(tt)
<1> DEFINE T == {t \in Seq(Seq(S)) : FlattenSeq(ss \o t) = FlattenSeq(ss) \o FlattenSeq(t)}
<1>1. <<>> \in T
  <2>1. ss \o <<>> = ss /\ FlattenSeq(ss) \o <<>> = FlattenSeq(ss)
    BY ConcatEmptySeq, FlattenType
  <2> QED  BY <2>1, FlattenEmpty, EmptySeq
<1>2. ASSUME NEW t \in Seq(Seq(S)), NEW e \in Seq(S), t \in T  PROVE Append(t, e) \in T
  <2>1. ss \o Append(t, e) = Append(ss \o t, e)
    <3>1. Append(t, e) = t \o <<e>>
      BY AppendIsConcat
    <3>2. ss \o t \in Seq(Seq(S)) /\ <<e>> \in Seq(Seq(S))
      BY ConcatProperties
    <3>3. Append(ss \o t, e) = (ss \o t) \o <<e>>
      BY <3>2, AppendIsConcat
    <3> QED  BY <3>1, <3>2, <3>3, ConcatAssociative
  <2>2. ss \o t \in Seq(Seq(S))
    BY ConcatProperties
  <2>3. FlattenSeq(Append(ss \o t, e)) = FlattenSeq(ss \o t) \o e
    BY <2>2, FlattenAppend
  <2>4. FlattenSeq(Append(t, e)) = FlattenSeq(t) \o e
    BY FlattenAppend
  <2>5. PICK a \in Seq(S), b \in Seq(S) : a = FlattenSeq(ss) /\ b = FlattenSeq(t)
    BY FlattenType
  <2>6. (FlattenSeq(ss) \o FlattenSeq(t)) \o e = FlattenSeq(ss) \o (FlattenSeq(t) \o e)
    <3>1. (a \o b) \o e = a \o (b \o e)
      <4> HIDE DEF T
      <4> QED  BY ConcatAssociative, SMTT(60)
    <3> QED  BY <2>5, <3>1
  <2>7. Append(t, e) \in Seq(Seq(S))
    BY AppendProperties
  <2> QED  BY <1>2, <2>1, <2>3, <2>4, <2>6, <2>7
<1>3. \A t \in Seq(Seq(S)) : t \in T
  <2> HIDE DEF T
  <2> QED  BY <1>1, <1>2, SeqInduct
<1> QED  BY <1>3

LEMMA FlattenOne ==
  ASSUME NEW S, NEW s \in Seq(S)
  PROVE  FlattenSeq(<<s>>) = s
<1>1. <<>> \in Seq(Seq(S)) /\ <<s>> = Append(<<>>, s)
  OBVIOUS
<1>2. FlattenSeq(<<s>>) = <<>> \o s
  BY <1>1, FlattenAppend, FlattenEmpty
<1> QED  BY <1>2, ConcatEmptySeq

LEMMA FlattenCons ==
  ASSUME NEW S, NEW s \in Seq(S), NEW ss \in Seq(Seq(S))
  PROVE  FlattenSeq(<<s>> \o ss) = s \o FlattenSeq(ss)
<1>1. <<s>> \in Seq(Seq(S))
  OBVIOUS
<1>2. FlattenSeq(<<s>> \o ss) = FlattenSeq(<<s>>) \o FlattenSeq(ss)
  BY <1>1, FlattenConcat
<1> QED  BY <1>2, FlattenOne

---------------------------------------------------------------------------
(* The bytes of a string list.                                             *)

\* Members, without their NUL, are not empty: an empty one would be the end.
Letters == Nat \ {Zero}
Words == Seq(Letters) \ {<<>>}

Body(list) == FlattenSeq([i \in DOMAIN list |-> Terminated(list[i])])
\* Where the member with index i begins.
Offset(list, i) == Len(Body(SubSeq(list, 1, i)))

LEMMA TerminatedIs ==
  ASSUME NEW w \in Seq(Letters)
  PROVE  /\ Terminated(w) \in Seq(Nat) /\ Len(Terminated(w)) = Len(w) + 1
         /\ \A i \in 1 .. Len(w) : Terminated(w)[i] = w[i] /\ w[i] \in Nat /\ w[i] # Zero
         /\ Terminated(w)[Len(w) + 1] = Zero
<1>1. w \in Seq(Nat) /\ <<Zero>> \in Seq(Nat) /\ Len(<<Zero>>) = 1 /\ <<Zero>>[1] = Zero
  BY SeqMonotonic DEF Letters, Zero
<1>2. \A i \in 1 .. Len(w) : w[i] \in Letters
  BY ElementOfSeq
<1>3. PICK t : t = w \o <<Zero>>
  OBVIOUS
<1>4. /\ t \in Seq(Nat) /\ Len(t) = Len(w) + 1
      /\ \A i \in 1 .. Len(w) + 1 : t[i] = IF i <= Len(w) THEN w[i] ELSE <<Zero>>[i - Len(w)]
  BY <1>1, <1>3, ConcatProperties
<1>5. t[Len(w) + 1] = Zero
  <2>1. PICK k \in Nat : k = Len(w) + 1
    OBVIOUS
  <2>2. k \in 1 .. Len(w) + 1 /\ ~(k <= Len(w)) /\ k - Len(w) = 1
    BY <2>1
  <2> QED  BY <1>1, <1>4, <2>1, <2>2
<1> QED  BY <1>2, <1>3, <1>4, <1>5 DEF Terminated, Letters

\* The members with their NULs.
LEMMA EachTerminated ==
  ASSUME NEW list \in Seq(Words)
  PROVE  LET each == [i \in DOMAIN list |-> Terminated(list[i])]
         IN  /\ each \in Seq(Seq(Nat)) /\ Len(each) = Len(list)
             /\ \A i \in 1 .. Len(list) : each[i] = Terminated(list[i])
<1> DEFINE each == [i \in DOMAIN list |-> Terminated(list[i])]
<1>1. PICK n \in Nat : n = Len(list)
  OBVIOUS
<1>2. \A i \in 1 .. n : Terminated(list[i]) \in Seq(Nat)
  BY <1>1, TerminatedIs, ElementOfSeq DEF Words
<1>3. each = [i \in 1 .. n |-> Terminated(list[i])]
  BY <1>1
<1>4. each \in [1 .. n -> Seq(Nat)]
  BY <1>2, <1>3
<1> QED  BY <1>1, <1>3, <1>4

LEMMA BodyType ==
  ASSUME NEW list \in Seq(Words)
  PROVE  Body(list) \in Seq(Nat)
BY EachTerminated, FlattenType DEF Body

LEMMA BodyEmpty == Body(<<>>) = <<>>
<1>1. [i \in DOMAIN <<>> |-> Terminated(<<>>[i])] = <<>>
  OBVIOUS
<1> QED  BY <1>1, FlattenEmpty DEF Body

LEMMA BodyOne ==
  ASSUME NEW w \in Words
  PROVE  Body(<<w>>) = Terminated(w)
<1>1. [i \in DOMAIN <<w>> |-> Terminated(<<w>>[i])] = <<Terminated(w)>>
  OBVIOUS
<1>2. Terminated(w) \in Seq(Nat)
  BY TerminatedIs DEF Words
<1> QED  BY <1>1, <1>2, FlattenOne DEF Body

LEMMA BodyConcat ==
  ASSUME NEW a \in Seq(Words), NEW b \in Seq(Words)
  PROVE  Body(a \o b) = Body(a) \o Body(b)
<1> DEFINE each(list) == [i \in DOMAIN list |-> Terminated(list[i])]
<1>1. PICK ab : ab = a \o b
  OBVIOUS
<1>2. PICK m \in Nat, n \in Nat : m = Len(a) /\ n = Len(b)
  OBVIOUS
<1>3. /\ ab \in Seq(Words) /\ Len(ab) = m + n
      /\ \A i \in 1 .. m + n : ab[i] = IF i <= m THEN a[i] ELSE b[i - m]
  BY <1>1, <1>2, ConcatProperties
<1>4. PICK ea, eb, eab : ea = each(a) /\ eb = each(b) /\ eab = each(ab)
  OBVIOUS
<1>5. /\ ea \in Seq(Seq(Nat)) /\ Len(ea) = m /\ \A i \in 1 .. m : ea[i] = Terminated(a[i])
      /\ eb \in Seq(Seq(Nat)) /\ Len(eb) = n /\ \A i \in 1 .. n : eb[i] = Terminated(b[i])
  BY <1>2, <1>4, EachTerminated
<1>6. eab \in Seq(Seq(Nat)) /\ Len(eab) = m + n /\ \A i \in 1 .. m + n : eab[i] = Terminated(ab[i])
  BY <1>3, <1>4, EachTerminated
<1> HIDE DEF each
<1>7. /\ ea \o eb \in Seq(Seq(Nat)) /\ Len(ea \o eb) = m + n
      /\ \A i \in 1 .. m + n : (ea \o eb)[i] = IF i <= m THEN ea[i] ELSE eb[i - m]
  BY <1>5, ConcatProperties
<1>8. ASSUME NEW i \in 1 .. m + n  PROVE eab[i] = (ea \o eb)[i]
  <2>1. CASE i <= m
    <3>1. i \in 1 .. m
      BY <2>1
    <3>2. eab[i] = Terminated(a[i])
      BY <1>3, <1>6, <2>1
    <3>3. (ea \o eb)[i] = Terminated(a[i])
      BY <1>5, <1>7, <2>1, <3>1
    <3> QED  BY <3>2, <3>3
  <2>2. CASE ~(i <= m)
    <3>1. i - m \in 1 .. n
      BY <2>2
    <3> QED  BY <1>3, <1>5, <1>6, <1>7, <2>2, <3>1, ZenonT(60)
  <2> QED  BY <2>1, <2>2
<1>9. eab = ea \o eb
  BY <1>6, <1>7, <1>8, SeqEqual
<1>10. FlattenSeq(ea \o eb) = FlattenSeq(ea) \o FlattenSeq(eb)
  BY <1>5, FlattenConcat
<1> QED  BY <1>1, <1>4, <1>9, <1>10 DEF Body, each

\* A member among the others, in the bytes.  Positions count from 0 in the
\* code and from 1 in a sequence.
LEMMA BodyAround ==
  ASSUME NEW list \in Seq(Words), NEW i \in 0 .. Len(list) - 1, NEW w, w = list[i + 1]
  PROVE  LET a == Body(SubSeq(list, 1, i))
             b == Body(SubSeq(list, i + 2, Len(list)))
         IN  /\ w \in Words
             /\ a \in Seq(Nat) /\ b \in Seq(Nat)
             /\ Body(list) = (a \o Terminated(w)) \o b
             /\ Body(SubSeq(list, 1, i + 1)) = a \o Terminated(w)
<1>1. PICK n \in Nat : n = Len(list)
  OBVIOUS
<1>2. i + 1 \in 1 .. n /\ i \in Nat
  BY <1>1
<1>3. w \in Words
  BY <1>1, <1>2, ElementOfSeq
<1>4. PICK p, q, r : /\ p = SubSeq(list, 1, i)
                     /\ q = SubSeq(list, i + 2, n)
                     /\ r = SubSeq(list, 1, i + 1)
  OBVIOUS
<1>5. p \in Seq(Words) /\ q \in Seq(Words) /\ <<w>> \in Seq(Words)
  <2>1. i \in Int /\ \A j \in 1 .. i : list[j] \in Words
    BY <1>1, <1>2, ElementOfSeq
  <2>2. i + 2 \in Int /\ n \in Int /\ \A j \in i + 2 .. n : list[j] \in Words
    BY <1>1, <1>2, ElementOfSeq
  <2> QED  BY <1>3, <1>4, <2>1, <2>2, SubSeqProperties
<1>6. r = p \o <<w>>
  <2>1. i + 1 \in 1 .. Len(list) /\ 1 \in 1 .. Len(list) /\ i + 1 \in 1 .. Len(list)
    BY <1>1, <1>2
  <2>2. SubSeq(list, 1, i + 1) = SubSeq(list, 1, (i + 1) - 1) \o <<list[i + 1]>>
    BY <2>1, SubSeqRecursiveSecond
  <2>3. (i + 1) - 1 = i
    BY <1>2
  <2> QED  BY <1>4, <2>2, <2>3
<1>7. list = r \o q
  <2>1. 1 \in 1 .. Len(list) + 1 /\ i + 1 \in 1 - 1 .. Len(list) /\ n \in i + 1 .. Len(list)
    BY <1>1, <1>2
  <2>2. SubSeq(list, 1, i + 1) \o SubSeq(list, (i + 1) + 1, n) = SubSeq(list, 1, n)
    BY <2>1, ConcatAdjacentSubSeq
  <2>3. (i + 1) + 1 = i + 2
    BY <1>2
  <2>4. SubSeq(list, 1, n) = list
    BY <1>1, SubSeqFull
  <2> QED  BY <1>4, <2>2, <2>3, <2>4
<1>8. r \in Seq(Words)
  BY <1>5, <1>6, ConcatProperties
<1>9. Body(list) = Body(r) \o Body(q) /\ Body(r) = Body(p) \o Terminated(w)
  <2>1. Body(r \o q) = Body(r) \o Body(q)
    BY <1>5, <1>8, BodyConcat
  <2>2. Body(p \o <<w>>) = Body(p) \o Body(<<w>>)
    BY <1>5, BodyConcat
  <2>3. Body(<<w>>) = Terminated(w)
    BY <1>3, BodyOne
  <2> QED  BY <1>6, <1>7, <2>1, <2>2, <2>3
<1>10. Body(p) \in Seq(Nat) /\ Body(q) \in Seq(Nat)
  BY <1>5, BodyType
<1> QED  BY <1>1, <1>3, <1>4, <1>9, <1>10

LEMMA MiddlePart ==
  ASSUME NEW S, NEW a \in Seq(S), NEW t \in Seq(S), NEW b \in Seq(S)
  PROVE  /\ Len(a \o t) = Len(a) + Len(t)
         /\ Len((a \o t) \o b) = Len(a) + Len(t) + Len(b)
         /\ \A j \in 1 .. Len(t) : ((a \o t) \o b)[Len(a) + j] = t[j]
<1>1. PICK m \in Nat, n \in Nat, k \in Nat : m = Len(a) /\ n = Len(t) /\ k = Len(b)
  OBVIOUS
<1>2. PICK at : at = a \o t
  OBVIOUS
<1>3. /\ at \in Seq(S) /\ Len(at) = m + n
      /\ \A j \in 1 .. m + n : at[j] = IF j <= m THEN a[j] ELSE t[j - m]
  BY <1>1, <1>2, ConcatProperties
<1>4. PICK c : c = at \o b
  OBVIOUS
<1>5. /\ Len(c) = m + n + k
      /\ \A j \in 1 .. m + n + k : c[j] = IF j <= m + n THEN at[j] ELSE b[j - (m + n)]
  BY <1>1, <1>3, <1>4, ConcatProperties
<1>6. ASSUME NEW j \in 1 .. n  PROVE c[m + j] = t[j]
  <2>1. PICK l \in Nat : l = m + j
    OBVIOUS
  <2>2. l \in 1 .. m + n /\ l \in 1 .. m + n + k /\ ~(l <= m) /\ l - m = j /\ l <= m + n
    BY <2>1
  <2>3. at[l] = t[j]
    BY <1>3, <2>2
  <2>4. c[l] = at[l]
    BY <1>5, <2>2
  <2> QED  BY <2>1, <2>3, <2>4
<1> QED  BY <1>1, <1>2, <1>3, <1>4, <1>5, <1>6

\* A sequence of two parts is taken apart.
LEMMA TwoParts ==
  ASSUME NEW S, NEW x \in Seq(S), NEW e \in Seq(S)
  PROVE  /\ SubSeq(x \o e, 1, Len(x)) = x
         /\ SubSeq(x \o e, Len(x) + 1, Len(x) + Len(e)) = e
         /\ Len(x \o e) = Len(x) + Len(e)
<1>1. PICK m \in Nat, k \in Nat : m = Len(x) /\ k = Len(e)
  OBVIOUS
<1>2. SubSeq(x \o e, 1, m) = x
  <2>1. CASE m = 0
    <3>1. SubSeq(x \o e, 1, m) = <<>>
      BY <2>1, SubSeqEmpty
    <3> QED  BY <1>1, <2>1, <3>1, EmptySeq
  <2>2. CASE m # 0
    <3>1. 1 \in 1 .. Len(x) /\ m \in 1 .. Len(x)
      BY <1>1, <2>2
    <3>2. SubSeq(x \o e, 1, m) = SubSeq(x, 1, m)
      BY <3>1, SubSeqOfConcat1
    <3> QED  BY <1>1, <3>2, SubSeqFull
  <2> QED  BY <2>1, <2>2
<1>3. SubSeq(x \o e, m + 1, m + k) = e
  <2>1. CASE k = 0
    <3>1. SubSeq(x \o e, m + 1, m + k) = <<>>
      <4>1. m + k < m + 1 /\ m + k \in Int /\ m + 1 \in Int
        BY <2>1
      <4> QED  BY <4>1, SubSeqEmpty
    <3> QED  BY <1>1, <2>1, <3>1, EmptySeq
  <2>2. CASE k # 0
    <3>1. m + 1 \in Len(x) + 1 .. Len(x) + Len(e) /\ m + k \in Len(x) + 1 .. Len(x) + Len(e)
      BY <1>1, <2>2
    <3>2. SubSeq(x \o e, m + 1, m + k) = SubSeq(e, (m + 1) - Len(x), (m + k) - Len(x))
      BY <3>1, SubSeqOfConcat2
    <3>3. (m + 1) - Len(x) = 1 /\ (m + k) - Len(x) = Len(e)
      BY <1>1
    <3> QED  BY <3>2, <3>3, SubSeqFull
  <2> QED  BY <2>1, <2>2
<1>4. Len(x \o e) = m + k
  BY <1>1, ConcatProperties
<1> QED  BY <1>1, <1>2, <1>3, <1>4

LEMMA OuterParts ==
  ASSUME NEW S, NEW a \in Seq(S), NEW t \in Seq(S), NEW e \in Seq(S)
  PROVE  LET f == (a \o t) \o e
         IN  /\ SubSeq(f, 1, Len(a)) = a
             /\ SubSeq(f, Len(a) + Len(t) + 1, Len(f)) = e
             /\ Len(f) = Len(a) + Len(t) + Len(e)
<1>1. PICK at, te : at = a \o t /\ te = t \o e
  OBVIOUS
<1>2. /\ at \in Seq(S) /\ Len(at) = Len(a) + Len(t)
      /\ te \in Seq(S) /\ Len(te) = Len(t) + Len(e)
  BY <1>1, ConcatProperties
<1>3. at \o e = a \o te
  BY <1>1, ConcatAssociative, SMTT(60)
<1>4. SubSeq(a \o te, 1, Len(a)) = a /\ Len(a \o te) = Len(a) + Len(te)
  BY <1>2, TwoParts, ZenonT(60)
<1>5. SubSeq(at \o e, Len(at) + 1, Len(at) + Len(e)) = e /\ Len(at \o e) = Len(at) + Len(e)
  BY <1>2, TwoParts, ZenonT(60)
<1> QED  BY <1>1, <1>2, <1>3, <1>4, <1>5

LEMMA NatAssociative ==
  ASSUME NEW a \in Seq(Nat), NEW b \in Seq(Nat), NEW c \in Seq(Nat)
  PROVE  (a \o b) \o c = a \o (b \o c)
<1>1. PICK S : S = Nat
  OBVIOUS
<1>2. a \in Seq(S) /\ b \in Seq(S) /\ c \in Seq(S)
  BY <1>1
<1> QED  BY <1>2, ConcatAssociative, SMTT(60)

LEMMA NatOuterParts ==
  ASSUME NEW a \in Seq(Nat), NEW t \in Seq(Nat), NEW e \in Seq(Nat), NEW f, f = (a \o t) \o e
  PROVE  /\ SubSeq(f, 1, Len(a)) = a
         /\ SubSeq(f, Len(a) + Len(t) + 1, Len(f)) = e
         /\ Len(f) = Len(a) + Len(t) + Len(e)
<1>1. PICK S : S = Nat
  OBVIOUS
<1>2. a \in Seq(S) /\ t \in Seq(S) /\ e \in Seq(S)
  BY <1>1
<1>3. PICK g : g = (a \o t) \o e
  OBVIOUS
<1>4. /\ SubSeq(g, 1, Len(a)) = a
      /\ SubSeq(g, Len(a) + Len(t) + 1, Len(g)) = e
      /\ Len(g) = Len(a) + Len(t) + Len(e)
  BY <1>2, <1>3, OuterParts
<1> QED  BY <1>3, <1>4

LEMMA NatSubSeq ==
  ASSUME NEW f \in Seq(Nat), NEW p \in Nat, NEW m \in Nat, p + m <= Len(f)
  PROVE  LET sub == SubSeq(f, p + 1, p + m)
         IN  sub \in Seq(Nat) /\ Len(sub) = m /\ \A j \in 1 .. m : sub[j] = f[p + j]
<1>1. PICK a \in Nat : a = p + 1
  OBVIOUS
<1>2. PICK b \in Nat : b = p + m
  OBVIOUS
<1>3. PICK S : S = Nat
  OBVIOUS
<1>4. \A j \in a .. b : f[j] \in S
  BY <1>1, <1>2, <1>3, ElementOfSeq
<1>5. PICK sub : sub = SubSeq(f, a, b)
  OBVIOUS
<1>6. /\ sub \in Seq(S) /\ Len(sub) = IF a <= b THEN b - a + 1 ELSE 0
      /\ \A j \in 1 .. b - a + 1 : sub[j] = f[a + j - 1]
  BY <1>4, <1>5, SubSeqProperties
<1>7. b - a + 1 = m /\ (a <= b <=> m # 0)
  BY <1>1, <1>2
<1>8. Len(sub) = m
  BY <1>6, <1>7
<1>9. ASSUME NEW j \in 1 .. m  PROVE sub[j] = f[p + j]
  <2>1. a + j - 1 = p + j
    BY <1>1
  <2> QED  BY <1>6, <1>7, <2>1
<1> QED  BY <1>1, <1>2, <1>3, <1>5, <1>6, <1>8, <1>9

LEMMA FlatIs ==
  ASSUME NEW list \in Seq(Words), list # <<>>
  PROVE  /\ Flat(list) = Body(list) \o <<Zero>>
         /\ Flat(list) \in Seq(Nat) /\ Len(Flat(list)) = Len(Body(list)) + 1
         /\ Flat(list)[Len(Body(list)) + 1] = Zero
         /\ \A j \in 1 .. Len(Body(list)) : Flat(list)[j] = Body(list)[j]
<1>1. PICK b : b = Body(list)
  OBVIOUS
<1>2. b \in Seq(Nat) /\ Len(b) \in Nat
  BY <1>1, BodyType
<1>3. <<Zero>> \in Seq(Nat) /\ Len(<<Zero>>) = 1 /\ <<Zero>>[1] = Zero
  BY DEF Zero
<1>4. PICK f : f = b \o <<Zero>>
  OBVIOUS
<1>5. /\ f \in Seq(Nat) /\ Len(f) = Len(b) + 1
      /\ \A j \in 1 .. Len(b) + 1 : f[j] = IF j <= Len(b) THEN b[j] ELSE <<Zero>>[j - Len(b)]
  BY <1>2, <1>3, <1>4, ConcatProperties
<1>6. PICK k \in Nat : k = Len(b) + 1
  BY <1>2
<1>7. k \in 1 .. Len(b) + 1 /\ ~(k <= Len(b)) /\ k - Len(b) = 1
  BY <1>2, <1>6
<1>8. f[k] = Zero
  BY <1>3, <1>5, <1>7
<1>9. \A j \in 1 .. Len(b) : f[j] = b[j]
  BY <1>2, <1>5
<1>10. Flat(list) = f
  BY <1>1, <1>4 DEF Flat, Body
<1> QED  BY <1>1, <1>4, <1>5, <1>6, <1>8, <1>9, <1>10

\* What stands at the offset of a member, and where the next begins.
LEMMA FlatAround ==
  ASSUME NEW list \in Seq(Words), NEW i \in 0 .. Len(list) - 1, NEW w, w = list[i + 1]
  PROVE  /\ w \in Words /\ Len(w) \in Nat \ {0}
         /\ Offset(list, i) \in Nat
         /\ Offset(list, i + 1) = Offset(list, i) + Len(w) + 1
         /\ Offset(list, i) + Len(w) + 2 <= Len(Flat(list))
         /\ \A j \in 1 .. Len(w) : Flat(list)[Offset(list, i) + j] = w[j] /\ w[j] # Zero
         /\ Flat(list)[Offset(list, i) + Len(w) + 1] = Zero
<1>1. PICK a, b, t, c : /\ a = Body(SubSeq(list, 1, i))
                        /\ b = Body(SubSeq(list, i + 2, Len(list)))
                        /\ t = Terminated(w)
                        /\ c = Body(list)
  OBVIOUS
<1>2. /\ w \in Words /\ a \in Seq(Nat) /\ b \in Seq(Nat) /\ c = (a \o t) \o b
      /\ Body(SubSeq(list, 1, i + 1)) = a \o t
  BY <1>1, BodyAround
<1>3. PICK m \in Nat, n \in Nat, k \in Nat : m = Len(a) /\ n = Len(w) /\ k = Len(b)
  BY <1>2 DEF Words
<1>4. /\ t \in Seq(Nat) /\ Len(t) = n + 1
      /\ \A j \in 1 .. n : t[j] = w[j] /\ w[j] # Zero
      /\ t[n + 1] = Zero
  BY <1>1, <1>2, <1>3, TerminatedIs DEF Words
<1>5. n # 0
  BY <1>2, <1>3, EmptySeq DEF Words
<1>6. Len(a \o t) = m + (n + 1) /\ Len(c) = m + (n + 1) + k /\ \A j \in 1 .. n + 1 : c[m + j] = t[j]
  <2>1. /\ Len(a \o t) = Len(a) + Len(t)
        /\ Len((a \o t) \o b) = Len(a) + Len(t) + Len(b)
        /\ \A j \in 1 .. Len(t) : ((a \o t) \o b)[Len(a) + j] = t[j]
    <3>1. PICK S : S = Nat
      OBVIOUS
    <3>2. a \in Seq(S) /\ b \in Seq(S) /\ t \in Seq(S)
      BY <1>2, <1>4, <3>1
    <3> QED  BY <3>2, MiddlePart
  <2>2. c = (a \o t) \o b
    BY <1>2
  <2> QED  BY <1>3, <1>4, <2>1, <2>2
<1>10. list # <<>>
  BY EmptySeq
<1>11. /\ Len(Flat(list)) = Len(c) + 1
       /\ \A j \in 1 .. Len(c) : Flat(list)[j] = c[j]
  BY <1>1, <1>10, FlatIs
<1>12. ASSUME NEW j \in 1 .. n + 1  PROVE Flat(list)[m + j] = t[j]
  <2>1. m + j \in 1 .. Len(c)
    BY <1>6
  <2> QED  BY <1>6, <1>11, <2>1
<1>13. Offset(list, i) = m /\ Offset(list, i + 1) = m + (n + 1)
  BY <1>1, <1>2, <1>3, <1>6 DEF Offset
<1>14. /\ \A j \in 1 .. n : Flat(list)[m + j] = w[j] /\ w[j] # Zero
       /\ Flat(list)[m + (n + 1)] = Zero
  BY <1>4, <1>12
<1>15. m + (n + 1) = m + n + 1 /\ m + n + 2 <= Len(Flat(list))
  BY <1>6, <1>11
<1> QED  BY <1>2, <1>3, <1>5, <1>13, <1>14, <1>15

LEMMA BeginsWithLetter ==
  ASSUME NEW list \in Seq(Words), NEW i \in 0 .. Len(list) - 1
  PROVE  Flat(list)[Offset(list, i) + 1] # Zero
<1>1. PICK w : w = list[i + 1]
  OBVIOUS
<1>2. PICK n \in Nat : n = Len(w) /\ n # 0
  <2>1. w \in Words
    BY <1>1, FlatAround
  <2> QED  BY <2>1, EmptySeq DEF Words
<1>3. PICK f, p : f = Flat(list) /\ p = Offset(list, i)
  OBVIOUS
<1>4. \A j \in 1 .. n : f[p + j] = w[j] /\ w[j] # Zero
  BY <1>1, <1>2, <1>3, FlatAround
<1>5. 1 \in 1 .. n
  BY <1>2
<1> QED  BY <1>3, <1>4, <1>5

\* The end mark.
LEMMA FlatEnd ==
  ASSUME NEW list \in Seq(Words), list # <<>>
  PROVE  /\ Offset(list, Len(list)) \in Nat
         /\ Len(Flat(list)) = Offset(list, Len(list)) + 1
         /\ Flat(list)[Offset(list, Len(list)) + 1] = Zero
<1>1. SubSeq(list, 1, Len(list)) = list
  BY SubSeqFull
<1>2. Offset(list, Len(list)) = Len(Body(list))
  BY <1>1 DEF Offset
<1>3. Len(Body(list)) \in Nat
  BY BodyType
<1> QED  BY <1>2, <1>3, FlatIs

LEMMA OffsetZero ==
  ASSUME NEW list \in Seq(Words)
  PROVE  Offset(list, 0) = 0
<1>1. SubSeq(list, 1, 0) = <<>>
  BY SubSeqEmpty
<1>2. Body(SubSeq(list, 1, 0)) = <<>>
  BY <1>1, BodyEmpty
<1>3. Len(Body(SubSeq(list, 1, 0))) = 0
  BY <1>2
<1> QED  BY <1>3 DEF Offset

\* The first NUL from a member on is the member's own.
LEMMA NulPosIs ==
  ASSUME NEW list \in Seq(Words), NEW i \in 0 .. Len(list) - 1
  PROVE  NulPos(Flat(list), Offset(list, i)) + 1 = Offset(list, i + 1)
<1>1. PICK w : w = list[i + 1]
  OBVIOUS
<1>2. PICK f, p : f = Flat(list) /\ p = Offset(list, i)
  OBVIOUS
<1>3. PICK n \in Nat : n = Len(w)
  BY <1>1, FlatAround
<1>4. /\ p \in Nat /\ Offset(list, i + 1) = p + n + 1 /\ p + n + 2 <= Len(f)
      /\ \A j \in 1 .. n : f[p + j] = w[j] /\ w[j] # Zero
      /\ f[p + n + 1] = Zero
  BY <1>1, <1>2, <1>3, FlatAround, SMTT(60)
<1>5. Len(f) \in Nat
  <2>1. list # <<>>
    BY EmptySeq
  <2> QED  BY <1>2, <2>1, FlatIs
<1> DEFINE First(q) == ByteAt(f, q) = Zero /\ \A r \in p .. q - 1 : ByteAt(f, r) # Zero
<1>6. p + n \in p .. Len(f) - 1 /\ First(p + n)
  <2>1. p + n \in p .. Len(f) - 1
    BY <1>4, <1>5
  <2>2. ByteAt(f, p + n) = Zero
    BY <1>4 DEF ByteAt
  <2>3. ASSUME NEW r \in p .. (p + n) - 1  PROVE ByteAt(f, r) # Zero
    <3>1. PICK j \in 1 .. n : r + 1 = p + j
      <4>1. (r + 1) - p \in 1 .. n /\ r + 1 = p + ((r + 1) - p)
        BY <1>4
      <4> QED  BY <4>1
    <3>2. f[p + j] # Zero
      BY <1>4
    <3> QED  BY <3>1, <3>2 DEF ByteAt
  <2> QED  BY <2>1, <2>2, <2>3
<1>7. ASSUME NEW q \in p .. Len(f) - 1, First(q)  PROVE q = p + n
  <2>1. CASE q < p + n
    <3>1. q \in p .. (p + n) - 1
      BY <1>4, <2>1
    <3> QED  BY <1>6, <1>7, <3>1
  <2>2. CASE q > p + n
    <3>1. p + n \in p .. q - 1
      BY <1>4, <2>2
    <3> QED  BY <1>6, <1>7, <3>1
  <2> QED  BY <1>4, <1>5, <2>1, <2>2
<1>8. NulPos(f, p) = CHOOSE q \in p .. Len(f) - 1 : First(q)
  BY DEF NulPos
<1> HIDE DEF First
<1>9. NulPos(f, p) = p + n
  BY <1>6, <1>7, <1>8
<1> QED  BY <1>2, <1>4, <1>9

\* ListInc comes to the offset of a member, and to the end mark after all.
LEMMA MemberPosIs ==
  ASSUME NEW list \in Seq(Words), list # <<>>, NEW index \in 0 .. Len(list)
  PROVE  MemberPos(Flat(list), index) = Offset(list, index)
<1>1. PICK f : f = Flat(list)
  OBVIOUS
<1> DEFINE Turn(s, n) == IF n = 0 THEN 0
                         ELSE IF ByteAt(f, s[n - 1]) = Zero THEN s[n - 1]
                         ELSE NulPos(f, s[n - 1]) + 1
           Recurs(s) == s = [n \in 0 .. index |-> Turn(s, n)]
           g == [n \in 0 .. index |-> Offset(list, n)]
           h == CHOOSE s : Recurs(s)
<1>2. index \in Nat /\ Len(list) \in Nat
  OBVIOUS
<1>3. ASSUME NEW s, NEW n \in 0 .. index, n # 0 => s[n - 1] = Offset(list, n - 1)
      PROVE  Turn(s, n) = Offset(list, n)
  <2>1. CASE n = 0
    BY <2>1, OffsetZero
  <2>2. CASE n # 0
    <3>1. PICK i \in 0 .. Len(list) - 1 : i = n - 1 /\ i + 1 = n
      BY <1>2, <2>2
    <3>2. s[n - 1] = Offset(list, i)
      BY <1>3, <2>2, <3>1
    <3>4. f[Offset(list, i) + 1] # Zero
      BY <1>1, BeginsWithLetter
    <3>5. NulPos(f, Offset(list, i)) + 1 = Offset(list, i + 1)
      BY <1>1, NulPosIs
    <3> QED  BY <2>2, <3>1, <3>2, <3>4, <3>5 DEF ByteAt
  <2> QED  BY <2>1, <2>2
<1>4. Recurs(g)
  <2>1. ASSUME NEW n \in 0 .. index  PROVE g[n] = Turn(g, n)
    <3>1. n # 0 => n - 1 \in 0 .. index
      BY <1>2
    <3>2. n # 0 => g[n - 1] = Offset(list, n - 1)
      BY <3>1
    <3>3. g[n] = Offset(list, n)
      OBVIOUS
    <3> HIDE DEF Turn, g
    <3> QED  BY <1>3, <3>2, <3>3
  <2>2. g = [n \in 0 .. index |-> g[n]]
    OBVIOUS
  <2> HIDE DEF Turn, g
  <2> QED  BY <2>1, <2>2
<1>5. Recurs(h)
  <2> HIDE DEF Recurs
  <2> QED  BY <1>4
<1> HIDE DEF h
<1>6. \A n \in 0 .. index : h[n] = Turn(h, n)
  <2> HIDE DEF Turn
  <2> QED  BY <1>5
<1> DEFINE T == {n \in Nat : n <= index => h[n] = Offset(list, n)}
<1>7. 0 \in T
  <2>1. 0 \in 0 .. index
    BY <1>2
  <2> HIDE DEF Turn
  <2>2. h[0] = Turn(h, 0)
    BY <1>6, <2>1
  <2>3. Turn(h, 0) = Offset(list, 0)
    BY <1>3, <2>1
  <2> QED  BY <2>2, <2>3
<1>8. ASSUME NEW n \in Nat, n \in T  PROVE n + 1 \in T
  <2> SUFFICES ASSUME n + 1 <= index  PROVE h[n + 1] = Offset(list, n + 1)
    OBVIOUS
  <2>1. PICK k \in 0 .. index : k = n + 1 /\ k - 1 = n
    BY <1>2
  <2>2. h[k - 1] = Offset(list, k - 1)
    BY <1>8, <2>1
  <2> HIDE DEF Turn
  <2>3. Turn(h, k) = Offset(list, k)
    BY <1>3, <2>2
  <2> QED  BY <1>6, <2>1, <2>3
<1>9. index \in T
  <2> HIDE DEF T
  <2> QED  BY <1>2, <1>7, <1>8, Induct
<1>10. h[index] = Offset(list, index)
  BY <1>2, <1>9
<1>11. MemberPos(f, index) = h[index]
  BY DEF MemberPos, h
<1> QED  BY <1>1, <1>10, <1>11

---------------------------------------------------------------------------
(* What the operations of list.c do, in members.                           *)

LEMMA ListCountIs ==
  ASSUME NEW list \in Seq(Words)
  PROVE  ListCount(Flat(list)) = Len(list)
<1>1. CASE list = <<>>
  BY <1>1 DEF Flat, ListCount
<1>2. CASE list # <<>>
  <2>0. PICK f : f = Flat(list)
    OBVIOUS
  <2>1. PICK N \in Nat : f = Flat(list) /\ N = Len(list)
    BY <2>0
  <2> DEFINE Ends(n) == /\ ByteAt(f, MemberPos(f, n)) = Zero
                        /\ \A m \in 1 .. n - 1 : ByteAt(f, MemberPos(f, m)) # Zero
  <2>2. N # 0 /\ f # <<>> /\ Len(f) \in Nat
    <3>1. N # 0
      BY <1>2, <2>1, EmptySeq
    <3>2. /\ Offset(list, N) \in Nat /\ Len(f) = Offset(list, N) + 1
      BY <1>2, <2>1, FlatEnd
    <3> QED  BY <3>1, <3>2
  <2>3. ASSUME NEW m \in 0 .. N - 1  PROVE ByteAt(f, MemberPos(f, m)) # Zero
    <3>1. MemberPos(f, m) = Offset(list, m)
      BY <1>2, <2>1, MemberPosIs
    <3> QED  BY <2>1, <3>1, BeginsWithLetter DEF ByteAt
  <2>4. ByteAt(f, MemberPos(f, N)) = Zero
    <3>1. MemberPos(f, N) = Offset(list, N)
      BY <1>2, <2>1, MemberPosIs
    <3> QED  BY <1>2, <2>1, <3>1, FlatEnd DEF ByteAt
  <2>5. N \in 1 .. Len(f)
    <3> DEFINE T == {n \in Nat : n <= N => n <= Offset(list, n)}
    <3>1. 0 \in T
      BY OffsetZero
    <3>2. ASSUME NEW n \in Nat, n \in T  PROVE n + 1 \in T
      <4> SUFFICES ASSUME n + 1 <= N  PROVE n + 1 <= Offset(list, n + 1)
        OBVIOUS
      <4>1. n \in 0 .. Len(list) - 1
        BY <2>1
      <4>2. PICK w : w = list[n + 1]
        OBVIOUS
      <4>3. PICK l \in Nat : l = Len(w)
        BY <4>1, <4>2, FlatAround
      <4>4. Offset(list, n + 1) = Offset(list, n) + l + 1 /\ Offset(list, n) \in Nat
        BY <4>1, <4>2, <4>3, FlatAround
      <4> QED  BY <3>2, <4>4
    <3>3. N \in T
      <4> HIDE DEF T
      <4> QED  BY <3>1, <3>2, Induct
    <3>4. /\ Offset(list, N) \in Nat /\ Len(f) = Offset(list, N) + 1
      BY <1>2, <2>1, FlatEnd
    <3> QED  BY <2>2, <3>3, <3>4
  <2>6. Ends(N)
    <3>1. ASSUME NEW m \in 1 .. N - 1  PROVE ByteAt(f, MemberPos(f, m)) # Zero
      BY <2>3
    <3> QED  BY <2>4, <3>1
  <2>7. ASSUME NEW n \in 1 .. Len(f), Ends(n)  PROVE n = N
    <3>1. ~(n < N)
      <4> SUFFICES ASSUME n < N  PROVE FALSE
        OBVIOUS
      <4>1. n \in 0 .. N - 1
        OBVIOUS
      <4> QED  BY <2>3, <2>7, <4>1
    <3>2. ~(n > N)
      <4> SUFFICES ASSUME n > N  PROVE FALSE
        OBVIOUS
      <4>1. N \in 1 .. n - 1
        BY <2>2
      <4> QED  BY <2>4, <2>7, <4>1
    <3> QED  BY <3>1, <3>2
  <2>8. ListCount(f) = CHOOSE n \in 1 .. Len(f) : Ends(n)
    BY <2>2 DEF ListCount
  <2> HIDE DEF Ends
  <2> QED  BY <2>1, <2>5, <2>6, <2>7, <2>8
<1> QED  BY <1>1, <1>2

\* At the end: the end mark gives way and comes back.
LEMMA ListAppendIs ==
  ASSUME NEW list \in Seq(Words), NEW w \in Words
  PROVE  ListInsert(Flat(list), -1, w) = Flat(Append(list, w))
<1>1. PICK b, t : b = Body(list) /\ t = Terminated(w)
  OBVIOUS
<1>2. b \in Seq(Nat) /\ t \in Seq(Nat) /\ <<Zero>> \in Seq(Nat)
  BY <1>1, BodyType, TerminatedIs DEF Words, Zero
<1>3. Body(Append(list, w)) = b \o t
  <2>1. <<w>> \in Seq(Words) /\ Append(list, w) = list \o <<w>>
    BY AppendIsConcat
  <2>2. Body(list \o <<w>>) = Body(list) \o Body(<<w>>)
    BY <2>1, BodyConcat
  <2> QED  BY <1>1, <2>1, <2>2, BodyOne
<1>4. Flat(Append(list, w)) = (b \o t) \o <<Zero>>
  <2>1. Append(list, w) \in Seq(Words) /\ Append(list, w) # <<>>
    BY AppendProperties
  <2> QED  BY <1>3, <2>1, FlatIs
<1>5. (IF Flat(list) = <<>> THEN <<>> ELSE Front(Flat(list))) = b
  <2>1. CASE list = <<>>
    BY <1>1, <2>1, BodyEmpty DEF Flat
  <2>2. CASE list # <<>>
    <3>1. PICK f : f = Flat(list)
      OBVIOUS
    <3>2. PICK n \in Nat : n = Len(b)
      BY <1>2
    <3>3. f \in Seq(Nat) /\ Len(f) = n + 1 /\ \A j \in 1 .. n : f[j] = b[j]
      BY <1>1, <2>2, <3>1, <3>2, FlatIs
    <3>4. f # <<>>
      BY <3>3, EmptySeq
    <3>5. Front(f) = SubSeq(f, 1, n)
      <4>1. Len(f) - 1 = n
        BY <3>3
      <4> QED  BY <4>1 DEF Front
    <3>6. /\ SubSeq(f, 1, n) \in Seq(Nat) /\ Len(SubSeq(f, 1, n)) = n
          /\ \A j \in 1 .. n : SubSeq(f, 1, n)[j] = f[j]
      <4>1. n \in Int /\ \A j \in 1 .. n : f[j] \in Nat
        BY <3>3, ElementOfSeq
      <4> QED  BY <4>1, SubSeqProperties
    <3>7. SubSeq(f, 1, n) = b
      <4>1. \A j \in 1 .. n : SubSeq(f, 1, n)[j] = b[j]
        BY <3>3, <3>6
      <4> QED  BY <1>2, <3>2, <3>6, <4>1, SeqEqual
    <3> QED  BY <3>1, <3>4, <3>5, <3>7
  <2> QED  BY <2>1, <2>2
<1>6. PICK head : head = IF Flat(list) = <<>> THEN <<>> ELSE Front(Flat(list))
  OBVIOUS
<1>7. ListInsert(Flat(list), -1, w) = (head \o Terminated(w)) \o <<Zero>>
  <2>1. ~(-1 >= 0)
    OBVIOUS
  <2> QED  BY <1>6, <2>1 DEF ListInsert
<1>8. head = b
  BY <1>5, <1>6
<1> QED  BY <1>1, <1>4, <1>7, <1>8

\* At the head.
LEMMA ListPrependIs ==
  ASSUME NEW list \in Seq(Words), list # <<>>, NEW w \in Words
  PROVE  ListInsert(Flat(list), 0, w) = Flat(<<w>> \o list)
<1>1. PICK b, t : b = Body(list) /\ t = Terminated(w)
  OBVIOUS
<1>2. b \in Seq(Nat) /\ t \in Seq(Nat) /\ <<Zero>> \in Seq(Nat)
  BY <1>1, BodyType, TerminatedIs DEF Words, Zero
<1>3. Body(<<w>> \o list) = t \o b
  <2>1. <<w>> \in Seq(Words)
    OBVIOUS
  <2>2. Body(<<w>> \o list) = Body(<<w>>) \o Body(list)
    BY <2>1, BodyConcat
  <2> QED  BY <1>1, <2>2, BodyOne
<1>4. PICK wl : wl = <<w>> \o list
  OBVIOUS
<1>5. wl \in Seq(Words) /\ wl # <<>>
  <2>1. <<w>> \in Seq(Words) /\ <<w>> # <<>>
    OBVIOUS
  <2> QED  BY <1>4, <2>1, ConcatProperties, ConcatSimplifications
<1>6. Flat(wl) = (t \o b) \o <<Zero>>
  BY <1>3, <1>4, <1>5, FlatIs
<1>7. Flat(list) = b \o <<Zero>>
  BY <1>1, FlatIs
<1>8. MemberPos(Flat(list), 0) = 0
  BY MemberPosIs, OffsetZero
<1>9. PICK f : f = Flat(list)
  OBVIOUS
<1>10. f \in Seq(Nat)
  BY <1>9, FlatIs
<1>11. SubSeq(f, 1, 0) = <<>> /\ SubSeq(f, 0 + 1, Len(f)) = f
  BY <1>10, SubSeqEmpty, SubSeqFull
<1>12. (<<>> \o t) \o f = t \o f
  BY <1>2, ConcatEmptySeq
<1>13. t \o (b \o <<Zero>>) = (t \o b) \o <<Zero>>
  BY <1>2, ConcatAssociative
<1>14. ListInsert(f, 0, w) = (SubSeq(f, 1, 0) \o t) \o SubSeq(f, 0 + 1, Len(f))
  <2>1. 0 >= 0
    OBVIOUS
  <2>2. ListInsert(f, 0, w) = ArInsert(f, MemberPos(f, 0), Terminated(w))
    BY <2>1 DEF ListInsert
  <2>3. ArInsert(f, 0, t) = (SubSeq(f, 1, 0) \o t) \o SubSeq(f, 0 + 1, Len(f))
    BY DEF ArInsert
  <2> QED  BY <1>1, <1>8, <1>9, <2>2, <2>3
<1> QED  BY <1>4, <1>6, <1>7, <1>9, <1>11, <1>12, <1>13, <1>14

\* A range of one member goes with its NUL, and with the last the end mark.
LEMMA ListRemoveIs ==
  ASSUME NEW list \in Seq(Words), NEW i \in 0 .. Len(list) - 1
  PROVE  ListRemoveRange(Flat(list), i, i) =
            Flat(SubSeq(list, 1, i) \o SubSeq(list, i + 2, Len(list)))
<1>1. PICK w : w = list[i + 1]
  OBVIOUS
<1>2. PICK p, q, a, b, t, f :
        /\ p = SubSeq(list, 1, i) /\ q = SubSeq(list, i + 2, Len(list))
        /\ a = Body(p) /\ b = Body(q) /\ t = Terminated(w) /\ f = Flat(list)
  OBVIOUS
<1>3. list # <<>> /\ Len(list) \in Nat /\ i \in Nat /\ i \in 0 .. Len(list) /\ i + 1 \in 0 .. Len(list)
  BY EmptySeq
<1>4. p \in Seq(Words) /\ q \in Seq(Words)
  <2>1. i \in Int /\ \A j \in 1 .. i : list[j] \in Words
    BY <1>3, ElementOfSeq
  <2>2. i + 2 \in Int /\ Len(list) \in Int /\ \A j \in i + 2 .. Len(list) : list[j] \in Words
    BY <1>3, ElementOfSeq
  <2> QED  BY <1>2, <2>1, <2>2, SubSeqProperties
<1>5. a \in Seq(Nat) /\ b \in Seq(Nat) /\ Body(list) = (a \o t) \o b
  BY <1>1, <1>2, BodyAround
<1>6. t \in Seq(Nat) /\ <<Zero>> \in Seq(Nat) /\ Len(<<Zero>>) = 1
  <2>1. w \in Words
    BY <1>1, BodyAround
  <2>2. w \in Seq(Letters)
    BY <2>1 DEF Words
  <2>3. t \in Seq(Nat)
    BY <1>2, <2>2, TerminatedIs
  <2> QED  BY <2>3 DEF Zero
<1>7. PICK e : e = b \o <<Zero>>
  OBVIOUS
<1>8. e \in Seq(Nat) /\ Len(e) = Len(b) + 1
  BY <1>5, <1>6, <1>7, ConcatProperties
<1>9. f = (a \o t) \o e
  <2>1. f = ((a \o t) \o b) \o <<Zero>>
    BY <1>2, <1>3, <1>5, FlatIs
  <2>2. PICK at : at = a \o t
    OBVIOUS
  <2>3. at \in Seq(Nat)
    BY <1>5, <1>6, <2>2, ConcatProperties
  <2>4. (at \o b) \o <<Zero>> = at \o (b \o <<Zero>>)
    BY <1>5, <1>6, <2>3, NatAssociative
  <2> QED  BY <1>7, <2>1, <2>2, <2>4
<1>10. PICK m \in Nat, n \in Nat, k \in Nat : m = Len(a) /\ n = Len(t) /\ k = Len(e)
  BY <1>5, <1>6, <1>8
<1>11. SubSeq(f, 1, m) = a /\ SubSeq(f, m + n + 1, Len(f)) = e /\ Len(f) = m + n + k
  <2>1. PICK g : g = (a \o t) \o e
    OBVIOUS
  <2>2. /\ SubSeq(g, 1, Len(a)) = a
        /\ SubSeq(g, Len(a) + Len(t) + 1, Len(g)) = e
        /\ Len(g) = Len(a) + Len(t) + Len(e)
    <3>1. a \in Seq(Nat) /\ t \in Seq(Nat) /\ e \in Seq(Nat)
      BY <1>5, <1>6, <1>8
    <3> QED  BY <2>1, <3>1, NatOuterParts, SMTT(60)
  <2>3. f = g
    BY <1>9, <2>1
  <2> QED  BY <1>10, <2>2, <2>3
<1>12. MemberPos(f, i) = m /\ NulPos(f, MemberPos(f, i)) + 1 = m + n
  <2>1. MemberPos(f, i) = Offset(list, i)
    BY <1>2, <1>3, MemberPosIs
  <2>2. NulPos(f, Offset(list, i)) + 1 = Offset(list, i + 1)
    BY <1>2, NulPosIs
  <2>3. Offset(list, i) = m
    BY <1>2, <1>10 DEF Offset
  <2>4. Offset(list, i + 1) = m + n
    <3>1. Body(SubSeq(list, 1, i + 1)) = a \o t
      BY <1>1, <1>2, BodyAround
    <3>2. Len(a \o t) = Len(a) + Len(t)
      BY <1>5, <1>6, ConcatProperties
    <3> QED  BY <1>10, <3>1, <3>2 DEF Offset
  <2> QED  BY <2>1, <2>2, <2>3, <2>4
<1>13. k \in Nat \ {0} /\ Len(b) = k - 1
  BY <1>5, <1>8, <1>10
<1>14. PICK rest : rest = ArRemove(f, m, (m + n) - m)
  OBVIOUS
<1>15. rest = a \o e
  <2>1. m \in 0 .. Len(f) - 1
    BY <1>11, <1>13
  <2>2. m + ((m + n) - m) + 1 = m + n + 1
    OBVIOUS
  <2>3. ArRemove(f, m, (m + n) - m) = SubSeq(f, 1, m) \o SubSeq(f, m + ((m + n) - m) + 1, Len(f))
    BY <2>1 DEF ArRemove
  <2> QED  BY <1>11, <1>14, <2>2, <2>3
<1>16. ListRemoveRange(f, i, i) = IF Len(rest) = 1 THEN <<>> ELSE rest
  BY <1>12, <1>14 DEF ListRemoveRange
<1>17. Len(rest) = m + k
  BY <1>5, <1>8, <1>10, <1>15, ConcatProperties
<1>18. p \o q \in Seq(Words) /\ Body(p \o q) = a \o b
  BY <1>2, <1>4, BodyConcat, ConcatProperties
<1>19. CASE p \o q = <<>>
  <2>1. p = <<>> /\ q = <<>>
    BY <1>4, <1>19, ConcatSimplifications
  <2>2. a = <<>> /\ b = <<>>
    BY <1>2, <2>1, BodyEmpty
  <2>3. m = 0 /\ k = 1
    BY <1>8, <1>10, <2>2, EmptySeq
  <2>4. ListRemoveRange(f, i, i) = <<>>
    BY <1>16, <1>17, <2>3
  <2>5. Flat(p \o q) = <<>>
    BY <1>19 DEF Flat
  <2> QED  BY <1>2, <2>4, <2>5
<1>20. CASE p \o q # <<>>
  <2>1. Flat(p \o q) = (a \o b) \o <<Zero>>
    BY <1>18, <1>20, FlatIs
  <2>2. (a \o b) \o <<Zero>> = a \o (b \o <<Zero>>)
    BY <1>5, <1>6, NatAssociative
  <2>3. Flat(p \o q) = rest
    BY <1>7, <1>15, <2>1, <2>2
  <2>4. Len(rest) # 1
    <3>1. PICK l \in Nat : l = Len(p \o q) /\ l # 0
      BY <1>18, <1>20, EmptySeq
    <3>2. 0 \in 0 .. Len(p \o q) - 1
      BY <3>1
    <3>3. PICK v : v = (p \o q)[0 + 1]
      OBVIOUS
    <3>4. /\ Offset(p \o q, 0) \in Nat
          /\ Len(v) \in Nat
          /\ Offset(p \o q, 0) + Len(v) + 2 <= Len(Flat(p \o q))
      BY <1>18, <3>2, <3>3, FlatAround
    <3> QED  BY <1>17, <2>3, <3>4
  <2> QED  BY <1>2, <1>16, <2>3, <2>4
<1> QED  BY <1>19, <1>20
\* A member and its NUL are met in the bytes only where the member stands.
Stands(f, p, w) == /\ p + Len(w) + 2 <= Len(f)
                   /\ \A j \in 1 .. Len(w) : f[p + j] = w[j] /\ w[j] # Zero
                   /\ f[p + Len(w) + 1] = Zero

LEMMA StandsIs ==
  ASSUME NEW list \in Seq(Words), NEW i \in 0 .. Len(list) - 1
  PROVE  /\ Stands(Flat(list), MemberPos(Flat(list), i), list[i + 1])
         /\ Flat(list) \in Seq(Nat) /\ MemberPos(Flat(list), i) \in Nat /\ list[i + 1] \in Words
<1>1. PICK w : w = list[i + 1]
  OBVIOUS
<1>2. list # <<>> /\ i \in 0 .. Len(list)
  BY EmptySeq
<1>3. Flat(list) \in Seq(Nat)
  BY <1>2, FlatIs
<1>4. MemberPos(Flat(list), i) = Offset(list, i)
  BY <1>2, MemberPosIs
<1>5. PICK f, p : f = Flat(list) /\ p = Offset(list, i)
  OBVIOUS
<1>6. PICK n \in Nat : n = Len(w)
  BY <1>1, FlatAround
<1>7. /\ w \in Words /\ p \in Nat
      /\ p + n + 2 <= Len(f)
      /\ \A j \in 1 .. n : f[p + j] = w[j] /\ w[j] # Zero
      /\ f[p + n + 1] = Zero
  BY <1>1, <1>5, <1>6, FlatAround, SMTT(60)
<1>8. Stands(f, p, w)
  BY <1>6, <1>7 DEF Stands
<1> QED  BY <1>1, <1>3, <1>4, <1>5, <1>7, <1>8

LEMMA SameWord ==
  ASSUME NEW f \in Seq(Nat), NEW p \in Nat, NEW w \in Words, NEW v \in Words, Stands(f, p, w),
         NEW l \in Nat, l = Len(v)
  PROVE  (/\ (Len(f) - 1) - p >= l + 1
          /\ SubSeq(f, p + 1, p + (l + 1)) = Terminated(v)) <=> w = v
<1>1. PICK n \in Nat, F \in Nat : n = Len(w) /\ F = Len(f)
  BY DEF Words
<1>2. PICK t : t = Terminated(v)
  OBVIOUS
<1>3. /\ t \in Seq(Nat) /\ Len(t) = l + 1
      /\ \A j \in 1 .. l : t[j] = v[j] /\ v[j] # Zero
      /\ t[l + 1] = Zero
  BY <1>2, TerminatedIs DEF Words
<1>4. PICK sub : sub = SubSeq(f, p + 1, p + (l + 1))
  OBVIOUS
<1>5. ASSUME (F - 1) - p >= l + 1
      PROVE  sub \in Seq(Nat) /\ Len(sub) = l + 1 /\ \A j \in 1 .. l + 1 : sub[j] = f[p + j]
  <2>1. PICK m \in Nat : m = l + 1
    OBVIOUS
  <2>2. p + m <= Len(f)
    BY <1>1, <1>5, <2>1
  <2> QED  BY <1>4, <2>1, <2>2, NatSubSeq
<1>6. /\ p + n + 2 <= F
      /\ \A j \in 1 .. n : f[p + j] = w[j] /\ w[j] # Zero
      /\ f[p + n + 1] = Zero
  BY <1>1 DEF Stands
<1>7. ASSUME w = v  PROVE (F - 1) - p >= l + 1 /\ sub = t
  <2>1. n = l /\ (F - 1) - p >= l + 1
    BY <1>1, <1>6, <1>7
  <2>2. ASSUME NEW j \in 1 .. l + 1  PROVE sub[j] = t[j]
    <3>1. CASE j = l + 1
      <4>1. p + j = p + n + 1
        BY <2>1, <3>1
      <4> QED  BY <1>3, <1>5, <1>6, <2>1, <3>1, <4>1
    <3>2. CASE j # l + 1
      <4>1. j \in 1 .. l /\ j \in 1 .. n
        BY <2>1, <3>2
      <4> QED  BY <1>3, <1>5, <1>6, <1>7, <2>1, <4>1
    <3> QED  BY <3>1, <3>2
  <2>3. sub = t
    BY <1>3, <1>5, <2>1, <2>2, SeqEqual
  <2> QED  BY <2>1, <2>3
<1>8. ASSUME (F - 1) - p >= l + 1, sub = t  PROVE w = v
  <2>1. \A j \in 1 .. l + 1 : t[j] = f[p + j]
    BY <1>5, <1>8
  <2>2. ~(n < l)
    <3> SUFFICES ASSUME n < l  PROVE FALSE
      OBVIOUS
    <3>1. n + 1 \in 1 .. l /\ n + 1 \in 1 .. l + 1 /\ p + (n + 1) = p + n + 1
      OBVIOUS
    <3> QED  BY <1>3, <1>6, <2>1, <3>1
  <2>3. ~(l < n)
    <3> SUFFICES ASSUME l < n  PROVE FALSE
      OBVIOUS
    <3>1. l + 1 \in 1 .. n /\ l + 1 \in 1 .. l + 1
      OBVIOUS
    <3> QED  BY <1>3, <1>6, <2>1, <3>1
  <2>4. n = l
    BY <2>2, <2>3
  <2>5. ASSUME NEW j \in 1 .. n  PROVE w[j] = v[j]
    <3>1. j \in 1 .. l /\ j \in 1 .. l + 1
      BY <2>4
    <3> QED  BY <1>3, <1>6, <2>1, <3>1
  <2>6. PICK S : S = Letters
    OBVIOUS
  <2>7. w \in Seq(S) /\ v \in Seq(S)
    BY <2>6 DEF Words
  <2> QED  BY <1>1, <2>4, <2>5, <2>7, SeqEqual
<1> QED  BY <1>1, <1>2, <1>4, <1>7, <1>8

\* The first member that is the name, or -1.
LEMMA ListFindIs ==
  ASSUME NEW list \in Seq(Words), NEW name \in Words
  PROVE  LET found == {i \in 0 .. Len(list) - 1 : list[i + 1] = name}
             i == ListFindByte(Flat(list), name)
         IN  IF found = {} THEN i = -1 ELSE i \in found /\ \A j \in found : i <= j
<1> DEFINE found == {i \in 0 .. Len(list) - 1 : list[i + 1] = name}
<1>1. PICK f, pl, t, N : f = Flat(list) /\ t = Terminated(name) /\ pl = Terminated(t) /\ N = Len(list)
  OBVIOUS
<1>2. PICK l \in Nat : l = Len(name)
  BY DEF Words
<1>3. t \in Seq(Nat) /\ Len(t) = l + 1
  BY <1>1, <1>2, TerminatedIs DEF Words
<1>4. pl = t \o <<Zero>>
  BY <1>1 DEF Terminated
<1>5. Len(pl) - 1 = l + 1 /\ SubSeq(pl, 1, Len(pl) - 1) = t
  <2>1. PICK S : S = Nat
    OBVIOUS
  <2>2. t \in Seq(S) /\ <<Zero>> \in Seq(S) /\ Len(<<Zero>>) = 1
    BY <1>3, <2>1 DEF Zero
  <2>3. PICK z : z = <<Zero>>
    OBVIOUS
  <2>4. SubSeq(t \o z, 1, Len(t)) = t /\ Len(t \o z) = Len(t) + Len(z)
    BY <2>2, <2>3, TwoParts
  <2>5. Len(pl) - 1 = l + 1
    BY <1>3, <1>4, <2>2, <2>3, <2>4
  <2> QED  BY <1>3, <1>4, <2>3, <2>4, <2>5
<1> DEFINE left(i) == (Len(f) - 1) - MemberPos(f, i)
           matches(i) == /\ left(i) >= Len(pl) - 1
                         /\ SubSeq(f, MemberPos(f, i) + 1, MemberPos(f, i) + (Len(pl) - 1))
                               = SubSeq(pl, 1, Len(pl) - 1)
           hits == {i \in 0 .. ListCount(f) - 1 : matches(i)}
<1>6. ASSUME NEW i \in 0 .. Len(list) - 1
      PROVE  matches(i) <=> list[i + 1] = name
  <2>1. PICK w, p : w = list[i + 1] /\ p = MemberPos(f, i)
    OBVIOUS
  <2>2. w \in Words /\ p \in Nat /\ f \in Seq(Nat) /\ Stands(f, p, w)
    BY <1>1, <2>1, StandsIs
  <2>3. (/\ (Len(f) - 1) - p >= l + 1
         /\ SubSeq(f, p + 1, p + (l + 1)) = Terminated(name)) <=> w = name
    <3> HIDE DEF found, hits
    <3> QED  BY <1>2, <2>2, SameWord, SMTT(60)
  <2> QED  BY <1>1, <1>5, <2>1, <2>3
<1>7. hits = found
  <2>1. ListCount(f) = Len(list)
    BY <1>1, ListCountIs
  <2> HIDE DEF matches
  <2> QED  BY <1>6, <2>1
<1>8. ListFindByte(f, name) =
        IF hits = {} THEN -1 ELSE CHOOSE i \in hits : \A j \in hits : i <= j
  <2>1. ListFindByte(f, name) = SubList(f, pl)
    BY <1>1 DEF ListFindByte
  <2>2. SubList(f, pl) = IF hits = {} THEN -1 ELSE CHOOSE i \in hits : \A j \in hits : i <= j
    BY Zenon DEF SubList
  <2> QED  BY <2>1, <2>2
<1> HIDE DEF hits, found
<1>9. CASE found # {}
  <2>1. found \subseteq Nat
    BY <1>1 DEF found
  <2>2. \E m \in found : \A k \in found : m <= k
    BY <1>9, <2>1, LeastNat
  <2>3. ListFindByte(f, name) = CHOOSE i \in found : \A j \in found : i <= j
    BY <1>7, <1>8, <1>9
  <2> QED  BY <1>1, <1>9, <2>2, <2>3 DEF found
<1>10. CASE found = {}
  BY <1>1, <1>7, <1>8, <1>10 DEF found
<1> QED  BY <1>9, <1>10
=============================================================================
