-------------------------- MODULE Conversion_proofs --------------------------
(***************************************************************************)
(* Proofs about the conversions of text: of kana (Kana), of the files of   *)
(* word classes (Hinshi), and of readings into clauses (Clauses).          *)
(***************************************************************************)
EXTENDS Kana, Hinshi, Clauses, Lists_proofs

---------------------------------------------------------------------------
(* Kana.                                                                   *)

\* What U16HanToZen does with the i-th character, and where it goes on.
WideAt(s, i, script) == Wide(s[i], script, MarkOf(Combination(s, i, script)))
NextAt(s, i, script) == i + Used(Combination(s, i, script))

\* The characters that U16ZenToHan may return.
Narrow == Han \cup {Error, Nul, Dakuten, Handakuten}

LEMMA AtIs ==
  ASSUME NEW s \in Seq(Han), NEW i \in Nat
  PROVE  /\ i \in 1 .. Len(s) => At(s, i) = s[i] /\ s[i] \in Han /\ s[i] # Nul
         /\ i \notin 1 .. Len(s) => At(s, i) = Nul
BY NulEnds DEF At

\* A character is combined only with a mark that follows it.
LEMMA CombinationIs ==
  ASSUME NEW s \in Seq(Han), NEW i \in 1 .. Len(s), NEW script \in Scripts
  PROVE  /\ Combination(s, i, script) \in {0, 1, 2}
         /\ Combination(s, i, script) = 1 => /\ TakesDakuten(s[i], script)
                                             /\ i + 1 \in 1 .. Len(s) /\ s[i + 1] = Dakuten
         /\ Combination(s, i, script) = 2 => /\ s[i] \in Both
                                             /\ i + 1 \in 1 .. Len(s) /\ s[i + 1] = Handakuten
<1>1. At(s, i) = s[i] /\ s[i] \in Han
  BY AtIs
<1>2. At(s, i + 1) # Nul => i + 1 \in 1 .. Len(s) /\ At(s, i + 1) = s[i + 1]
  BY AtIs
<1>3. Dakuten # Nul /\ Handakuten # Nul
  BY DEF Dakuten, Handakuten, Nul
<1> QED  BY <1>1, <1>2, <1>3 DEF Combination, U16CombineHan

LEMMA NextIs ==
  ASSUME NEW s \in Seq(Han), NEW i \in 1 .. Len(s), NEW script \in Scripts
  PROVE  NextAt(s, i, script) \in i + 1 .. Len(s) + 1 /\ NextAt(s, i, script) <= i + 2
<1>1. CASE Combination(s, i, script) = 0
  BY <1>1 DEF NextAt, Used
<1>2. CASE Combination(s, i, script) \in {1, 2}
  <2>1. i + 1 \in 1 .. Len(s)
    BY <1>2, CombinationIs
  <2> QED  BY <1>2, <2>1 DEF NextAt, Used
<1> QED  BY <1>1, <1>2, CombinationIs

LEMMA WideIs ==
  ASSUME NEW s \in Seq(Han), NEW i \in 1 .. Len(s), NEW script \in Scripts
  PROVE  WideAt(s, i, script) \in Zen
<1>1. s[i] \in Han
  BY ElementOfSeq
<1> QED  BY <1>1 DEF WideAt, Wide, MarkOf, Zen

\* The loop of U16HanToZen is what its recursion says, at every place.
LEMMA HanToZenIs ==
  ASSUME NEW s \in Seq(Han), NEW script \in Scripts
  PROVE  /\ HanToZenFrom(s, script) \in [Nat -> Seq(Zen)]
         /\ \A i \in Nat : HanToZenFrom(s, script)[i] =
                IF i \in 1 .. Len(s)
                THEN <<WideAt(s, i, script)>> \o HanToZenFrom(s, script)[NextAt(s, i, script)]
                ELSE <<>>
<1> DEFINE Turn(f, i) == IF At(s, i) = Nul THEN <<>>
                         ELSE LET combined == Combination(s, i, script)
                              IN  <<Wide(s[i], script, MarkOf(combined))>> \o f[i + Used(combined)]
           Recurs(f) == f = [i \in Nat |-> Turn(f, i)]
           h == HanToZenFrom(s, script)
<1>1. ASSUME NEW f, NEW i \in Nat
      PROVE  Turn(f, i) = IF i \in 1 .. Len(s) THEN <<WideAt(s, i, script)>> \o f[NextAt(s, i, script)]
                          ELSE <<>>
  <2>1. At(s, i) = Nul <=> i \notin 1 .. Len(s)
    BY AtIs
  <2> QED  BY <2>1 DEF WideAt, NextAt
<1>2. PICK N \in Nat : N = Len(s)
  OBVIOUS
<1>3. PICK first \in [1 .. N -> Zen], next \in [1 .. N -> Nat] :
        \A i \in 1 .. N : /\ first[i] = WideAt(s, i, script)
                          /\ next[i] = NextAt(s, i, script) /\ next[i] > i
  <2>1. \A i \in 1 .. N : WideAt(s, i, script) \in Zen /\ NextAt(s, i, script) \in Nat /\ NextAt(s, i, script) > i
    BY <1>2, WideIs, NextIs
  <2>2. /\ [i \in 1 .. N |-> WideAt(s, i, script)] \in [1 .. N -> Zen]
        /\ [i \in 1 .. N |-> NextAt(s, i, script)] \in [1 .. N -> Nat]
    BY <2>1
  <2> QED  BY <2>1, <2>2
<1>4. PICK g \in [Nat -> Seq(Zen)] : Chained(g, N, first, next)
  BY <1>3, ChainExists
<1>5. Recurs(g)
  <2>1. \A i \in Nat : g[i] = Turn(g, i)
    <3> HIDE DEF Turn
    <3> QED  BY <1>1, <1>2, <1>3, <1>4 DEF Chained
  <2> HIDE DEF Turn
  <2> QED  BY <2>1
<1>6. h = CHOOSE f : Recurs(f)
  BY DEF HanToZenFrom
<1>7. Recurs(h)
  <2> HIDE DEF Recurs, h
  <2> QED  BY <1>5, <1>6
<1>8. \A i \in Nat : h[i] = IF i \in 1 .. Len(s) THEN <<WideAt(s, i, script)>> \o h[NextAt(s, i, script)]
                            ELSE <<>>
  <2> HIDE DEF Turn, h
  <2> QED  BY <1>1, <1>7
<1>9. h \in [Nat -> Seq(Zen)]
  <2> DEFINE T == {i \in Nat : h[i] \in Seq(Zen)}
  <2>1. ASSUME NEW i \in Nat, i > N  PROVE i \in T
    <3>1. i \notin 1 .. Len(s)
      BY <1>2, <2>1
    <3>2. h[i] = <<>>
      <4> HIDE DEF h
      <4> QED  BY <1>8, <3>1
    <3> HIDE DEF h
    <3> QED  BY <3>2, EmptySeq
  <2>2. ASSUME NEW i \in Nat, i <= N, \A j \in Nat : j > i => j \in T  PROVE i \in T
    <3> HIDE DEF h
    <3>1. CASE i = 0
      <4>1. i \notin 1 .. Len(s)
        BY <3>1
      <4>2. h[i] = <<>>
        BY <1>8, <4>1
      <4> QED  BY <4>2, EmptySeq
    <3>2. CASE i # 0
      <4>1. i \in 1 .. Len(s)
        BY <1>2, <2>2, <3>2
      <4>2. PICK n \in Nat : n = NextAt(s, i, script) /\ n > i
        BY <4>1, NextIs, SMTT(60)
      <4>3. h[n] \in Seq(Zen) /\ <<WideAt(s, i, script)>> \in Seq(Zen)
        BY <2>2, <4>1, <4>2, WideIs
      <4>4. <<WideAt(s, i, script)>> \o h[n] \in Seq(Zen)
        BY <4>3, ConcatProperties
      <4> QED  BY <1>8, <4>1, <4>2, <4>4
    <3> QED  BY <3>1, <3>2
  <2>3. \A i \in Nat : i \in T
    <3> HIDE DEF T
    <3> QED  BY <2>1, <2>2, InductDown
  <2>4. h = [i \in Nat |-> h[i]]
    <3> HIDE DEF Turn, h
    <3>1. Recurs(h)
      BY <1>7
    <3>2. DOMAIN h = Nat
      BY <3>1
    <3> QED  BY <3>1
  <2> HIDE DEF h
  <2> QED  BY <2>3, <2>4
<1> QED  BY <1>8, <1>9

LEMMA HanToZenType ==
  ASSUME NEW s \in Seq(Han), NEW script \in Scripts, NEW i \in Nat
  PROVE  HanToZenFrom(s, script)[i] \in Seq(Zen)
BY HanToZenIs

LEMMA HanToZenEnd ==
  ASSUME NEW s \in Seq(Han), NEW script \in Scripts, NEW i \in Nat, i \notin 1 .. Len(s)
  PROVE  HanToZenFrom(s, script)[i] = <<>>
BY HanToZenIs

LEMMA HanToZenTurn ==
  ASSUME NEW s \in Seq(Han), NEW script \in Scripts, NEW i \in 1 .. Len(s)
  PROVE  HanToZenFrom(s, script)[i] =
            <<WideAt(s, i, script)>> \o HanToZenFrom(s, script)[NextAt(s, i, script)]
<1>1. i \in Nat
  OBVIOUS
<1> QED  BY <1>1, HanToZenIs

---------------------------------------------------------------------------
(* Back to half-width.                                                     *)

LEMMA FromWideType ==
  ASSUME NEW z \in Zen
  PROVE  FromWide(z) \in Seq(Narrow)
<1>1. z.from \in Narrow /\ z.mark \in Narrow /\ Error \in Narrow
  BY DEF Zen, Narrow
<1>2. <<Error>> \in Seq(Narrow) /\ <<z.from>> \in Seq(Narrow) /\ <<z.from, z.mark>> \in Seq(Narrow)
  BY <1>1
<1> QED  BY <1>2 DEF FromWide

LEMMA ZenToHanEmpty == U16ZenToHan(<<>>) = <<>>
<1>1. [i \in DOMAIN <<>> |-> FromWide(<<>>[i])] = <<>>
  OBVIOUS
<1> QED  BY <1>1, FlattenEmpty DEF U16ZenToHan

LEMMA ZenToHanCons ==
  ASSUME NEW w \in Zen, NEW z \in Seq(Zen)
  PROVE  /\ U16ZenToHan(z) \in Seq(Narrow)
         /\ U16ZenToHan(<<w>> \o z) = FromWide(w) \o U16ZenToHan(z)
<1> DEFINE each(s) == [i \in DOMAIN s |-> FromWide(s[i])]
<1>1. PICK n \in Nat : n = Len(z)
  OBVIOUS
<1>2. PICK wz : wz = <<w>> \o z
  OBVIOUS
<1>3. /\ wz \in Seq(Zen) /\ Len(wz) = n + 1 /\ wz[1] = w
      /\ \A i \in 2 .. n + 1 : wz[i] = z[i - 1]
  <2>1. <<w>> \in Seq(Zen) /\ Len(<<w>>) = 1 /\ <<w>>[1] = w
    OBVIOUS
  <2> QED  BY <1>1, <1>2, <2>1, ConcatProperties
<1>4. each(z) \in Seq(Seq(Narrow)) /\ Len(each(z)) = n /\ \A i \in 1 .. n : each(z)[i] = FromWide(z[i])
  <2>1. \A i \in 1 .. n : FromWide(z[i]) \in Seq(Narrow)
    BY <1>1, FromWideType, ElementOfSeq
  <2>2. each(z) = [i \in 1 .. n |-> FromWide(z[i])]
    BY <1>1
  <2>3. each(z) \in [1 .. n -> Seq(Narrow)]
    BY <2>1, <2>2
  <2> QED  BY <2>2, <2>3
<1>5. /\ each(wz) \in Seq(Seq(Narrow)) /\ Len(each(wz)) = n + 1
      /\ \A i \in 1 .. n + 1 : each(wz)[i] = FromWide(wz[i])
  <2>1. \A i \in 1 .. n + 1 : FromWide(wz[i]) \in Seq(Narrow)
    BY <1>3, FromWideType, ElementOfSeq
  <2>2. each(wz) = [i \in 1 .. n + 1 |-> FromWide(wz[i])]
    BY <1>3
  <2>3. each(wz) \in [1 .. n + 1 -> Seq(Narrow)]
    BY <2>1, <2>2
  <2> QED  BY <2>2, <2>3
<1>6. PICK ez, ew, ewz : ez = each(z) /\ ew = FromWide(w) /\ ewz = each(wz)
  OBVIOUS
<1>7. ewz = <<ew>> \o ez
  <2>1. <<ew>> \in Seq(Seq(Narrow)) /\ ez \in Seq(Seq(Narrow)) /\ Len(ez) = n
    BY <1>4, <1>6, FromWideType
  <2>2. /\ <<ew>> \o ez \in Seq(Seq(Narrow)) /\ Len(<<ew>> \o ez) = n + 1
        /\ (<<ew>> \o ez)[1] = ew /\ \A i \in 2 .. n + 1 : (<<ew>> \o ez)[i] = ez[i - 1]
    <3>1. Len(<<ew>>) = 1 /\ <<ew>>[1] = ew
      OBVIOUS
    <3> HIDE DEF each
    <3> QED  BY <2>1, <3>1, ConcatProperties
  <2>3. ASSUME NEW i \in 1 .. n + 1  PROVE ewz[i] = (<<ew>> \o ez)[i]
    <3> HIDE DEF each
    <3>1. CASE i = 1
      BY <1>3, <1>5, <1>6, <2>2, <3>1
    <3>2. CASE i # 1
      <4>0. i \in 2 .. n + 1
        BY <3>2
      <4>1. i - 1 \in 1 .. n
        BY <3>2
      <4>2. ewz[i] = FromWide(z[i - 1])
        BY <1>3, <1>5, <1>6, <4>0
      <4>3. ez[i - 1] = FromWide(z[i - 1])
        BY <1>4, <1>6, <4>1
      <4> QED  BY <2>2, <4>0, <4>2, <4>3
    <3> QED  BY <3>1, <3>2
  <2> HIDE DEF each
  <2> QED  BY <1>5, <1>6, <2>2, <2>3, SeqEqual
<1>8. ew \in Seq(Narrow) /\ ez \in Seq(Seq(Narrow))
  BY <1>4, <1>6, FromWideType
<1>9. FlattenSeq(ewz) = ew \o FlattenSeq(ez) /\ FlattenSeq(ez) \in Seq(Narrow)
  BY <1>7, <1>8, FlattenCons, FlattenType
<1> QED  BY <1>2, <1>6, <1>9 DEF U16ZenToHan

\* One character goes back to what it came from, mark and all, unless it is a
\* control character or a wa or wo that katakana has voiced.
LEMMA BackOne ==
  ASSUME NEW s \in Seq(Han), NEW i \in 1 .. Len(s), NEW script \in Scripts, s[i] \notin Control,
         ~(script = "kata" /\ s[i] \in KataVoiced /\ At(s, i + 1) = Dakuten)
  PROVE  FromWide(WideAt(s, i, script)) = SubSeq(s, i, NextAt(s, i, script) - 1)
<1>1. PICK w : w = WideAt(s, i, script)
  OBVIOUS
<1>2. w.from = s[i] /\ w.mark = MarkOf(Combination(s, i, script))
  BY <1>1 DEF WideAt, Wide
<1>3. Dakuten # Nul /\ Handakuten # Nul
  BY DEF Dakuten, Handakuten, Nul
<1>4. CASE Combination(s, i, script) = 0
  <2>1. FromWide(w) = <<s[i]>>
    BY <1>2, <1>4 DEF FromWide, MarkOf
  <2>2. NextAt(s, i, script) - 1 = i
    BY <1>4 DEF NextAt, Used
  <2>3. SubSeq(s, i, i) = <<s[i]>>
    <3>1. s[i] \in Han /\ i \in Int
      BY ElementOfSeq
    <3>2. SubSeq(s, i, i) \in Seq(Han) /\ Len(SubSeq(s, i, i)) = 1 /\ SubSeq(s, i, i)[1] = s[i]
      BY <3>1, SubSeqProperties
    <3>3. <<s[i]>> \in Seq(Han) /\ Len(<<s[i]>>) = 1 /\ <<s[i]>>[1] = s[i]
      BY <3>1
    <3>4. \A j \in 1 .. 1 : SubSeq(s, i, i)[j] = <<s[i]>>[j]
      BY <3>2
    <3> QED  BY <3>2, <3>3, <3>4, SeqEqual
  <2> QED  BY <1>1, <2>1, <2>2, <2>3
<1>5. CASE Combination(s, i, script) \in {1, 2}
  <2>1. s[i] \notin KataVoiced
    <3>1. CASE Combination(s, i, script) = 1
      <4>1. TakesDakuten(s[i], script) /\ i + 1 \in 1 .. Len(s) /\ s[i + 1] = Dakuten
        BY <3>1, CombinationIs
      <4>2. At(s, i + 1) = Dakuten
        BY <4>1, AtIs
      <4> QED  BY <4>1, <4>2, ClassesNest DEF TakesDakuten
    <3>2. CASE Combination(s, i, script) = 2
      <4>1. s[i] \in Both
        BY <3>2, CombinationIs
      <4> QED  BY <4>1, ClassesNest
    <3> QED  BY <1>5, <3>1, <3>2
  <2>2. i + 1 \in 1 .. Len(s) /\ s[i + 1] = w.mark /\ w.mark # Nul
    <3>1. CASE Combination(s, i, script) = 1
      <4>1. i + 1 \in 1 .. Len(s) /\ s[i + 1] = Dakuten
        BY <3>1, CombinationIs
      <4> QED  BY <1>2, <1>3, <3>1, <4>1 DEF MarkOf
    <3>2. CASE Combination(s, i, script) = 2
      <4>1. i + 1 \in 1 .. Len(s) /\ s[i + 1] = Handakuten
        BY <3>2, CombinationIs
      <4> QED  BY <1>2, <1>3, <3>2, <4>1 DEF MarkOf
    <3> QED  BY <1>5, <3>1, <3>2
  <2>3. FromWide(w) = <<s[i], s[i + 1]>>
    BY <1>2, <2>1, <2>2 DEF FromWide
  <2>4. NextAt(s, i, script) - 1 = i + 1
    BY <1>5 DEF NextAt, Used
  <2>5. SubSeq(s, i, i + 1) = <<s[i], s[i + 1]>>
    <3>1. SubSeq(s, i, i + 1) \in Seq(Han) /\ Len(SubSeq(s, i, i + 1)) = 2
      BY <2>2, SubSeqProperties, ElementOfSeq
    <3>2. <<s[i], s[i + 1]>> \in Seq(Han) /\ Len(<<s[i], s[i + 1]>>) = 2
      BY <2>2, ElementOfSeq
    <3>3. \A j \in 1 .. 2 : SubSeq(s, i, i + 1)[j] = <<s[i], s[i + 1]>>[j]
      BY <2>2, SubSeqProperties, ElementOfSeq
    <3> QED  BY <3>1, <3>2, <3>3, SeqEqual
  <2> QED  BY <1>1, <2>3, <2>4, <2>5
<1> QED  BY <1>4, <1>5, CombinationIs

\* So does a whole string.
LEMMA BackWhole ==
  ASSUME NEW s \in Seq(Han), NEW script \in Scripts,
         \A i \in 1 .. Len(s) : /\ s[i] \notin Control
                                /\ ~(script = "kata" /\ s[i] \in KataVoiced /\ At(s, i + 1) = Dakuten)
  PROVE  U16ZenToHan(U16HanToZen(s, script)) = s
<1>1. PICK N \in Nat : N = Len(s)
  OBVIOUS
<1> DEFINE h == HanToZenFrom(s, script)
           Back(i) == U16ZenToHan(h[i]) = SubSeq(s, i, N)
           T == {i \in Nat : i \in 1 .. N + 1 => Back(i)}
<1>2. ASSUME NEW i \in Nat, i > N  PROVE i \in T
  <2>1. h[i] = <<>>
    BY <1>1, <1>2, HanToZenEnd
  <2>2. SubSeq(s, i, N) = <<>>
    BY <1>2, SubSeqEmpty
  <2> HIDE DEF h
  <2> QED  BY <2>1, <2>2, ZenToHanEmpty
<1>3. ASSUME NEW i \in Nat, i <= N, \A j \in Nat : j > i => j \in T  PROVE i \in T
  <2> SUFFICES ASSUME i \in 1 .. N + 1  PROVE Back(i)
    <3> HIDE DEF Back
    <3> QED  OBVIOUS
  <2>1. i \in 1 .. Len(s)
    BY <1>1, <1>3
  <2>2. PICK n \in Nat : n = NextAt(s, i, script) /\ n \in i + 1 .. N + 1
    BY <1>1, <2>1, NextIs
  <2>3. Back(n)
    <3>1. n > i /\ n \in 1 .. N + 1
      BY <2>2
    <3> HIDE DEF Back
    <3> QED  BY <1>3, <3>1
  <2>4. h[i] = <<WideAt(s, i, script)>> \o h[n]
    BY <2>1, <2>2, HanToZenTurn
  <2>5. WideAt(s, i, script) \in Zen /\ h[n] \in Seq(Zen)
    BY <2>1, WideIs, HanToZenType
  <2>6. FromWide(WideAt(s, i, script)) = SubSeq(s, i, n - 1)
    BY <2>1, <2>2, BackOne
  <2>7. U16ZenToHan(h[i]) = SubSeq(s, i, n - 1) \o SubSeq(s, n, N)
    <3> HIDE DEF h
    <3> QED  BY <2>3, <2>4, <2>5, <2>6, ZenToHanCons
  <2>8. SubSeq(s, i, n - 1) \o SubSeq(s, (n - 1) + 1, N) = SubSeq(s, i, N)
    <3>1. n - 1 \in i - 1 .. Len(s) /\ N \in n - 1 .. Len(s) /\ i \in 1 .. Len(s) + 1
      BY <1>1, <2>1, <2>2
    <3> QED  BY <3>1, ConcatAdjacentSubSeq
  <2>9. (n - 1) + 1 = n
    OBVIOUS
  <2> QED  BY <2>7, <2>8, <2>9
<1>4. 1 \in T
  <2>1. \A i \in Nat : i \in T
    <3> HIDE DEF T
    <3> QED  BY <1>2, <1>3, InductDown
  <2> HIDE DEF T
  <2> QED  BY <2>1
<1>5. Back(1)
  <2> HIDE DEF Back
  <2> QED  BY <1>4
<1> QED  BY <1>1, <1>5, SubSeqFull DEF U16HanToZen

---------------------------------------------------------------------------
(* A string in two parts.                                                  *)

\* What is asked of a string at a place is asked of a part that has the same
\* characters there.
LEMMA SameTurn ==
  ASSUME NEW s \in Seq(Han), NEW t \in Seq(Han), NEW script \in Scripts,
         NEW i \in 1 .. Len(s), NEW j \in 1 .. Len(t),
         At(s, i) = At(t, j), At(s, i + 1) = At(t, j + 1)
  PROVE  WideAt(s, i, script) = WideAt(t, j, script) /\ NextAt(s, i, script) - i = NextAt(t, j, script) - j
<1>1. s[i] = At(s, i) /\ t[j] = At(t, j)
  BY AtIs
<1>2. Combination(s, i, script) = Combination(t, j, script)
  BY DEF Combination, U16CombineHan
<1>3. Used(Combination(s, i, script)) \in Nat
  BY DEF Used
<1> QED  BY <1>1, <1>2, <1>3 DEF WideAt, NextAt

\* The part from the (n+1)-th character on.
LEMMA LastPart ==
  ASSUME NEW s \in Seq(Han), NEW n \in 1 .. Len(s), NEW script \in Scripts
  PROVE  U16HanToZen(SubSeq(s, n + 1, Len(s)), script) = HanToZenFrom(s, script)[n + 1]
<1>1. PICK N \in Nat : N = Len(s)
  OBVIOUS
<1>2. PICK t : t = SubSeq(s, n + 1, N)
  OBVIOUS
<1>3. t \in Seq(Han) /\ Len(t) = N - n /\ \A j \in 1 .. N - n : t[j] = s[n + j]
  <2>1. n + 1 \in Int /\ N \in Int /\ \A j \in n + 1 .. N : s[j] \in Han
    BY <1>1, ElementOfSeq
  <2>2. /\ t \in Seq(Han) /\ Len(t) = IF n + 1 <= N THEN N - (n + 1) + 1 ELSE 0
        /\ \A j \in 1 .. N - (n + 1) + 1 : t[j] = s[n + 1 + j - 1]
    BY <1>2, <2>1, SubSeqProperties
  <2> QED  BY <1>1, <2>2
<1>4. ASSUME NEW j \in Nat, j >= 1  PROVE At(t, j) = At(s, n + j)
  BY <1>1, <1>3, <1>4 DEF At
<1> DEFINE h == HanToZenFrom(s, script)
           k == HanToZenFrom(t, script)
           T == {j \in Nat : j >= 1 => k[j] = h[n + j]}
<1>5. ASSUME NEW j \in Nat, j > N - n  PROVE j \in T
  <2> SUFFICES ASSUME j >= 1  PROVE k[j] = h[n + j]
    OBVIOUS
  <2>1. PICK i \in Nat : i = n + j
    OBVIOUS
  <2>2. k[j] = <<>>
    <3>1. t \in Seq(Han) /\ j \notin 1 .. Len(t)
      BY <1>1, <1>3, <1>5
    <3> QED  BY <3>1, HanToZenEnd
  <2>3. i \notin 1 .. Len(s)
    BY <1>1, <1>5, <2>1
  <2>4. h[i] = <<>>
    BY <2>3, HanToZenEnd
  <2> QED  BY <2>1, <2>2, <2>4
<1>6. ASSUME NEW j \in Nat, j <= N - n, \A m \in Nat : m > j => m \in T  PROVE j \in T
  <2> SUFFICES ASSUME j >= 1  PROVE k[j] = h[n + j]
    OBVIOUS
  <2>1. PICK i \in Nat : i = n + j
    OBVIOUS
  <2>2. j \in 1 .. Len(t) /\ i \in 1 .. Len(s)
    BY <1>1, <1>3, <1>6, <2>1
  <2>3. At(s, i) = At(t, j) /\ At(s, i + 1) = At(t, j + 1)
    <3>1. i + 1 = n + (j + 1)
      BY <2>1
    <3> QED  BY <1>4, <2>1, <3>1, SMTT(60)
  <2>4. WideAt(s, i, script) = WideAt(t, j, script) /\ NextAt(s, i, script) - i = NextAt(t, j, script) - j
    BY <1>3, <2>2, <2>3, SameTurn
  <2>5. PICK a \in Nat : a = NextAt(t, j, script) /\ a > j
    <3>1. NextAt(t, j, script) \in j + 1 .. Len(t) + 1
      BY <1>3, <2>2, NextIs
    <3> QED  BY <1>3, <3>1
  <2>10. PICK b \in Nat : b = NextAt(s, i, script)
    BY <2>2, NextIs
  <2>6. b = n + a
    BY <2>1, <2>4, <2>5, <2>10
  <2>7. k[a] = h[b]
    <3>1. a \in T /\ a >= 1
      BY <1>6, <2>5
    <3> HIDE DEF k, h
    <3> QED  BY <2>6, <3>1
  <2>8. k[j] = <<WideAt(t, j, script)>> \o k[a] /\ h[i] = <<WideAt(s, i, script)>> \o h[b]
    BY <1>3, <2>2, <2>5, <2>10, HanToZenTurn
  <2> HIDE DEF k, h
  <2> QED  BY <2>1, <2>4, <2>7, <2>8
<1>7. 1 \in T
  <2>1. N - n \in Nat
    BY <1>1
  <2>2. \A j \in Nat : j \in T
    <3> HIDE DEF T
    <3> QED  BY <1>5, <1>6, <2>1, InductDown
  <2> HIDE DEF T
  <2> QED  BY <2>2
<1> HIDE DEF k, h
<1>8. k[1] = h[n + 1]
  BY <1>7
<1> QED  BY <1>1, <1>2, <1>8 DEF k, h, U16HanToZen

\* The part up to it, when it takes no mark.
LEMMA FirstPart ==
  ASSUME NEW s \in Seq(Han), NEW n \in 1 .. Len(s), NEW script \in Scripts,
         U16CombineHan(s, n, script) = 0
  PROVE  U16HanToZen(s, script) = U16HanToZen(SubSeq(s, 1, n), script) \o HanToZenFrom(s, script)[n + 1]
<1>1. PICK t : t = SubSeq(s, 1, n)
  OBVIOUS
<1>2. t \in Seq(Han) /\ Len(t) = n /\ \A j \in 1 .. n : t[j] = s[j]
  <2>1. n \in Int /\ \A j \in 1 .. n : s[j] \in Han
    BY ElementOfSeq
  <2> QED  BY <1>1, <2>1, SubSeqProperties
<1>3. ASSUME NEW j \in 1 .. n  PROVE At(t, j) = At(s, j)
  BY <1>2 DEF At
<1>4. n \in Nat /\ n + 1 \in Nat
  OBVIOUS
<1> DEFINE h == HanToZenFrom(s, script)
           k == HanToZenFrom(t, script)
           Split(j) == h[j] = k[j] \o h[n + 1]
           T == {j \in Nat : j \in 1 .. n + 1 => Split(j)}
<1>5. ASSUME NEW j \in Nat, j > n  PROVE j \in T
  <2> SUFFICES ASSUME j = n + 1  PROVE Split(j)
    <3> HIDE DEF Split
    <3> QED  BY <1>5
  <2>1. k[j] = <<>> /\ h[j] \in Seq(Zen)
    BY <1>2, <1>5, HanToZenEnd, HanToZenType
  <2> HIDE DEF k, h
  <2> QED  BY <2>1, ConcatEmptySeq
<1>6. ASSUME NEW j \in Nat, j <= n, \A m \in Nat : m > j => m \in T  PROVE j \in T
  <2> SUFFICES ASSUME j \in 1 .. n  PROVE Split(j)
    <3> HIDE DEF Split
    <3> QED  BY <1>6
  <2>1. j \in 1 .. Len(t) /\ j \in 1 .. Len(s) /\ At(s, j) = At(t, j)
    BY <1>2, <1>3
  <2>2. /\ WideAt(s, j, script) = WideAt(t, j, script)
        /\ NextAt(s, j, script) = NextAt(t, j, script)
        /\ NextAt(s, j, script) \in j + 1 .. n + 1
    <3>1. CASE j = n
      <4>1. Combination(s, n, script) = 0
        BY DEF Combination
      <4>2. At(t, n + 1) = Nul
        BY <1>2, <1>4, AtIs
      <4>3. At(t, n) \in Han /\ At(t, n + 1) # Dakuten /\ At(t, n + 1) # Handakuten
        BY <1>2, <2>1, <3>1, <4>2, AtIs DEF Nul, Dakuten, Handakuten
      <4>4. Combination(t, n, script) = 0
        BY <4>3 DEF Combination, U16CombineHan
      <4> QED  BY <1>2, <3>1, <4>1, <4>4 DEF WideAt, NextAt, Used
    <3>2. CASE j < n
      <4>1. At(s, j + 1) = At(t, j + 1)
        BY <1>3, <3>2
      <4>2. WideAt(s, j, script) = WideAt(t, j, script) /\ NextAt(s, j, script) - j = NextAt(t, j, script) - j
        BY <1>2, <2>1, <4>1, SameTurn
      <4>3. NextAt(t, j, script) \in j + 1 .. n + 1 /\ NextAt(s, j, script) \in Int
        BY <1>2, <2>1, NextIs
      <4> QED  BY <4>2, <4>3
    <3> QED  BY <3>1, <3>2
  <2>3. PICK a \in Nat : a = NextAt(s, j, script) /\ a > j /\ a \in 1 .. n + 1
    BY <2>2
  <2>4. Split(a)
    <3>1. a \in T
      BY <1>6, <2>3
    <3> HIDE DEF Split
    <3> QED  BY <2>3, <3>1
  <2>5. PICK w : w = <<WideAt(s, j, script)>>
    OBVIOUS
  <2>6. h[j] = w \o h[a] /\ k[j] = w \o k[a]
    BY <1>2, <2>1, <2>2, <2>3, <2>5, HanToZenTurn
  <2>7. w \in Seq(Zen) /\ k[a] \in Seq(Zen) /\ h[n + 1] \in Seq(Zen)
    BY <1>2, <1>4, <2>1, <2>5, WideIs, HanToZenType
  <2>8. (w \o k[a]) \o h[n + 1] = w \o (k[a] \o h[n + 1])
    <3>1. PICK x \in Seq(Zen), y \in Seq(Zen) : x = k[a] /\ y = h[n + 1]
      BY <2>7
    <3>2. (w \o x) \o y = w \o (x \o y)
      <4> HIDE DEF k, h, T, Split
      <4> QED  BY <2>7, ConcatAssociative, SMTT(60)
    <3> QED  BY <3>1, <3>2
  <2> HIDE DEF k, h
  <2> QED  BY <2>4, <2>6, <2>8
<1>7. 1 \in T
  <2>1. \A j \in Nat : j \in T
    <3> HIDE DEF T
    <3> QED  BY <1>4, <1>5, <1>6, InductDown
  <2> HIDE DEF T
  <2> QED  BY <2>1
<1>8. Split(1)
  <2> HIDE DEF Split
  <2> QED  BY <1>4, <1>7
<1> QED  BY <1>1, <1>8 DEF U16HanToZen

---------------------------------------------------------------------------

\* The string that is converted is one of half-width characters.
HalfWidth == src \in Seq(Han)

LEMMA KTypes == KSpec => []HalfWidth
<1>1. KInit => HalfWidth
  BY EmptySeq DEF KInit, HalfWidth
<1>2. HalfWidth /\ [Type]_src => HalfWidth'
  BY AppendProperties DEF Type, HalfWidth
<1> QED  BY <1>1, <1>2, PTL DEF KSpec

\* A string reaches a client and comes back as it was, in UTF-16 or in
\* EUC-JP: its end lets the second converter go of the last kana.
LEMMA ThereAndBack ==
  ASSUME NEW z \in Seq(Zen), NEW utf16 \in BOOLEAN,
         utf16 \/ \A i \in DOMAIN z : ~ Missing(z[i])
  PROVE  FromClientToU16(FromU16ToClient(z, utf16)) = z
<1>1. PICK n \in Nat : n = Len(z) /\ DOMAIN z = 1 .. n
  OBVIOUS
<1>2. PICK w : w = Append(z, End)
  OBVIOUS
<1> DEFINE ZE == Zen \cup {End}
<1>3. z \in Seq(ZE) /\ End \in ZE
  <2>1. Zen \subseteq ZE /\ End \in ZE
    OBVIOUS
  <2> HIDE DEF ZE
  <2> QED  BY <2>1
<1>4. /\ w \in Seq(ZE) /\ Len(w) = n + 1 /\ w[n + 1] = End
      /\ \A i \in 1 .. n : w[i] = z[i]
  <2> HIDE DEF ZE
  <2> QED  BY <1>1, <1>2, <1>3, AppendProperties
<1>5. w # <<>> /\ Last(w) = End /\ DOMAIN w = 1 .. n + 1
  <2> HIDE DEF ZE
  <2> QED  BY <1>1, <1>4 DEF Last
<1>6. Front(w) = z
  <2>1. Front(w) = SubSeq(w, 1, n)
    BY <1>1, <1>4 DEF Front
  <2>2. PICK v : v = SubSeq(w, 1, n)
    OBVIOUS
  <2>3. v \in Seq(ZE) /\ Len(v) = n /\ \A i \in 1 .. n : v[i] = w[i]
    <3>1. n \in Int /\ \A i \in 1 .. n : w[i] \in ZE
      <4> HIDE DEF ZE
      <4> QED  BY <1>4, ElementOfSeq
    <3> HIDE DEF ZE
    <3> QED  BY <2>2, <3>1, SubSeqProperties
  <2>4. v = z
    <3>1. Len(v) = Len(z) /\ \A i \in 1 .. Len(v) : v[i] = z[i]
      BY <1>1, <1>4, <2>3
    <3>2. v \in Seq(ZE) /\ z \in Seq(ZE)
      BY <1>3, <2>3
    <3> HIDE DEF ZE
    <3> QED  BY <3>1, <3>2, SeqEqual
  <2> QED  BY <2>1, <2>2, <2>4
<1>7. FromU16ToClient(z, utf16) = w
  <2>1. CASE utf16
    BY <1>2, <2>1 DEF FromU16ToClient, WithEnd
  <2>2. CASE ~ utf16
    <3>1. ~ Waits(w)
      <4>1. <<Nul, "any">> \notin MayCombine
        BY KanaCombine DEF Scripts
      <4> QED  BY <1>5, <4>1 DEF Waits, End
    <3>2. ASSUME NEW i \in 1 .. n + 1  PROVE ~ Missing(w[i])
      <4>1. CASE i = n + 1
        BY <1>4, <4>1 DEF Missing, NotInMs, End, Nul, Dakuten
      <4>2. CASE i # n + 1
        <5>1. i \in DOMAIN z /\ w[i] = z[i]
          BY <1>1, <1>4, <4>2
        <5> QED  BY <2>2, <5>1
      <4> QED  BY <4>1, <4>2
    <3> DEFINE ej == [i \in DOMAIN w |-> IF Missing(w[i]) THEN Tofu ELSE w[i]]
    <3>3. ej = w
      <4>1. ej = [i \in DOMAIN w |-> w[i]]
        BY <1>5, <3>2
      <4>2. w = [i \in DOMAIN w |-> w[i]]
        <5> HIDE DEF ZE
        <5>1. PICK m \in Nat : w \in [1 .. m -> ZE]
          BY <1>4, SeqDef
        <5> QED  BY <5>1
      <4> QED  BY <4>1, <4>2
    <3>4. U16ToWej(w) = ej
      BY <3>1 DEF U16ToWej
    <3>5. FromU16ToClient(z, utf16) = U16ToWej(w)
      BY <1>2, <2>2 DEF FromU16ToClient, WithEnd
    <3> HIDE DEF ej
    <3> QED  BY <3>3, <3>4, <3>5
  <2> QED  BY <2>1, <2>2
<1> QED  BY <1>5, <1>6, <1>7 DEF FromClientToU16

\* A reading that a client got and sent back is the one it was: U16ZenToHan
\* undoes U16HanToZen on strings of any length, but for a wa or wo that
\* katakana has voiced, and the way between, in EUC-JP too, undoes itself,
\* but for what iconv has no EUC code for.
THEOREM Reconversion == KSpec => []ReadingComesBack
<1> DEFINE range == {src[i] : i \in 1 .. Len(src)}
           lost == \E i \in 1 .. Len(src) : At(src, i) \in KataVoiced /\ At(src, i + 1) = Dakuten
           passes(z, utf16) == utf16 \/ \A i \in DOMAIN z : ~ Missing(z[i])
           back(z, utf16) == U16ZenToHan(FromClientToU16(FromU16ToClient(z, utf16)))
<1>1. ASSUME src \in Seq(Han), range \cap Control = {}
      PROVE  /\ U16ZenToHan(U16HanToZen(src, "hira")) = src
             /\ U16ZenToHan(U16HanToZen(src, "kata")) = src \/ lost
             /\ U16HanToZen(src, "hira") \in Seq(Zen) /\ U16HanToZen(src, "kata") \in Seq(Zen)
  <2>1. \A i \in 1 .. Len(src) : src[i] \notin Control /\ At(src, i) = src[i]
    BY <1>1, AtIs
  <2>2. "hira" \in Scripts /\ "kata" \in Scripts
    BY DEF Scripts
  <2>3. U16ZenToHan(U16HanToZen(src, "hira")) = src
    BY <1>1, <2>1, <2>2, BackWhole
  <2>4. U16ZenToHan(U16HanToZen(src, "kata")) = src \/ lost
    BY <1>1, <2>1, <2>2, BackWhole
  <2>5. U16HanToZen(src, "hira") \in Seq(Zen) /\ U16HanToZen(src, "kata") \in Seq(Zen)
    BY <1>1, <2>2, HanToZenType DEF U16HanToZen
  <2> QED  BY <2>3, <2>4, <2>5
<1>2. ASSUME src \in Seq(Han), range \cap Control = {}, NEW utf16 \in BOOLEAN
      PROVE  /\ passes(U16HanToZen(src, "hira"), utf16) => back(U16HanToZen(src, "hira"), utf16) = src
             /\ passes(U16HanToZen(src, "kata"), utf16) => back(U16HanToZen(src, "kata"), utf16) = src \/ lost
  BY <1>1, <1>2, ThereAndBack
<1>3. HalfWidth => ReadingComesBack
  BY <1>2 DEF ReadingComesBack, HalfWidth
<1> QED  BY <1>3, KTypes, PTL

\* A reading may be cut wherever U16CombineHan combines nothing: the parts
\* are converted to the parts of the conversion, for strings of any length.
THEOREM CutAnywhereWhole == KSpec => []CutsWhereWhole
<1>1. HalfWidth => CutsWhereWhole
  BY FirstPart, LastPart DEF CutsWhereWhole, HalfWidth
<1> QED  BY <1>1, KTypes, PTL

---------------------------------------------------------------------------
(* What a concatenation holds.                                             *)

Holds(s, x) == \E k \in 1 .. Len(s) : s[k] = x

LEMMA HoldsConcat ==
  ASSUME NEW S, NEW a \in Seq(S), NEW b \in Seq(S), NEW x
  PROVE  Holds(a \o b, x) <=> Holds(a, x) \/ Holds(b, x)
<1>1. PICK m \in Nat : m = Len(a)
  OBVIOUS
<1>2. PICK n \in Nat : n = Len(b)
  OBVIOUS
<1>3. PICK c : c = a \o b
  OBVIOUS
<1>4. Len(c) = m + n /\ \A i \in 1 .. m + n : c[i] = IF i <= m THEN a[i] ELSE b[i - m]
  BY <1>1, <1>2, <1>3, ConcatProperties
<1>5. ASSUME NEW k \in 1 .. m + n, c[k] = x  PROVE Holds(a, x) \/ Holds(b, x)
  <2>1. CASE k <= m
    <3>1. k \in 1 .. m /\ a[k] = x
      BY <1>4, <1>5, <2>1
    <3> QED  BY <1>1, <3>1 DEF Holds
  <2>2. CASE ~(k <= m)
    <3>1. k - m \in 1 .. n /\ b[k - m] = x
      BY <1>4, <1>5, <2>2
    <3> QED  BY <1>2, <3>1 DEF Holds
  <2> QED  BY <2>1, <2>2
<1>6. ASSUME NEW k \in 1 .. m, a[k] = x  PROVE Holds(c, x)
  <2>1. k \in 1 .. m + n /\ k <= m
    OBVIOUS
  <2>2. c[k] = x
    BY <1>4, <1>6, <2>1
  <2> QED  BY <1>4, <2>1, <2>2 DEF Holds
<1>7. ASSUME NEW k \in 1 .. n, b[k] = x  PROVE Holds(c, x)
  <2>1. PICK l \in 1 .. m + n : l = m + k
    OBVIOUS
  <2>2. ~(l <= m) /\ l - m = k
    BY <2>1
  <2>3. c[l] = x
    BY <1>4, <1>7, <2>2
  <2> QED  BY <1>4, <2>3 DEF Holds
<1> QED  BY <1>1, <1>2, <1>3, <1>4, <1>5, <1>6, <1>7 DEF Holds

LEMMA FlattenHolds ==
  ASSUME NEW S, NEW ss \in Seq(Seq(S)), NEW x
  PROVE  Holds(FlattenSeq(ss), x) <=> \E j \in 1 .. Len(ss) : Holds(ss[j], x)
<1> DEFINE In(t) == Holds(FlattenSeq(t), x) <=> \E j \in 1 .. Len(t) : Holds(t[j], x)
           T == {t \in Seq(Seq(S)) : In(t)}
<1>1. <<>> \in T
  <2>1. Len(<<>>) = 0 /\ <<>> \in Seq(Seq(S))
    OBVIOUS
  <2>2. ~ Holds(<<>>, x)
    BY <2>1 DEF Holds
  <2>3. FlattenSeq(<<>>) = <<>>
    BY FlattenEmpty
  <2> QED  BY <2>1, <2>2, <2>3
<1>2. ASSUME NEW t \in Seq(Seq(S)), NEW e \in Seq(S), t \in T  PROVE Append(t, e) \in T
  <2>1. PICK u : u = Append(t, e)
    OBVIOUS
  <2>2. PICK n \in Nat : n = Len(t)
    OBVIOUS
  <2>3. u \in Seq(Seq(S)) /\ Len(u) = n + 1 /\ u[n + 1] = e /\ \A j \in 1 .. n : u[j] = t[j]
    BY <2>1, <2>2, AppendProperties
  <2>4. FlattenSeq(u) = FlattenSeq(t) \o e
    BY <2>1, FlattenAppend
  <2>5. Holds(FlattenSeq(u), x) <=> Holds(FlattenSeq(t), x) \/ Holds(e, x)
    <3>1. FlattenSeq(t) \in Seq(S)
      BY FlattenType
    <3> QED  BY <2>4, <3>1, HoldsConcat
  <2>6. In(t)
    BY <1>2
  <2>7. (\E j \in 1 .. n + 1 : Holds(u[j], x)) <=> (\E j \in 1 .. n : Holds(t[j], x)) \/ Holds(e, x)
    <3>1. \A j \in 1 .. n + 1 : j \in 1 .. n \/ j = n + 1
      OBVIOUS
    <3>2. n + 1 \in 1 .. n + 1 /\ \A j \in 1 .. n : j \in 1 .. n + 1
      OBVIOUS
    <3> QED  BY <2>3, <3>1, <3>2
  <2>8. In(u)
    BY <2>2, <2>3, <2>5, <2>6, <2>7
  <2> QED  BY <2>1, <2>3, <2>8
<1>3. ss \in T
  <2> HIDE DEF T
  <2> QED  BY <1>1, <1>2, SeqInduct
<1> QED  BY <1>3

---------------------------------------------------------------------------
(* The table of the parts of speech.                                       *)

\* The entry of one pattern, and those of one line.
EntryOf(line, p) == [Wcode |-> line.code, Ccode |-> p]
EntryOrNone(line, p) == IF p \in Bad THEN <<>> ELSE <<EntryOf(line, p)>>

LEMMA LineTypes ==
  ASSUME NEW line \in Lines
  PROVE  line.code \in Nat /\ line.patterns \in Seq(Patterns)
BY LinesAssumption

LEMMA EntriesParts ==
  ASSUME NEW line \in Lines
  PROVE  LET parts == [i \in DOMAIN line.patterns |-> EntryOrNone(line, line.patterns[i])]
         IN  /\ parts \in Seq(Seq(TableEntry)) /\ Len(parts) = Len(line.patterns)
             /\ \A i \in 1 .. Len(line.patterns) : parts[i] = EntryOrNone(line, line.patterns[i])
             /\ Entries(line) = FlattenSeq(parts)
<1>1. PICK pats : pats = line.patterns
  OBVIOUS
<1>2. PICK n \in Nat : n = Len(pats)
  BY <1>1, LineTypes
<1>3. pats \in Seq(Patterns) /\ line.code \in Nat
  BY <1>1, LineTypes
<1>4. ASSUME NEW i \in 1 .. n  PROVE EntryOrNone(line, pats[i]) \in Seq(TableEntry)
  <2>1. pats[i] \in Patterns
    BY <1>2, <1>3, ElementOfSeq
  <2>2. EntryOf(line, pats[i]) \in TableEntry
    BY <1>3, <2>1 DEF EntryOf, TableEntry
  <2> QED  BY <2>2 DEF EntryOrNone
<1>5. PICK parts : parts = [i \in 1 .. n |-> EntryOrNone(line, pats[i])]
  OBVIOUS
<1>6. parts \in [1 .. n -> Seq(TableEntry)]
  BY <1>4, <1>5
<1>7. DOMAIN pats = 1 .. n
  BY <1>2, <1>3
<1>8. parts = [i \in DOMAIN line.patterns |-> EntryOrNone(line, line.patterns[i])]
  BY <1>1, <1>5, <1>7
<1>9. Entries(line) = FlattenSeq(parts)
  BY <1>8 DEF Entries, EntryOrNone, EntryOf
<1> QED  BY <1>1, <1>2, <1>5, <1>6, <1>8, <1>9

LEMMA EntriesIs ==
  ASSUME NEW line \in Lines
  PROVE  /\ Entries(line) \in Seq(TableEntry)
         /\ \A e : Holds(Entries(line), e) <=>
               \E i \in DOMAIN line.patterns : /\ line.patterns[i] \notin Bad
                                               /\ e = EntryOf(line, line.patterns[i])
<1>1. PICK n \in Nat : n = Len(line.patterns)
  BY LineTypes
<1>2. DOMAIN line.patterns = 1 .. n
  BY <1>1, LineTypes
<1>3. PICK parts : parts = [i \in DOMAIN line.patterns |-> EntryOrNone(line, line.patterns[i])]
  OBVIOUS
<1>4. /\ parts \in Seq(Seq(TableEntry)) /\ Len(parts) = n
      /\ \A i \in 1 .. n : parts[i] = EntryOrNone(line, line.patterns[i])
      /\ Entries(line) = FlattenSeq(parts)
  BY <1>1, <1>3, EntriesParts
<1>5. Entries(line) \in Seq(TableEntry)
  BY <1>4, FlattenType
<1>6. ASSUME NEW e
      PROVE  Holds(Entries(line), e) <=>
                \E i \in 1 .. n : /\ line.patterns[i] \notin Bad
                                  /\ e = EntryOf(line, line.patterns[i])
  <2>1. Holds(Entries(line), e) <=> \E i \in 1 .. n : Holds(parts[i], e)
    BY <1>4, FlattenHolds
  <2>2. ASSUME NEW i \in 1 .. n
        PROVE  Holds(parts[i], e) <=>
                  line.patterns[i] \notin Bad /\ e = EntryOf(line, line.patterns[i])
    <3>1. PICK p : p = line.patterns[i]
      OBVIOUS
    <3>2. parts[i] = EntryOrNone(line, p)
      BY <1>4, <3>1
    <3>3. CASE p \in Bad
      <4>1. parts[i] = <<>> /\ Len(<<>>) = 0
        BY <3>2, <3>3 DEF EntryOrNone
      <4> QED  BY <3>1, <3>3, <4>1 DEF Holds
    <3>4. CASE p \notin Bad
      <4>1. PICK o : o = EntryOf(line, p)
        OBVIOUS
      <4>2. parts[i] = <<o>> /\ Len(<<o>>) = 1 /\ <<o>>[1] = o
        BY <3>2, <3>4, <4>1 DEF EntryOrNone
      <4>3. Holds(parts[i], e) <=> e = o
        BY <4>2 DEF Holds
      <4> QED  BY <3>1, <3>4, <4>1, <4>3
    <3> QED  BY <3>3, <3>4
  <2> QED  BY <2>1, <2>2
<1> QED  BY <1>2, <1>5, <1>6

\* What is wanted of a file, line by line.
OfLine(line) == IF EntryLine(line) THEN Entries(line) ELSE <<>>

LEMMA WantedParts ==
  ASSUME NEW file \in Seq(Lines)
  PROVE  LET parts == [i \in DOMAIN file |-> OfLine(file[i])]
         IN  /\ parts \in Seq(Seq(TableEntry)) /\ Len(parts) = Len(file)
             /\ \A i \in 1 .. Len(file) : parts[i] = OfLine(file[i])
             /\ Wanted(file) = FlattenSeq(parts)
<1>1. PICK n \in Nat : n = Len(file)
  OBVIOUS
<1>2. ASSUME NEW i \in 1 .. n  PROVE OfLine(file[i]) \in Seq(TableEntry)
  <2>1. file[i] \in Lines
    BY <1>1, ElementOfSeq
  <2>2. Entries(file[i]) \in Seq(TableEntry)
    BY <2>1, EntriesIs
  <2> QED  BY <2>2 DEF OfLine
<1>3. PICK parts : parts = [i \in 1 .. n |-> OfLine(file[i])]
  OBVIOUS
<1>4. parts \in [1 .. n -> Seq(TableEntry)]
  BY <1>2, <1>3
<1>5. parts = [i \in DOMAIN file |-> OfLine(file[i])]
  BY <1>1, <1>3
<1>6. Wanted(file) = FlattenSeq(parts)
  BY <1>5 DEF Wanted, OfLine
<1> QED  BY <1>1, <1>3, <1>4, <1>5, <1>6

LEMMA WantedEmpty == Wanted(<<>>) = <<>>
<1>1. [i \in DOMAIN <<>> |-> IF EntryLine(<<>>[i]) THEN Entries(<<>>[i]) ELSE <<>>] = <<>>
  OBVIOUS
<1> QED  BY <1>1, FlattenEmpty DEF Wanted

LEMMA WantedAppend ==
  ASSUME NEW file \in Seq(Lines), NEW line \in Lines
  PROVE  /\ Wanted(file) \in Seq(TableEntry)
         /\ Wanted(Append(file, line)) = Wanted(file) \o OfLine(line)
<1>1. PICK n \in Nat : n = Len(file)
  OBVIOUS
<1>2. PICK more : more = Append(file, line)
  OBVIOUS
<1>3. more \in Seq(Lines) /\ Len(more) = n + 1 /\ more[n + 1] = line /\ \A i \in 1 .. n : more[i] = file[i]
  BY <1>1, <1>2, AppendProperties
<1>4. PICK p, q, S : /\ p = [i \in DOMAIN file |-> OfLine(file[i])]
                     /\ q = [i \in DOMAIN more |-> OfLine(more[i])]
                     /\ S = Seq(TableEntry)
  OBVIOUS
<1>5. /\ p \in Seq(S) /\ Len(p) = n /\ (\A i \in 1 .. n : p[i] = OfLine(file[i]))
      /\ Wanted(file) = FlattenSeq(p)
  BY <1>1, <1>4, WantedParts
<1>6. /\ q \in Seq(S) /\ Len(q) = n + 1 /\ (\A i \in 1 .. n + 1 : q[i] = OfLine(more[i]))
      /\ Wanted(more) = FlattenSeq(q)
  BY <1>3, <1>4, WantedParts
<1>7. PICK o : o = OfLine(line)
  OBVIOUS
<1>8. o \in S
  <2>1. n + 1 \in 1 .. n + 1
    OBVIOUS
  <2>2. q[n + 1] \in S
    BY <1>6, <2>1, ElementOfSeq
  <2> QED  BY <1>3, <1>6, <1>7, <2>1, <2>2
<1>9. PICK po : po = Append(p, o)
  OBVIOUS
<1>10. po \in Seq(S) /\ Len(po) = n + 1 /\ po[n + 1] = o /\ \A i \in 1 .. n : po[i] = p[i]
  BY <1>5, <1>8, <1>9, AppendProperties
<1>11. ASSUME NEW i \in 1 .. n + 1  PROVE q[i] = po[i]
  <2>1. CASE i = n + 1
    BY <1>3, <1>6, <1>7, <1>10, <2>1
  <2>2. CASE i # n + 1
    <3>1. i \in 1 .. n
      BY <2>2
    <3> QED  BY <1>3, <1>5, <1>6, <1>10, <3>1
  <2> QED  BY <2>1, <2>2
<1>12. q = po
  BY <1>6, <1>10, <1>11, SeqEqual
<1>13. FlattenSeq(Append(p, o)) = FlattenSeq(p) \o o
  BY <1>4, <1>5, <1>8, FlattenAppend
<1>14. FlattenSeq(p) \in Seq(TableEntry)
  BY <1>4, <1>5, FlattenType
<1> QED  BY <1>2, <1>5, <1>6, <1>7, <1>9, <1>12, <1>13, <1>14

LEMMA WantedHolds ==
  ASSUME NEW file \in Seq(Lines), NEW e
  PROVE  Holds(Wanted(file), e) <=> \E j \in 1 .. Len(file) : Holds(OfLine(file[j]), e)
<1>1. PICK parts : parts = [i \in DOMAIN file |-> OfLine(file[i])]
  OBVIOUS
<1>2. /\ parts \in Seq(Seq(TableEntry)) /\ Len(parts) = Len(file)
      /\ \A i \in 1 .. Len(file) : parts[i] = OfLine(file[i])
      /\ Wanted(file) = FlattenSeq(parts)
  BY <1>1, WantedParts
<1>3. Holds(FlattenSeq(parts), e) <=> \E j \in 1 .. Len(parts) : Holds(parts[j], e)
  BY <1>2, FlattenHolds
<1> QED  BY <1>2, <1>3
LEMMA WantedConcat ==
  ASSUME NEW a \in Seq(Lines), NEW b \in Seq(Lines)
  PROVE  /\ Wanted(a) \in Seq(TableEntry) /\ Wanted(b) \in Seq(TableEntry)
         /\ Wanted(a \o b) = Wanted(a) \o Wanted(b)
<1> DEFINE In(t) == Wanted(t) \in Seq(TableEntry) /\ Wanted(a \o t) = Wanted(a) \o Wanted(t)
           T == {t \in Seq(Lines) : In(t)}
<1>1. Wanted(a) \in Seq(TableEntry)
  <2>1. PICK parts : parts = [i \in DOMAIN a |-> OfLine(a[i])]
    OBVIOUS
  <2>2. parts \in Seq(Seq(TableEntry)) /\ Wanted(a) = FlattenSeq(parts)
    BY <2>1, WantedParts
  <2> QED  BY <2>2, FlattenType
<1>2. <<>> \in T
  <2>1. Wanted(a) \o <<>> = Wanted(a) /\ a \o <<>> = a
    BY <1>1, ConcatEmptySeq
  <2>2. Wanted(<<>>) \in Seq(TableEntry)
    <3>1. PICK w : w = Wanted(<<>>)
      OBVIOUS
    <3>2. w = <<>>
      BY <3>1, WantedEmpty
    <3> HIDE DEF T, In
    <3>3. w \in Seq(TableEntry)
      BY <3>2
    <3> QED  BY <3>1, <3>3
  <2>3. Wanted(a \o <<>>) = Wanted(a) \o Wanted(<<>>)
    BY <2>1, WantedEmpty
  <2>4. <<>> \in Seq(Lines)
    OBVIOUS
  <2> QED  BY <2>2, <2>3, <2>4
<1>3. ASSUME NEW t \in Seq(Lines), NEW line \in Lines, t \in T  PROVE Append(t, line) \in T
  <2>1. PICK u : u = Append(t, line)
    OBVIOUS
  <2>2. PICK at : at = a \o t
    OBVIOUS
  <2>3. u \in Seq(Lines) /\ at \in Seq(Lines) /\ <<line>> \in Seq(Lines)
    BY <2>1, <2>2, AppendProperties, ConcatProperties
  <2>4. a \o u = Append(at, line)
    <3>1. u = t \o <<line>> /\ Append(at, line) = at \o <<line>>
      BY <2>1, <2>3, AppendIsConcat
    <3>2. (a \o t) \o <<line>> = a \o (t \o <<line>>)
      BY <2>3, ConcatAssociative, SMTT(60)
    <3> QED  BY <2>2, <3>1, <3>2
  <2>5. PICK w, o : w = Wanted(t) /\ o = OfLine(line)
    OBVIOUS
  <2>6. w \in Seq(TableEntry) /\ Wanted(at) = Wanted(a) \o w
    BY <1>3, <2>2, <2>5
  <2>7. o \in Seq(TableEntry)
    <3>1. Entries(line) \in Seq(TableEntry)
      BY EntriesIs
    <3> QED  BY <2>5, <3>1 DEF OfLine
  <2>8. Wanted(u) = w \o o
    BY <2>1, <2>5, WantedAppend
  <2>9. Wanted(Append(at, line)) = Wanted(at) \o o
    BY <2>3, <2>5, WantedAppend
  <2>10. (Wanted(a) \o w) \o o = Wanted(a) \o (w \o o)
    <3>1. PICK wa, S : wa = Wanted(a) /\ S = TableEntry
      OBVIOUS
    <3>2. wa \in Seq(S) /\ w \in Seq(S) /\ o \in Seq(S)
      BY <1>1, <2>6, <2>7, <3>1
    <3> HIDE DEF T, In
    <3>3. (wa \o w) \o o = wa \o (w \o o)
      BY <3>2, ConcatAssociative, SMTT(60)
    <3> QED  BY <3>1, <3>3
  <2>11. w \o o \in Seq(TableEntry)
    BY <2>6, <2>7, ConcatProperties
  <2>12. In(u)
    BY <2>4, <2>6, <2>8, <2>9, <2>10, <2>11
  <2> QED  BY <2>1, <2>3, <2>12
<1>4. b \in T
  <2> HIDE DEF T
  <2> QED  BY <1>2, <1>3, SeqInduct
<1> QED  BY <1>1, <1>4

\* A concatenation, element by element: c is a, with m elements, and then b,
\* with n.
Joins(c, a, m, b, n) == /\ Len(c) = m + n
                        /\ \A j \in 1 .. m + n : c[j] = IF j <= m THEN a[j] ELSE b[j - m]

LEMMA ConcatIs ==
  ASSUME NEW S, NEW a \in Seq(S), NEW b \in Seq(S), NEW m \in Nat, m = Len(a), NEW n \in Nat, n = Len(b)
  PROVE  a \o b \in Seq(S) /\ Joins(a \o b, a, m, b, n)
BY ConcatProperties DEF Joins

\* Where the parts of a sequence stand in it.
LEMMA ThreeParts ==
  ASSUME NEW S, NEW a \in Seq(S), NEW t \in Seq(S), NEW b \in Seq(S), NEW c, c = (a \o t) \o b
  PROVE  /\ c \in Seq(S) /\ Len(c) = Len(a) + Len(t) + Len(b)
         /\ \A j \in 1 .. Len(a) : c[j] = a[j]
         /\ \A j \in 1 .. Len(t) : c[Len(a) + j] = t[j]
<1>1. PICK at : at = a \o t
  OBVIOUS
<1>2. PICK m \in Nat : m = Len(a)
  OBVIOUS
<1>3. PICK n \in Nat : n = Len(t)
  OBVIOUS
<1>4. PICK k \in Nat : k = Len(b)
  OBVIOUS
<1>5. /\ at \in Seq(S) /\ Len(at) = m + n
      /\ \A j \in 1 .. m + n : at[j] = IF j <= m THEN a[j] ELSE t[j - m]
  BY <1>1, <1>2, <1>3, ConcatProperties
<1>6. PICK d : d = at \o b
  OBVIOUS
<1>7. /\ d \in Seq(S) /\ Len(d) = m + n + k
      /\ \A j \in 1 .. m + n + k : d[j] = IF j <= m + n THEN at[j] ELSE b[j - (m + n)]
  <2>1. PICK l \in Nat : l = m + n
    OBVIOUS
  <2>2. at \in Seq(S) /\ Len(at) = l
    BY <1>5, <2>1
  <2>3. d \in Seq(S) /\ Joins(d, at, l, b, k)
    BY <1>4, <1>6, <2>2, ConcatIs
  <2>4. /\ Len(d) = l + k
        /\ \A j \in 1 .. l + k : d[j] = IF j <= l THEN at[j] ELSE b[j - l]
    BY <2>3 DEF Joins
  <2> QED  BY <2>1, <2>3, <2>4
<1>8. ASSUME NEW j \in 1 .. m  PROVE d[j] = a[j]
  <2>1. j \in 1 .. m + n /\ j \in 1 .. m + n + k /\ j <= m /\ j <= m + n
    OBVIOUS
  <2> QED  BY <1>5, <1>7, <2>1
<1>9. \A j \in 1 .. Len(t) : ((a \o t) \o b)[Len(a) + j] = t[j]
  BY MiddlePart
<1>10. c = d
  BY <1>1, <1>6
<1> QED  BY <1>1, <1>2, <1>3, <1>4, <1>6, <1>7, <1>8, <1>9, <1>10

Occurs(s, x) == \E i \in DOMAIN s : s[i] = x

LEMMA AfterPart ==
  ASSUME NEW S, NEW a \in Seq(S), NEW x \in S, NEW b \in Seq(S)
  PROVE  Occurs(Append(a, x) \o b, x)
<1>1. PICK one, c : one = <<x>> /\ c = (a \o one) \o b
  OBVIOUS
<1>2. one \in Seq(S) /\ Len(one) = 1 /\ one[1] = x
  BY <1>1
<1>3. /\ c \in Seq(S) /\ Len(c) = Len(a) + Len(one) + Len(b)
      /\ \A j \in 1 .. Len(one) : c[Len(a) + j] = one[j]
  BY <1>1, <1>2, ThreeParts
<1>4. c[Len(a) + 1] = x /\ Len(a) + 1 \in DOMAIN c
  BY <1>2, <1>3
<1>5. Append(a, x) = a \o one
  BY <1>1, AppendIsConcat
<1> QED  BY <1>1, <1>4, <1>5 DEF Occurs

\* What the patterns of a line hit.
Hit(e, text) == <<e.Ccode, text>> \in Matches

LEMMA HitsOfLine ==
  ASSUME NEW line \in Lines, NEW text
  PROVE  /\ \A k \in 1 .. Len(Entries(line)) :
               /\ Entries(line)[k].Wcode = line.code
               /\ Hit(Entries(line)[k], text) => Names(line, text)
         /\ Names(line, text) => \E k \in 1 .. Len(Entries(line)) : Hit(Entries(line)[k], text)
<1>1. PICK es : es = Entries(line)
  OBVIOUS
<1>2. \A e : Holds(es, e) <=> \E i \in DOMAIN line.patterns :
                                 /\ line.patterns[i] \notin Bad
                                 /\ e = EntryOf(line, line.patterns[i])
  BY <1>1, EntriesIs
<1>3. \A p : EntryOf(line, p).Wcode = line.code /\ EntryOf(line, p).Ccode = p
  BY DEF EntryOf
<1>4. ASSUME NEW k \in 1 .. Len(es)
      PROVE  es[k].Wcode = line.code /\ (Hit(es[k], text) => Names(line, text))
  <2>1. Holds(es, es[k])
    BY DEF Holds
  <2>2. PICK i \in DOMAIN line.patterns : /\ line.patterns[i] \notin Bad
                                          /\ es[k] = EntryOf(line, line.patterns[i])
    BY <1>2, <2>1
  <2>3. es[k].Wcode = line.code /\ es[k].Ccode = line.patterns[i]
    BY <1>3, <2>2
  <2> QED  BY <2>2, <2>3 DEF Hit, Names
<1>5. ASSUME Names(line, text)  PROVE \E k \in 1 .. Len(es) : Hit(es[k], text)
  <2>1. PICK i \in DOMAIN line.patterns : /\ line.patterns[i] \notin Bad
                                          /\ <<line.patterns[i], text>> \in Matches
    BY <1>5 DEF Names
  <2>2. Holds(es, EntryOf(line, line.patterns[i]))
    BY <1>2, <2>1
  <2>3. PICK k \in 1 .. Len(es) : es[k] = EntryOf(line, line.patterns[i])
    BY <2>2 DEF Holds
  <2>4. es[k].Ccode = line.patterns[i]
    BY <1>3, <2>3
  <2> QED  BY <2>1, <2>4 DEF Hit
<1> QED  BY <1>1, <1>4, <1>5

OnlyEntries(file) == \A i \in DOMAIN file : EntryLine(file[i])

\* In the table of a file of entries, the first pattern that hits is one of
\* the first line that names the code.
NamesFirst(file, i, text) == /\ i \in 1 .. Len(file) /\ Names(file[i], text)
                             /\ \A j \in 1 .. i - 1 : ~Names(file[j], text)
Decides(tab, text, code) ==
    /\ \E k \in 1 .. Len(tab) : Hit(tab[k], text)
    /\ \A k \in 1 .. Len(tab) :
          Hit(tab[k], text) /\ (\A j \in 1 .. Len(tab) : Hit(tab[j], text) => k <= j)
          => tab[k].Wcode = code

LEMMA FirstHit ==
  ASSUME NEW file \in Seq(Lines), OnlyEntries(file),
         NEW text, NEW i, NamesFirst(file, i, text), NEW tab, tab = Wanted(file)
  PROVE  tab \in Seq(TableEntry) /\ Decides(tab, text, file[i].code)
<1>0. /\ i \in 1 .. Len(file) /\ Names(file[i], text)
      /\ \A j \in 1 .. i - 1 : ~Names(file[j], text)
      /\ \A j \in 1 .. Len(file) : EntryLine(file[j])
  BY DEF NamesFirst, OnlyEntries
<1>1. PICK n \in Nat : n = Len(file)
  OBVIOUS
<1>2. PICK a, line, b, h : /\ a = SubSeq(file, 1, i - 1) /\ line = file[i] /\ b = SubSeq(file, i + 1, n)
                           /\ h = i - 1
  OBVIOUS
<1>3. h \in 0 .. n - 1 /\ i = h + 1 /\ line \in Lines
  BY <1>0, <1>1, <1>2, ElementOfSeq
<1>4. a \in Seq(Lines) /\ Len(a) = h /\ \A j \in 1 .. h : a[j] = file[j]
  <2>1. h \in Int /\ 1 \in Int /\ \A j \in 1 .. h : file[j] \in Lines
    BY <1>1, <1>3, ElementOfSeq
  <2>2. a = SubSeq(file, 1, h)
    BY <1>2
  <2>3. /\ a \in Seq(Lines) /\ Len(a) = IF 1 <= h THEN h - 1 + 1 ELSE 0
        /\ \A j \in 1 .. h - 1 + 1 : a[j] = file[1 + j - 1]
    BY <2>1, <2>2, SubSeqProperties
  <2>4. h - 1 + 1 = h /\ \A j \in 1 .. h : 1 + j - 1 = j
    BY <1>3
  <2>5. Len(a) = h
    BY <1>3, <2>3
  <2> QED  BY <2>3, <2>4, <2>5
<1>5. b \in Seq(Lines)
  <2>1. i + 1 \in Int /\ n \in Int /\ \A j \in i + 1 .. n : file[j] \in Lines
    BY <1>1, <1>3, ElementOfSeq
  <2> QED  BY <1>2, <2>1, SubSeqProperties
<1>6. PICK al : al = Append(a, line)
  OBVIOUS
<1>7. al \in Seq(Lines) /\ file = al \o b
  <2>1. al \in Seq(Lines)
    BY <1>3, <1>4, <1>6, AppendProperties
  <2>2. al = SubSeq(file, 1, i)
    <3>1. 1 \in 1 .. Len(file) /\ i \in 1 .. Len(file)
      BY <1>1, <1>3
    <3>2. SubSeq(file, 1, i) = SubSeq(file, 1, i - 1) \o <<file[i]>>
      BY <3>1, SubSeqRecursiveSecond
    <3>3. al = a \o <<line>>
      BY <1>3, <1>4, <1>6, AppendIsConcat
    <3> QED  BY <1>2, <3>2, <3>3
  <2>3. SubSeq(file, 1, i) \o SubSeq(file, i + 1, n) = SubSeq(file, 1, n)
    <3>1. 1 \in 1 .. Len(file) + 1 /\ i \in 1 - 1 .. Len(file) /\ n \in i .. Len(file)
      BY <1>1, <1>3
    <3> QED  BY <3>1, ConcatAdjacentSubSeq
  <2>4. SubSeq(file, 1, n) = file
    BY <1>1, SubSeqFull
  <2> QED  BY <1>2, <2>1, <2>2, <2>3, <2>4
<1>8. PICK A, E, B : A = Wanted(a) /\ E = Entries(line) /\ B = Wanted(b)
  OBVIOUS
<1>9. OfLine(line) = E
  BY <1>0, <1>2, <1>8 DEF OfLine
<1>10. /\ A \in Seq(TableEntry) /\ E \in Seq(TableEntry) /\ B \in Seq(TableEntry)
       /\ tab = (A \o E) \o B
  <2>1. Wanted(al) = A \o E /\ A \in Seq(TableEntry)
    BY <1>3, <1>4, <1>6, <1>8, <1>9, WantedAppend
  <2>2. Wanted(al \o b) = Wanted(al) \o B /\ B \in Seq(TableEntry)
    BY <1>5, <1>7, <1>8, WantedConcat
  <2>3. E \in Seq(TableEntry)
    BY <1>3, <1>8, EntriesIs
  <2> QED  BY <1>7, <2>1, <2>2, <2>3
<1>11. PICK m \in Nat : m = Len(A)
  BY <1>10
<1>12. PICK l \in Nat : l = Len(E)
  BY <1>10
<1>13. PICK L \in Nat : L = Len(tab) /\ m + l <= L
  <2>1. PICK k \in Nat : k = Len(B)
    BY <1>10
  <2>2. Len(tab) = m + l + k
    BY <1>10, <1>11, <1>12, <2>1, ThreeParts
  <2> QED  BY <2>2
<1>14. /\ tab \in Seq(TableEntry)
       /\ \A j \in 1 .. m : tab[j] = A[j]
       /\ \A j \in 1 .. l : tab[m + j] = E[j]
  BY <1>10, <1>11, <1>12, ThreeParts, SMTT(60)
<1>15. ASSUME NEW k \in 1 .. m, Hit(tab[k], text)  PROVE FALSE
  <2>1. Holds(A, A[k])
    BY <1>11 DEF Holds
  <2>2. PICK j \in 1 .. h : Holds(OfLine(a[j]), A[k])
    BY <1>4, <1>8, <2>1, WantedHolds
  <2>3. j \in 1 .. Len(file) /\ j \in 1 .. i - 1 /\ a[j] = file[j]
    BY <1>1, <1>3, <1>4
  <2>4. file[j] \in Lines /\ OfLine(a[j]) = Entries(file[j])
    BY <1>0, <2>3, ElementOfSeq DEF OfLine
  <2>5. PICK q \in 1 .. Len(Entries(file[j])) : Entries(file[j])[q] = A[k]
    BY <2>2, <2>4 DEF Holds
  <2>6. Hit(A[k], text)
    BY <1>14, <1>15
  <2>7. Names(file[j], text)
    BY <2>4, <2>5, <2>6, HitsOfLine
  <2> QED  BY <1>0, <2>3, <2>7
<1>16. \A k \in 1 .. l : E[k].Wcode = line.code
  BY <1>3, <1>8, <1>12, HitsOfLine
<1>17. PICK q \in 1 .. l : Hit(E[q], text)
  BY <1>0, <1>2, <1>3, <1>8, <1>12, HitsOfLine
<1>18. m + q \in 1 .. L /\ Hit(tab[m + q], text)
  BY <1>13, <1>14, <1>17
<1>19. ASSUME NEW k \in 1 .. L, Hit(tab[k], text),
              \A j \in 1 .. L : Hit(tab[j], text) => k <= j
       PROVE  tab[k].Wcode = line.code
  <2>1. k <= m + q
    BY <1>18, <1>19
  <2>2. ~(k <= m)
    <3> SUFFICES ASSUME k <= m  PROVE FALSE
      OBVIOUS
    <3>1. k \in 1 .. m
      OBVIOUS
    <3> QED  BY <1>15, <1>19, <3>1
  <2>3. PICK r \in 1 .. l : k = m + r
    <3>1. k - m \in 1 .. l /\ k = m + (k - m)
      BY <2>1, <2>2
    <3> QED  BY <3>1
  <2> QED  BY <1>14, <1>16, <2>3
<1> QED  BY <1>2, <1>13, <1>14, <1>18, <1>19 DEF Decides

---------------------------------------------------------------------------
(* Reading the file.                                                       *)

\* Between the lines: the table is what the lines read so far give, while
\* all of them are entries.
HTypes == /\ home \in Seq(Lines) \cup {NoFile} /\ system \in Seq(Lines) \cup {NoFile}
          /\ reading \in Seq(Lines) /\ lb \in Seq(Lines)
          /\ table \in Seq(TableEntry) \cup {NoFile}
          /\ reads \in Nat
          /\ current \in Seq(Lines) \cup {NoFile}

ReadSoFar(done) == /\ current = done \o reading
                   /\ OnlyEntries(current) => lb = <<>> /\ table = Wanted(done)

HInv == /\ HTypes
        /\ current = NoFile => reading = <<>>
        /\ current # NoFile => table # NoFile /\ \E done \in Seq(Lines) : ReadSoFar(done)
        /\ reads > 0 /\ system # NoFile => current # NoFile

LEMMA FilesAre == Files \subseteq Seq(Lines) \cup {NoFile}
<1> SUFFICES ASSUME NEW f \in BoundedSeq(Lines, MaxLines)  PROVE f \in Seq(Lines)
  BY DEF Files
<1>1. PICK m \in 0 .. MaxLines : f \in [1 .. m -> Lines]
  BY DEF BoundedSeq, SeqOf
<1>2. m \in Nat
  BY MaxLinesAssumption
<1> QED  BY <1>1, <1>2

LEMMA HInitHInv == HInit => HInv
<1> SUFFICES ASSUME HInit  PROVE HInv
  OBVIOUS
<1>1. HTypes
  <2>1. home \in Seq(Lines) \cup {NoFile} /\ system \in Seq(Lines) \cup {NoFile}
    BY FilesAre DEF HInit
  <2> QED  BY <2>1 DEF HInit, HTypes
<1> QED  BY <1>1 DEF HInit, HInv

\* One line more.
LEMMA ReadLineHInv == HInv /\ ReadLine => HInv'
<1> SUFFICES ASSUME HInv, ReadLine  PROVE HInv'
  OBVIOUS
<1>1. HTypes /\ reading # <<>> /\ current # NoFile /\ table # NoFile
  BY DEF HInv, ReadLine
<1>2. PICK done \in Seq(Lines) : ReadSoFar(done)
  BY <1>1 DEF HInv
<1>3. PICK h, rest : h = Head(reading) /\ rest = Tail(reading)
  OBVIOUS
<1>4. h \in Lines /\ rest \in Seq(Lines) /\ reading = <<h>> \o rest
  <2>1. reading \in Seq(Lines)
    BY <1>1 DEF HTypes
  <2>2. h \in Lines /\ rest \in Seq(Lines)
    BY <1>1, <1>3, <2>1, HeadTailProperties
  <2>3. reading = <<h>> \o rest
    <3>1. Len(reading) \in 1 .. Len(reading) /\ 1 \in 1 .. Len(reading)
      BY <1>1, <2>1, EmptySeq
    <3>2. SubSeq(reading, 1, Len(reading)) = <<reading[1]>> \o SubSeq(reading, 1 + 1, Len(reading))
      BY <2>1, <3>1, SubSeqRecursiveFirst
    <3>3. SubSeq(reading, 1, Len(reading)) = reading
      BY <2>1, SubSeqFull
    <3>4. rest = SubSeq(reading, 2, Len(reading)) /\ h = reading[1]
      BY <1>1, <1>3, <2>1, TailIsSubSeq
    <3> QED  BY <3>2, <3>3, <3>4
  <2> QED  BY <2>2, <2>3
<1>5. PICK now : now = Append(done, h)
  OBVIOUS
<1>6. now \in Seq(Lines) /\ current = now \o rest
  <2>1. now = done \o <<h>> /\ now \in Seq(Lines) /\ <<h>> \in Seq(Lines)
    BY <1>4, <1>5, AppendIsConcat, AppendProperties
  <2>2. (done \o <<h>>) \o rest = done \o (<<h>> \o rest)
    BY <1>4, <2>1, ConcatAssociative
  <2> QED  BY <1>2, <1>4, <2>1, <2>2 DEF ReadSoFar
<1>7. reading' = rest /\ UNCHANGED <<home, system, reads, current>>
  BY <1>3 DEF ReadLine
<1>8. PICK more : more = Append(lb, h)
  OBVIOUS
<1>9. more \in Seq(Lines) /\ more # <<>> /\ Parsed = Head(more) /\ Parsed \in Lines
  <2>1. lb \in Seq(Lines)
    BY <1>1 DEF HTypes
  <2>2. more \in Seq(Lines) /\ more # <<>>
    BY <1>4, <1>8, <2>1, AppendProperties
  <2>3. Head(more) \in Lines
    BY <2>2, HeadTailProperties
  <2> QED  BY <1>3, <1>8, <2>2, <2>3 DEF Parsed
<1>10. table \in Seq(TableEntry) /\ Entries(Parsed) \in Seq(TableEntry)
  BY <1>1, <1>9, EntriesIs DEF HTypes
<1>11. PICK es : es = Entries(Parsed)
  OBVIOUS
<1>12. table \o es \in Seq(TableEntry)
  BY <1>10, <1>11, ConcatProperties
<1>13. table' = (IF Skipped(Parsed) THEN table ELSE table \o es)
       /\ lb' = (IF Skipped(Parsed) THEN more ELSE <<>>)
  BY <1>3, <1>8, <1>11 DEF ReadLine, AfterLine
<1>14. table' \in Seq(TableEntry) /\ lb' \in Seq(Lines)
  BY <1>9, <1>10, <1>12, <1>13
<1>15. HTypes'
  BY <1>1, <1>4, <1>7, <1>14 DEF HTypes
<1>16. table' # NoFile
  BY <1>14, NoFileAssumption
<1>17. OnlyEntries(current) => EntryLine(h)
  <2>1. h \in Lines /\ rest \in Seq(Lines)
    BY <1>4
  <2>2. Occurs(Append(done, h) \o rest, h)
    BY <2>1, AfterPart
  <2>3. Append(done, h) \o rest = current
    BY <1>5, <1>6
  <2>4. Occurs(current, h)
    BY <2>2, <2>3
  <2> QED  BY <2>4 DEF OnlyEntries, Occurs
<1>18. ReadSoFar(now)'
  <2> SUFFICES ASSUME OnlyEntries(current)  PROVE lb' = <<>> /\ table' = Wanted(now)
    BY <1>6, <1>7 DEF ReadSoFar, OnlyEntries
  <2>1. lb = <<>> /\ table = Wanted(done) /\ EntryLine(h)
    BY <1>2, <1>17 DEF ReadSoFar
  <2>2. more = <<h>>
    BY <1>8, <2>1
  <2>3. Parsed = h
    BY <1>9, <2>2
  <2>4. ~Skipped(Parsed)
    BY <2>1, <2>3 DEF Skipped, EntryLine
  <2>5. Wanted(now) = Wanted(done) \o OfLine(h)
    BY <1>4, <1>5, WantedAppend
  <2>6. OfLine(h) = es
    BY <1>11, <2>1, <2>3 DEF OfLine
  <2> QED  BY <1>13, <2>1, <2>4, <2>5, <2>6
<1>19. HInv'
  <2>1. \E d \in Seq(Lines) : ReadSoFar(d)'
    BY <1>6, <1>18
  <2> QED  BY <1>1, <1>7, <1>15, <1>16, <2>1 DEF HInv
<1> QED  BY <1>19

LEMMA HStep == HInv /\ [HNext]_hinshiVars => HInv'
<1> SUFFICES ASSUME HInv, [HNext]_hinshiVars  PROVE HInv'
  OBVIOUS
<1>1. CASE ImReadSetting
  <2>1. FileToRead \in Seq(Lines) \cup {NoFile}
    BY DEF HInv, HTypes, FileToRead
  <2>2. /\ reads' = reads + 1 /\ current' = FileToRead /\ lb' = <<>>
        /\ UNCHANGED <<home, system>>
    BY <1>1 DEF ImReadSetting
  <2>3. reads' > 0 /\ system' # NoFile => current' # NoFile
    BY <2>2 DEF FileToRead
  <2>4. CASE FileToRead = NoFile
    <3>1. table' = NoFile /\ reading' = <<>>
      BY <1>1, <2>4 DEF ImReadSetting
    <3> QED  BY <2>2, <2>3, <2>4, <3>1 DEF HInv, HTypes
  <2>5. CASE FileToRead # NoFile
    <3>1. table' = <<>> /\ reading' = FileToRead /\ FileToRead \in Seq(Lines)
      BY <1>1, <2>1, <2>5 DEF ImReadSetting
    <3>2. <<>> \in Seq(TableEntry) /\ <<>> \in Seq(Lines) /\ <<>> # NoFile
      <4>1. \A S : <<>> \in Seq(S)
        OBVIOUS
      <4> QED  BY <4>1, NoFileAssumption
    <3>3. <<>> \o FileToRead = FileToRead
      BY <3>1, ConcatEmptySeq
    <3>4. ReadSoFar(<<>>)'
      BY <2>2, <3>1, <3>3, WantedEmpty DEF ReadSoFar
    <3>5. HTypes'
      BY <2>2, <3>1, <3>2 DEF HInv, HTypes
    <3>6. \E done \in Seq(Lines) : ReadSoFar(done)'
      BY <3>2, <3>4
    <3> QED  BY <2>2, <2>3, <2>5, <3>1, <3>2, <3>5, <3>6 DEF HInv
  <2> QED  BY <2>4, <2>5
<1>2. CASE ReadLine
  BY <1>2, ReadLineHInv
<1>3. CASE Edit
  <2>1. home' \in Seq(Lines) \cup {NoFile} /\ UNCHANGED <<system, reading, lb, table, reads, current>>
    BY <1>3, FilesAre DEF Edit
  <2> QED  BY <2>1 DEF HInv, HTypes, ReadSoFar, OnlyEntries
<1>4. CASE UNCHANGED hinshiVars
  BY <1>4 DEF hinshiVars, HInv, HTypes, ReadSoFar, OnlyEntries
<1> QED  BY <1>1, <1>2, <1>3, <1>4 DEF HNext

LEMMA HInvReads == HInv => CleanFileRead
<1> SUFFICES ASSUME HInv  PROVE CleanFileRead
  OBVIOUS
<1>1. reads > 0 /\ system # NoFile => current # NoFile
  BY DEF HInv
<1> SUFFICES ASSUME Read, \A i \in DOMAIN current : EntryLine(current[i])
             PROVE  /\ table = Wanted(current)
                    /\ \A text \in Texts, i \in DOMAIN current :
                          Names(current[i], text) /\ (\A j \in 1 .. i - 1 : ~Names(current[j], text))
                          => canna_hinshi_to_win(text) = current[i].code
  BY <1>1 DEF CleanFileRead
<1>2. current # NoFile /\ reading = <<>>
  BY DEF Read
<1>3. current \in Seq(Lines) /\ table # NoFile
  BY <1>2 DEF HInv, HTypes
<1>4. table = Wanted(current)
  <2>1. PICK done \in Seq(Lines) : ReadSoFar(done)
    BY <1>2 DEF HInv
  <2>2. done \o <<>> = done
    BY ConcatEmptySeq
  <2>3. current = done
    BY <1>2, <2>1, <2>2 DEF ReadSoFar
  <2> QED  BY <2>1, <2>3 DEF ReadSoFar, OnlyEntries
<1>5. ASSUME NEW text \in Texts, NEW i \in DOMAIN current, Names(current[i], text),
             \A j \in 1 .. i - 1 : ~Names(current[j], text)
      PROVE  canna_hinshi_to_win(text) = current[i].code
  <2>1. NamesFirst(current, i, text) /\ OnlyEntries(current)
    BY <1>3, <1>5 DEF NamesFirst, OnlyEntries
  <2>2. table \in Seq(TableEntry) /\ Decides(table, text, current[i].code)
    BY <1>3, <1>4, <2>1, FirstHit
  <2>3. PICK hits : hits = {k \in DOMAIN table : <<table[k].Ccode, text>> \in Matches}
    OBVIOUS
  <2>4. DOMAIN table = 1 .. Len(table) /\ Len(table) \in Nat
    BY <2>2
  <2>5. hits = {k \in 1 .. Len(table) : Hit(table[k], text)}
    BY <2>3, <2>4 DEF Hit
  <2>6. hits # {} /\ hits \subseteq Nat /\ table # <<>>
    BY <2>2, <2>4, <2>5 DEF Decides
  <2>7. \E m \in hits : \A k \in hits : m <= k
    BY <2>6, LeastNat
  <2>8. PICK m : m = CHOOSE k \in hits : \A j \in hits : k <= j
    OBVIOUS
  <2>9. m \in hits /\ \A j \in hits : m <= j
    BY <2>7, <2>8
  <2>10. table[m].Wcode = current[i].code
    BY <2>2, <2>5, <2>9 DEF Decides
  <2>11. canna_hinshi_to_win(text) = table[m].Wcode
    BY <1>3, <2>3, <2>6, <2>8 DEF canna_hinshi_to_win
  <2> QED  BY <2>10, <2>11
<1> QED  BY <1>4, <1>5

\* A file of entries is read whole and in order, and the first line that
\* names a code decides; whatever the files and however often they are read.
THEOREM FilesOfEntriesRead == HSpec => []CleanFileRead
<1>1. HSpec => []HInv
  BY HInitHInv, HStep, PTL DEF HSpec
<1> QED  BY <1>1, HInvReads, PTL

---------------------------------------------------------------------------
(* The first k elements of a sequence, and those after them.               *)

Fore(s, k) == SubSeq(s, 1, k)
Back(s, k) == SubSeq(s, k + 1, Len(s))

LEMMA FrontIs ==
  ASSUME NEW S, NEW s \in Seq(S), NEW k \in Nat, k <= Len(s)
  PROVE  Fore(s, k) \in Seq(S) /\ Len(Fore(s, k)) = k /\ \A i \in 1 .. k : Fore(s, k)[i] = s[i]
<1>1. PICK n \in Nat : n = Len(s)
  OBVIOUS
<1>2. \A i \in 1 .. k : s[i] \in S
  OBVIOUS
<1>3. PICK f : f = SubSeq(s, 1, k)
  OBVIOUS
<1>4. /\ f \in Seq(S) /\ Len(f) = IF 1 <= k THEN k - 1 + 1 ELSE 0
      /\ \A i \in 1 .. k - 1 + 1 : f[i] = s[1 + i - 1]
  BY <1>2, <1>3, SubSeqProperties
<1>5. \A i \in 1 .. k : f[i] = s[i]
  BY <1>4
<1> QED  BY <1>3, <1>4, <1>5 DEF Fore

Splits(s, k, n) == Len(s) = k + n

LEMMA BackIs ==
  ASSUME NEW S, NEW s \in Seq(S), NEW k \in Nat, NEW n \in Nat, Splits(s, k, n)
  PROVE  /\ Back(s, k) \in Seq(S) /\ Len(Back(s, k)) = n
         /\ \A i \in 1 .. n : Back(s, k)[i] = s[k + i]
<1>1. PICK m \in Nat, l \in Nat : m = k + 1 /\ l = k + n
  OBVIOUS
<1>2. Len(s) = l /\ \A i \in m .. l : s[i] \in S
  BY <1>1 DEF Splits
<1>3. PICK f : f = SubSeq(s, m, l)
  OBVIOUS
<1>4. /\ f \in Seq(S) /\ Len(f) = IF m <= l THEN l - m + 1 ELSE 0
      /\ \A i \in 1 .. l - m + 1 : f[i] = s[m + i - 1]
  BY <1>2, <1>3, SubSeqProperties
<1>5. Len(f) = n
  BY <1>1, <1>4
<1>6. ASSUME NEW i \in 1 .. n  PROVE f[i] = s[k + i]
  <2>1. i \in 1 .. l - m + 1 /\ m + i - 1 = k + i
    BY <1>1
  <2> QED  BY <1>4, <2>1
<1>7. f = Back(s, k)
  BY <1>1, <1>2, <1>3 DEF Back
<1> QED  BY <1>4, <1>5, <1>6, <1>7

\* A sequence that has the elements of two others, one after the other, is
\* their concatenation.
Follows(s, a, b, m, n) == /\ Len(a) = m /\ Len(b) = n /\ Len(s) = m + n
                          /\ \A i \in 1 .. m : s[i] = a[i]
                          /\ \A i \in 1 .. n : s[m + i] = b[i]

LEMMA IsConcat ==
  ASSUME NEW S, NEW a \in Seq(S), NEW b \in Seq(S), NEW s \in Seq(S),
         NEW m \in Nat, NEW n \in Nat, Follows(s, a, b, m, n)
  PROVE  s = a \o b
<1>0. /\ Len(a) = m /\ Len(b) = n /\ Len(s) = m + n
      /\ \A i \in 1 .. m : s[i] = a[i]
      /\ \A i \in 1 .. n : s[m + i] = b[i]
  BY DEF Follows
<1>1. PICK c : c = a \o b
  OBVIOUS
<1>2. /\ c \in Seq(S) /\ Len(c) = m + n
      /\ \A i \in 1 .. m + n : c[i] = IF i <= m THEN a[i] ELSE b[i - m]
  BY <1>0, <1>1, ConcatProperties
<1>3. ASSUME NEW i \in 1 .. m + n  PROVE s[i] = c[i]
  <2>0. c[i] = IF i <= m THEN a[i] ELSE b[i - m]
    BY <1>2
  <2>1. CASE i <= m
    <3>1. i \in 1 .. m
      BY <2>1
    <3> QED  BY <1>0, <2>0, <2>1, <3>1
  <2>2. CASE ~(i <= m)
    <3>1. PICK j \in 1 .. n : i = m + j
      <4>1. i - m \in 1 .. n /\ i = m + (i - m)
        BY <2>2
      <4> QED  BY <4>1
    <3>2. s[m + j] = b[j]
      BY <1>0
    <3>3. i - m = j
      BY <3>1
    <3> QED  BY <2>0, <2>2, <3>1, <3>2, <3>3
  <2> QED  BY <2>1, <2>2
<1>4. s = c
  BY <1>0, <1>2, <1>3, SeqEqual
<1> QED  BY <1>1, <1>4

LEMMA FrontBack ==
  ASSUME NEW S, NEW s \in Seq(S), NEW k \in Nat, k <= Len(s)
  PROVE  s = Fore(s, k) \o Back(s, k)
<1>1. PICK n \in Nat : Len(s) = k + n /\ Splits(s, k, n)
  <2>1. PICK l \in Nat : l = Len(s)
    OBVIOUS
  <2>2. l - k \in Nat /\ l = k + (l - k)
    BY <2>1
  <2> QED  BY <2>1, <2>2 DEF Splits
<1>2. PICK f, b : f = Fore(s, k) /\ b = Back(s, k)
  OBVIOUS
<1>3. f \in Seq(S) /\ Len(f) = k /\ \A i \in 1 .. k : f[i] = s[i]
  BY <1>2, FrontIs
<1>4. b \in Seq(S) /\ Len(b) = n /\ \A i \in 1 .. n : b[i] = s[k + i]
  BY <1>1, <1>2, BackIs
<1>5. Follows(s, f, b, k, n)
  BY <1>1, <1>3, <1>4 DEF Follows
<1>6. s = f \o b
  BY <1>3, <1>4, <1>5, IsConcat
<1> QED  BY <1>2, <1>6

LEMMA FrontAll ==
  ASSUME NEW S, NEW s \in Seq(S)
  PROVE  /\ Fore(s, Len(s)) = s /\ Fore(s, 0) = <<>>
         /\ Back(s, Len(s)) = <<>> /\ Back(s, 0) = s
<1>1. PICK n \in Nat : n = Len(s)
  OBVIOUS
<1>2. Fore(s, 0) = <<>> /\ Back(s, n) = <<>>
  BY <1>1, SubSeqEmpty DEF Fore, Back
<1>3. Fore(s, n) = s
  <2>1. PICK f : f = Fore(s, n)
    OBVIOUS
  <2>2. f \in Seq(S) /\ Len(f) = n /\ \A i \in 1 .. n : f[i] = s[i]
    <3>1. n <= Len(s)
      BY <1>1
    <3> QED  BY <2>1, <3>1, FrontIs
  <2>3. f = s
    BY <1>1, <2>2, SeqEqual
  <2> QED  BY <2>1, <2>3
<1>4. Back(s, 0) = s
  BY <1>1, <1>3 DEF Fore, Back
<1> QED  BY <1>1, <1>2, <1>3, <1>4

LEMMA Joined ==
  ASSUME NEW S, NEW a \in Seq(S), NEW b \in Seq(S)
  PROVE  Fore(a \o b, Len(a)) = a /\ Back(a \o b, Len(a)) = b
BY TwoParts DEF Fore, Back

\* What has two fronts of the same length has one.
LEMMA Parted ==
  ASSUME NEW S, NEW a \in Seq(S), NEW b \in Seq(S), NEW c \in Seq(S), NEW d \in Seq(S),
         a \o b = c \o d, Len(a) = Len(c)
  PROVE  a = c /\ b = d
<1>1. Fore(a \o b, Len(a)) = a /\ Back(a \o b, Len(a)) = b
  BY Joined
<1>2. Fore(c \o d, Len(c)) = c /\ Back(c \o d, Len(c)) = d
  BY Joined
<1> QED  BY <1>1, <1>2

LEMMA FrontNext ==
  ASSUME NEW S, NEW s \in Seq(S), NEW k \in Nat, k < Len(s)
  PROVE  Fore(s, k + 1) = Append(Fore(s, k), s[k + 1])
<1>1. PICK j \in Nat : j = k + 1
  OBVIOUS
<1>2. PICK f, g : f = Fore(s, k) /\ g = Fore(s, j)
  OBVIOUS
<1>3. f \in Seq(S) /\ Len(f) = k /\ \A i \in 1 .. k : f[i] = s[i]
  BY <1>2, FrontIs
<1>4. g \in Seq(S) /\ Len(g) = j /\ \A i \in 1 .. j : g[i] = s[i]
  <2>1. j <= Len(s)
    BY <1>1
  <2> QED  BY <1>2, <2>1, FrontIs
<1>5. s[j] \in S
  BY <1>1
<1>6. PICK h : h = Append(f, s[j])
  OBVIOUS
<1>7. h \in Seq(S) /\ Len(h) = j /\ (\A i \in 1 .. k : h[i] = f[i]) /\ h[j] = s[j]
  BY <1>1, <1>3, <1>5, <1>6, AppendProperties
<1>8. ASSUME NEW i \in 1 .. j  PROVE g[i] = h[i]
  <2>1. i \in 1 .. k \/ i = j
    BY <1>1
  <2> QED  BY <1>3, <1>4, <1>7, <2>1
<1>9. g = h
  BY <1>4, <1>7, <1>8, SeqEqual
<1> QED  BY <1>1, <1>2, <1>6, <1>9

LEMMA BackNext ==
  ASSUME NEW S, NEW s \in Seq(S), NEW k \in Nat, k < Len(s)
  PROVE  Back(s, k) = <<s[k + 1]>> \o Back(s, k + 1)
<1>1. PICK j \in Nat : j = k + 1
  OBVIOUS
<1>2. PICK f, g, e : f = Back(s, k) /\ g = Back(s, j) /\ e = <<s[j]>>
  OBVIOUS
<1>3. PICK n \in Nat, m \in Nat : m = 1 + n /\ Splits(s, j, n) /\ Splits(s, k, m)
  <2>1. PICK l \in Nat : l = Len(s)
    OBVIOUS
  <2>2. l - j \in Nat /\ l - k \in Nat /\ l = j + (l - j) /\ l = k + (l - k) /\ l - k = 1 + (l - j)
    BY <1>1, <2>1
  <2> QED  BY <2>1, <2>2 DEF Splits
<1>4. f \in Seq(S) /\ Len(f) = m /\ \A i \in 1 .. m : f[i] = s[k + i]
  BY <1>2, <1>3, BackIs
<1>5. g \in Seq(S) /\ Len(g) = n /\ \A i \in 1 .. n : g[i] = s[j + i]
  BY <1>2, <1>3, BackIs, SMTT(30)
<1>6. e \in Seq(S) /\ 1 = Len(e) /\ e[1] = s[j]
  <2>1. s[j] \in S
    BY <1>1
  <2> QED  BY <1>2, <2>1
<1>7. \A i \in 1 .. 1 : f[i] = e[i]
  <2>1. 1 \in 1 .. m
    BY <1>3
  <2> QED  BY <1>1, <1>4, <1>6, <2>1
<1>8. ASSUME NEW i \in 1 .. n  PROVE f[1 + i] = g[i]
  <2>1. 1 + i \in 1 .. m /\ k + (1 + i) = j + i
    BY <1>1, <1>3
  <2> QED  BY <1>4, <1>5, <2>1
<1>9. Follows(f, e, g, 1, n)
  BY <1>3, <1>4, <1>5, <1>6, <1>7, <1>8 DEF Follows
<1>10. f = e \o g
  BY <1>4, <1>5, <1>6, <1>9, IsConcat
<1> QED  BY <1>1, <1>2, <1>10

\* The front of a front, and of a concatenation.
LEMMA FrontFront ==
  ASSUME NEW S, NEW s \in Seq(S), NEW t \in Seq(S), NEW n \in Nat, n <= Len(s), n <= Len(t),
         Fore(s, n) = Fore(t, n), NEW k \in Nat, k <= n
  PROVE  Fore(s, k) = Fore(t, k)
<1>1. \A i \in 1 .. n : s[i] = t[i]
  BY FrontIs
<1>2. PICK f, g : f = Fore(s, k) /\ g = Fore(t, k)
  OBVIOUS
<1>3. f \in Seq(S) /\ Len(f) = k /\ \A i \in 1 .. k : f[i] = s[i]
  BY <1>2, FrontIs
<1>4. g \in Seq(S) /\ Len(g) = k /\ \A i \in 1 .. k : g[i] = t[i]
  BY <1>2, FrontIs
<1>5. f = g
  BY <1>1, <1>3, <1>4, SeqEqual, SMTT(30)
<1> QED  BY <1>2, <1>5

LEMMA FrontOfConcat ==
  ASSUME NEW S, NEW a \in Seq(S), NEW b \in Seq(S), NEW k \in Nat, k <= Len(a)
  PROVE  Fore(a \o b, k) = Fore(a, k) /\ k <= Len(a \o b)
<1>1. PICK c : c = a \o b
  OBVIOUS
<1>2. c \in Seq(S) /\ Len(c) = Len(a) + Len(b)
  BY <1>1, ConcatProperties
<1>3. Fore(c, Len(a)) = a
  BY <1>1, Joined
<1>4. PICK n \in Nat : n = Len(a)
  OBVIOUS
<1>5. n <= Len(c)
  BY <1>2, <1>4
<1>6. Fore(a, n) = a
  BY <1>4, FrontAll
<1>7. Fore(c, k) = Fore(a, k)
  BY <1>2, <1>3, <1>4, <1>5, <1>6, FrontFront
<1> QED  BY <1>1, <1>4, <1>5, <1>7

LEMMA FrontExtended ==
  ASSUME NEW S, NEW s \in Seq(S), NEW m \in Nat, NEW n \in Nat, m <= n, n <= Len(s)
  PROVE  /\ SubSeq(s, m + 1, n) \in Seq(S) /\ Len(SubSeq(s, m + 1, n)) = n - m
         /\ (m < n => SubSeq(s, m + 1, n)[1] = s[m + 1])
         /\ Fore(s, m) \o SubSeq(s, m + 1, n) = Fore(s, n)
<1>1. PICK p \in Nat : p = n - m
  OBVIOUS
<1>2. PICK t : t = SubSeq(s, m + 1, n)
  OBVIOUS
<1>3. t \in Seq(S) /\ p = Len(t) /\ \A i \in 1 .. p : t[i] = s[m + i]
  <2>1. \A i \in m + 1 .. n : s[i] \in S
    OBVIOUS
  <2>2. PICK l \in Nat : l = m + 1
    OBVIOUS
  <2>3. /\ t \in Seq(S) /\ Len(t) = IF l <= n THEN n - l + 1 ELSE 0
        /\ \A i \in 1 .. n - l + 1 : t[i] = s[l + i - 1]
    BY <1>2, <2>1, <2>2, SubSeqProperties
  <2>4. Len(t) = p
    BY <1>1, <2>2, <2>3
  <2>5. ASSUME NEW i \in 1 .. p  PROVE t[i] = s[m + i]
    <3>1. i \in 1 .. n - l + 1 /\ l + i - 1 = m + i
      BY <1>1, <2>2
    <3> QED  BY <2>3, <3>1
  <2> QED  BY <2>3, <2>4, <2>5
<1>4. PICK f, g : f = Fore(s, m) /\ g = Fore(s, n)
  OBVIOUS
<1>5. f \in Seq(S) /\ m = Len(f) /\ \A i \in 1 .. m : f[i] = s[i]
  <2>1. m <= Len(s)
    OBVIOUS
  <2> QED  BY <1>4, <2>1, FrontIs
<1>6. g \in Seq(S) /\ Len(g) = m + p /\ \A i \in 1 .. m + p : g[i] = s[i]
  <2>1. m + p = n
    BY <1>1
  <2> QED  BY <1>4, <2>1, FrontIs
<1>7. \A i \in 1 .. m : g[i] = f[i]
  BY <1>5, <1>6
<1>8. ASSUME NEW i \in 1 .. p  PROVE g[m + i] = t[i]
  <2>1. m + i \in 1 .. m + p
    OBVIOUS
  <2> QED  BY <1>3, <1>6, <2>1
<1>9. g = f \o t
  <2>1. Follows(g, f, t, m, p)
    BY <1>3, <1>5, <1>6, <1>7, <1>8 DEF Follows
  <2> QED  BY <1>3, <1>5, <1>6, <2>1, IsConcat
<1>10. m < n => t[1] = s[m + 1]
  <2>1. m < n => 1 \in 1 .. p
    BY <1>1
  <2> QED  BY <1>3, <2>1
<1> QED  BY <1>1, <1>2, <1>3, <1>4, <1>9, <1>10

---------------------------------------------------------------------------
(* Pieces of a reading: none is empty or begins with a mark.               *)

Whole(y) == y # <<>> => y[1] # Mark
Pieces(ps) == \A i \in 1 .. Len(ps) : ps[i] # <<>> /\ ps[i][1] # Mark

\* The text of the first k pieces.
Text(ps, k) == FlattenSeq(Fore(ps, k))

LEMMA PiecesFront ==
  ASSUME NEW S, NEW ps \in Seq(Seq(S)), Pieces(ps), NEW k \in Nat, k <= Len(ps)
  PROVE  Pieces(Fore(ps, k)) /\ Pieces(Back(ps, k))
<1>1. PICK R : R = Seq(S)
  OBVIOUS
<1>2. ps \in Seq(R)
  BY <1>1
<1>3. PICK f, b : f = Fore(ps, k) /\ b = Back(ps, k)
  OBVIOUS
<1>4. Len(f) = k /\ \A i \in 1 .. k : f[i] = ps[i]
  BY <1>2, <1>3, FrontIs
<1>5. PICK n \in Nat : Splits(ps, k, n)
  <2>1. PICK l \in Nat : l = Len(ps)
    OBVIOUS
  <2>2. l - k \in Nat /\ l = k + (l - k)
    BY <2>1
  <2> QED  BY <2>1, <2>2 DEF Splits
<1>6. Len(b) = n /\ \A i \in 1 .. n : b[i] = ps[k + i]
  BY <1>2, <1>3, <1>5, BackIs
<1>7. Len(ps) = k + n
  BY <1>5 DEF Splits
<1>8. Pieces(f)
  <2>1. \A i \in 1 .. k : i \in 1 .. Len(ps)
    BY <1>7
  <2> QED  BY <1>4, <2>1 DEF Pieces
<1>9. Pieces(b)
  <2>1. \A i \in 1 .. n : k + i \in 1 .. Len(ps)
    BY <1>7
  <2> QED  BY <1>6, <2>1 DEF Pieces
<1> QED  BY <1>3, <1>8, <1>9

LEMMA PiecesConcat ==
  ASSUME NEW S, NEW ps \in Seq(Seq(S)), NEW qs \in Seq(Seq(S)), Pieces(ps), Pieces(qs)
  PROVE  Pieces(ps \o qs)
<1>1. PICK m \in Nat, n \in Nat : m = Len(ps) /\ n = Len(qs)
  OBVIOUS
<1>2. PICK rs : rs = ps \o qs
  OBVIOUS
<1>3. /\ Len(rs) = m + n
      /\ \A i \in 1 .. m + n : rs[i] = IF i <= m THEN ps[i] ELSE qs[i - m]
  BY <1>1, <1>2, ConcatProperties
<1>4. ASSUME NEW i \in 1 .. m + n  PROVE rs[i] # <<>> /\ rs[i][1] # Mark
  <2>1. CASE i <= m
    <3>1. i \in 1 .. Len(ps) /\ rs[i] = ps[i]
      BY <1>1, <1>3, <2>1
    <3> QED  BY <3>1 DEF Pieces
  <2>2. CASE ~(i <= m)
    <3>1. i - m \in 1 .. Len(qs)
      BY <1>1, <2>2
    <3>2. rs[i] = qs[i - m]
      BY <1>3, <2>2
    <3> QED  BY <3>1, <3>2 DEF Pieces
  <2> QED  BY <2>1, <2>2
<1>5. Pieces(rs)
  BY <1>3, <1>4 DEF Pieces
<1> QED  BY <1>2, <1>5

\* The text of all is that of the first, and that of those after them.
LEMMA TextParts ==
  ASSUME NEW S, NEW ps \in Seq(Seq(S)), NEW k \in Nat, k <= Len(ps)
  PROVE  /\ Text(ps, k) \in Seq(S) /\ FlattenSeq(Back(ps, k)) \in Seq(S)
         /\ FlattenSeq(ps) = Text(ps, k) \o FlattenSeq(Back(ps, k))
<1>1. PICK R : R = Seq(S)
  OBVIOUS
<1>2. ps \in Seq(R)
  BY <1>1
<1>3. PICK f, b : f = Fore(ps, k) /\ b = Back(ps, k)
  OBVIOUS
<1>4. f \in Seq(R)
  BY <1>2, <1>3, FrontIs
<1>5. PICK n \in Nat : Splits(ps, k, n)
  <2>1. PICK l \in Nat : l = Len(ps)
    OBVIOUS
  <2>2. l - k \in Nat /\ l = k + (l - k)
    BY <2>1
  <2> QED  BY <2>1, <2>2 DEF Splits
<1>6. b \in Seq(R)
  BY <1>2, <1>3, <1>5, BackIs
<1>7. ps = f \o b
  BY <1>2, <1>3, FrontBack
<1>8. f \in Seq(Seq(S)) /\ b \in Seq(Seq(S))
  BY <1>1, <1>4, <1>6
<1>9. FlattenSeq(f) \in Seq(S) /\ FlattenSeq(b) \in Seq(S)
  BY <1>8, FlattenType
<1>10. FlattenSeq(f \o b) = FlattenSeq(f) \o FlattenSeq(b)
  BY <1>8, FlattenConcat
<1> QED  BY <1>3, <1>7, <1>9, <1>10 DEF Text

\* One more piece.
LEMMA TextNext ==
  ASSUME NEW S, NEW ps \in Seq(Seq(S)), NEW k \in Nat, k < Len(ps)
  PROVE  ps[k + 1] \in Seq(S) /\ Text(ps, k) \in Seq(S) /\ Text(ps, k + 1) = Text(ps, k) \o ps[k + 1]
<1>1. PICK R : R = Seq(S)
  OBVIOUS
<1>2. ps \in Seq(R)
  BY <1>1
<1>3. PICK f, e : f = Fore(ps, k) /\ e = ps[k + 1]
  OBVIOUS
<1>4. f \in Seq(R) /\ e \in R
  BY <1>2, <1>3, FrontIs
<1>5. Fore(ps, k + 1) = Append(f, e)
  BY <1>2, <1>3, FrontNext
<1>6. f \in Seq(Seq(S)) /\ e \in Seq(S)
  BY <1>1, <1>4
<1>7. FlattenSeq(Append(f, e)) = FlattenSeq(f) \o e
  BY <1>6, FlattenAppend
<1>8. FlattenSeq(f) \in Seq(S)
  BY <1>6, FlattenType
<1> QED  BY <1>3, <1>5, <1>6, <1>7, <1>8 DEF Text

LEMMA FirstOf ==
  ASSUME NEW S, NEW a \in Seq(S), NEW b \in Seq(S), a # <<>>
  PROVE  a \o b # <<>> /\ (a \o b)[1] = a[1]
<1>1. PICK m \in Nat, n \in Nat : m = Len(a) /\ n = Len(b)
  OBVIOUS
<1>2. m > 0
  BY <1>1, EmptySeq
<1>3. PICK c : c = a \o b
  OBVIOUS
<1>4. /\ c \in Seq(S) /\ Len(c) = m + n
      /\ \A i \in 1 .. m + n : c[i] = IF i <= m THEN a[i] ELSE b[i - m]
  BY <1>1, <1>3, ConcatProperties
<1>5. c[1] = a[1]
  <2>1. 1 \in 1 .. m + n /\ 1 <= m
    BY <1>2
  <2> QED  BY <1>4, <2>1
<1>6. c # <<>>
  <2>1. Len(c) # 0
    BY <1>2, <1>4
  <2> QED  BY <1>4, <2>1, EmptySeq
<1> QED  BY <1>3, <1>5, <1>6

\* Pieces begin as the first of them does, and have as many characters at
\* least.
LEMMA PiecesWhole ==
  ASSUME NEW S, NEW ps \in Seq(Seq(S)), Pieces(ps)
  PROVE  /\ FlattenSeq(ps) \in Seq(S) /\ Whole(FlattenSeq(ps))
         /\ ps # <<>> => FlattenSeq(ps) # <<>> /\ FlattenSeq(ps)[1] = ps[1][1]
<1>1. FlattenSeq(ps) \in Seq(S)
  BY FlattenType
<1>2. CASE ps = <<>>
  BY <1>1, <1>2, FlattenEmpty DEF Whole
<1>3. CASE ps # <<>>
  <2>1. PICK R : R = Seq(S)
    OBVIOUS
  <2>2. ps \in Seq(R)
    BY <2>1
  <2>3. PICK l \in Nat : l = Len(ps) /\ 0 < l
    <3>1. Len(ps) \in Nat /\ Len(ps) # 0
      BY <1>3, <2>2, EmptySeq
    <3> QED  BY <3>1
  <2>4. PICK e, b : e = ps[1] /\ b = Back(ps, 1)
    OBVIOUS
  <2>5. e \in R
    BY <2>2, <2>3, <2>4
  <2>6. b \in Seq(R)
    <3>1. PICK n \in Nat : l = 1 + n
      <4>1. l - 1 \in Nat /\ l = 1 + (l - 1)
        BY <2>3
      <4> QED  BY <4>1
    <3>2. Splits(ps, 1, n)
      BY <2>3, <3>1 DEF Splits
    <3> QED  BY <2>2, <2>4, <3>2, BackIs
  <2>7. ps = <<e>> \o b
    <3>1. PICK z \in Nat : z = 0
      OBVIOUS
    <3>2. z < Len(ps)
      BY <2>3, <3>1
    <3>3. Back(ps, z) = <<ps[z + 1]>> \o Back(ps, z + 1)
      BY <2>2, <3>2, BackNext
    <3>4. Back(ps, 0) = ps
      BY <2>2, FrontAll
    <3> QED  BY <2>4, <3>1, <3>3, <3>4
  <2>8. e \in Seq(S) /\ b \in Seq(Seq(S))
    BY <2>1, <2>5, <2>6
  <2>9. FlattenSeq(<<e>> \o b) = e \o FlattenSeq(b)
    BY <2>8, FlattenCons
  <2>10. FlattenSeq(b) \in Seq(S)
    BY <2>8, FlattenType
  <2>11. e # <<>> /\ e[1] # Mark
    <3>1. 1 \in 1 .. Len(ps)
      BY <2>3
    <3> QED  BY <2>4, <3>1 DEF Pieces
  <2>12. PICK t : t = FlattenSeq(b)
    OBVIOUS
  <2>13. FlattenSeq(ps) = e \o t
    BY <2>7, <2>9, <2>12
  <2>14. e \o t # <<>> /\ (e \o t)[1] = e[1]
    BY <2>8, <2>10, <2>11, <2>12, FirstOf
  <2> QED  BY <1>1, <2>4, <2>11, <2>13, <2>14 DEF Whole
<1> QED  BY <1>2, <1>3

\* A text has more characters for each piece more.
LEMMA TextLonger ==
  ASSUME NEW S, NEW ps \in Seq(Seq(S)), Pieces(ps), NEW k \in Nat, k < Len(ps)
  PROVE  Len(Text(ps, k)) < Len(Text(ps, k + 1)) /\ Len(Text(ps, k + 1)) = Len(Text(ps, k)) + Len(ps[k + 1])
<1>1. PICK a, b, c : a = Text(ps, k) /\ b = ps[k + 1] /\ c = Text(ps, k + 1)
  OBVIOUS
<1>2. a \in Seq(S) /\ b \in Seq(S) /\ c = a \o b
  BY <1>1, TextNext
<1>3. Len(c) = Len(a) + Len(b)
  BY <1>2, ConcatProperties
<1>4. b # <<>>
  <2>1. k + 1 \in 1 .. Len(ps)
    OBVIOUS
  <2> QED  BY <1>1, <2>1 DEF Pieces
<1>5. Len(b) > 0
  BY <1>2, <1>4, EmptySeq
<1> QED  BY <1>1, <1>2, <1>3, <1>5

LEMMA TextFits ==
  ASSUME NEW S, NEW ps \in Seq(Seq(S)), Pieces(ps), NEW k \in Nat, k <= Len(ps)
  PROVE  /\ Text(ps, k) \in Seq(S) /\ Text(ps, k) = Fore(FlattenSeq(ps), Len(Text(ps, k)))
         /\ Len(Text(ps, k)) <= Len(FlattenSeq(ps))
         /\ k < Len(ps) => Len(Text(ps, k)) < Len(FlattenSeq(ps))
         /\ Text(ps, Len(ps)) = FlattenSeq(ps) /\ Text(ps, 0) = <<>>
<1>1. PICK a, b, y : a = Text(ps, k) /\ b = FlattenSeq(Back(ps, k)) /\ y = FlattenSeq(ps)
  OBVIOUS
<1>2. a \in Seq(S) /\ b \in Seq(S) /\ y = a \o b
  BY <1>1, TextParts
<1>3. a = Fore(y, Len(a)) /\ Len(y) = Len(a) + Len(b)
  BY <1>2, Joined, ConcatProperties
<1>4. Len(a) <= Len(y)
  BY <1>2, <1>3
<1>5. k < Len(ps) => Len(a) < Len(y)
  <2> SUFFICES ASSUME k < Len(ps)  PROVE Len(a) < Len(y)
    OBVIOUS
  <2>1. PICK c, d : c = Text(ps, k + 1) /\ d = FlattenSeq(Back(ps, k + 1))
    OBVIOUS
  <2>2. Len(a) < Len(c)
    BY <1>1, <2>1, TextLonger
  <2>3. c \in Seq(S) /\ d \in Seq(S) /\ y = c \o d
    <3>1. PICK j \in Nat : j = k + 1
      OBVIOUS
    <3>2. j <= Len(ps)
      BY <3>1
    <3> QED  BY <1>1, <2>1, <3>1, <3>2, TextParts
  <2>4. Len(y) = Len(c) + Len(d)
    BY <2>3, ConcatProperties
  <2> QED  BY <1>2, <2>2, <2>3, <2>4
<1>6. Text(ps, Len(ps)) = y /\ Text(ps, 0) = <<>>
  <2>1. PICK R : R = Seq(S)
    OBVIOUS
  <2>2. ps \in Seq(R)
    BY <2>1
  <2>3. Fore(ps, Len(ps)) = ps /\ Fore(ps, 0) = <<>>
    BY <2>2, FrontAll
  <2> QED  BY <1>1, <2>3, FlattenEmpty DEF Text
<1> QED  BY <1>1, <1>2, <1>3, <1>4, <1>5, <1>6

\* Of two ways to cut a reading, the next piece is the same when it ends at
\* the same character.
LEMMA SameNext ==
  ASSUME NEW S, NEW ps \in Seq(Seq(S)), NEW qs \in Seq(Seq(S)), NEW k \in Nat, k < Len(ps), k < Len(qs),
         Pieces(ps), Pieces(qs), FlattenSeq(ps) = FlattenSeq(qs), Fore(ps, k) = Fore(qs, k),
         Len(Text(ps, k + 1)) = Len(Text(qs, k + 1))
  PROVE  Fore(ps, k + 1) = Fore(qs, k + 1)
<1>1. PICK a, b, c, d : a = Text(ps, k) /\ b = ps[k + 1] /\ c = qs[k + 1] /\ d = Text(ps, k + 1)
  OBVIOUS
<1>2. a \in Seq(S) /\ b \in Seq(S) /\ d = a \o b
  BY <1>1, TextNext
<1>3. c \in Seq(S) /\ Text(qs, k + 1) = a \o c
  <2>1. c \in Seq(S) /\ Text(qs, k + 1) = Text(qs, k) \o c
    BY <1>1, TextNext
  <2>2. Text(qs, k) = a
    BY <1>1 DEF Text
  <2> QED  BY <2>1, <2>2
<1>4. Text(qs, k + 1) = d
  <2>1. PICK j \in Nat : j = k + 1
    OBVIOUS
  <2>2. j <= Len(ps) /\ j <= Len(qs)
    BY <2>1
  <2>3. Text(ps, j) = Fore(FlattenSeq(ps), Len(Text(ps, j)))
    BY <2>2, TextFits
  <2>4. Text(qs, j) = Fore(FlattenSeq(qs), Len(Text(qs, j)))
    BY <2>2, TextFits
  <2> QED  BY <1>1, <2>1, <2>3, <2>4
<1>5. b = c
  <2>1. a \o b = a \o c
    BY <1>2, <1>3, <1>4
  <2> QED  BY <1>2, <1>3, <2>1, Parted
<1>6. PICK R : R = Seq(S)
  OBVIOUS
<1>7. ps \in Seq(R) /\ qs \in Seq(R)
  BY <1>6
<1>8. Fore(ps, k + 1) = Append(Fore(ps, k), b)
  BY <1>1, <1>7, FrontNext
<1>9. Fore(qs, k + 1) = Append(Fore(qs, k), c)
  BY <1>1, <1>7, FrontNext
<1> QED  BY <1>5, <1>8, <1>9

\* What the IME may cut a reading into: pieces that are the reading.
LEMMA CutsIs ==
  ASSUME NEW S, NEW y \in Seq(S), Whole(y), NEW p \in Cuts(y)
  PROVE  p \in Seq(Seq(S)) /\ Pieces(p) /\ FlattenSeq(p) = y /\ (y # <<>> => p # <<>>)
<1>0. PICK n \in Nat : p \in {[i \in 1 .. n |-> SubSeq(y, at[i - 1] + 1, at[i])] : at \in Ends(y, n)}
  <2>1. \A n \in 0 .. Len(y) : n \in Nat
    OBVIOUS
  <2> QED  BY <2>1 DEF Cuts
<1>1. PICK at \in Ends(y, n) : p = [i \in 1 .. n |-> SubSeq(y, at[i - 1] + 1, at[i])]
  BY <1>0
<1>2. PICK l \in Nat : l = Len(y)
  OBVIOUS
<1>3. /\ at \in [0 .. n -> 0 .. l] /\ at[0] = 0 /\ at[n] = l
      /\ \A i \in 1 .. n : at[i - 1] < at[i] /\ (i > 1 => y[at[i - 1] + 1] # Mark)
  BY <1>1, <1>2 DEF Ends
<1>4. ASSUME NEW i \in 1 .. n
      PROVE  /\ p[i] \in Seq(S) /\ p[i] # <<>> /\ p[i][1] # Mark
             /\ Fore(y, at[i - 1]) \o p[i] = Fore(y, at[i])
  <2>1. PICK a \in Nat, b \in Nat : a = at[i - 1] /\ b = at[i]
    <3>1. at[i - 1] \in 0 .. l /\ at[i] \in 0 .. l
      BY <1>3
    <3> QED  BY <3>1
  <2>2. a < b /\ b <= Len(y) /\ a <= b
    BY <1>2, <1>3, <2>1
  <2>3. PICK t : t = SubSeq(y, a + 1, b)
    OBVIOUS
  <2>4. p[i] = t
    BY <1>1, <2>1, <2>3
  <2>5. t \in Seq(S) /\ Len(t) = b - a /\ t[1] = y[a + 1] /\ Fore(y, a) \o t = Fore(y, b)
    BY <2>2, <2>3, FrontExtended, ZenonT(60)
  <2>6. t # <<>>
    <3>1. Len(t) # 0
      BY <2>2, <2>5
    <3> QED  BY <2>5, <3>1, EmptySeq
  <2>7. y[a + 1] # Mark
    <3>1. CASE i > 1
      BY <1>3, <2>1, <3>1
    <3>2. CASE i = 1
      <4>1. a = 0
        BY <1>3, <2>1, <3>2
      <4>2. y # <<>>
        <5>1. Len(y) # 0
          BY <2>2
        <5> QED  BY <5>1, EmptySeq
      <4> QED  BY <4>1, <4>2 DEF Whole
    <3> QED  BY <3>1, <3>2
  <2> QED  BY <2>1, <2>4, <2>5, <2>6, <2>7
<1>5. p \in Seq(Seq(S)) /\ Len(p) = n
  BY <1>1, <1>4
<1>6. Pieces(p)
  BY <1>4, <1>5 DEF Pieces
<1> DEFINE T == {k \in Nat : k <= n => Text(p, k) = Fore(y, at[k])}
<1>7. 0 \in T
  <2>1. Text(p, 0) = <<>>
    <3>1. PICK z \in Nat : z = 0
      OBVIOUS
    <3>2. z <= Len(p)
      BY <1>5, <3>1
    <3> HIDE DEF T
    <3>3. p \in Seq(Seq(S))
      BY <1>5
    <3>4. Text(p, 0) = <<>>
      BY <1>6, <3>2, <3>3, TextFits
    <3> QED  BY <3>4
  <2>2. Fore(y, 0) = <<>>
    BY FrontAll
  <2> QED  BY <1>3, <2>1, <2>2
<1>8. ASSUME NEW k \in Nat, k \in T  PROVE k + 1 \in T
  <2> SUFFICES ASSUME k + 1 <= n  PROVE Text(p, k + 1) = Fore(y, at[k + 1])
    OBVIOUS
  <2>1. Text(p, k) = Fore(y, at[k])
    BY <1>8
  <2>2. Text(p, k + 1) = Text(p, k) \o p[k + 1]
    <3>1. k < Len(p)
      BY <1>5
    <3> QED  BY <1>5, <3>1, TextNext
  <2>3. PICK i \in 1 .. n : i = k + 1 /\ i - 1 = k
    OBVIOUS
  <2>4. Fore(y, at[i - 1]) \o p[i] = Fore(y, at[i])
    BY <1>4
  <2> QED  BY <2>1, <2>2, <2>3, <2>4
<1>9. n \in T
  <2> HIDE DEF T
  <2> QED  BY <1>7, <1>8, Induct
<1>10. FlattenSeq(p) = y
  <2>1. Text(p, n) = FlattenSeq(p)
    BY <1>5, <1>6, TextFits
  <2>2. Fore(y, l) = y
    BY <1>2, FrontAll
  <2>3. Text(p, n) = Fore(y, at[n])
    BY <1>9
  <2>4. at[n] = l
    BY <1>3
  <2> HIDE DEF T
  <2> QED  BY <2>1, <2>2, <2>3, <2>4
<1>11. y # <<>> => p # <<>>
  BY <1>10, FlattenEmpty
<1> QED  BY <1>5, <1>6, <1>10, <1>11

---------------------------------------------------------------------------
(* Clauses.                                                                *)

Ats == {"INPUT", "CONVERTED", "TARGET_CONVERTED", "TARGET_NOTCONVERTED"}
ClausesIn(S) == [yomi : Seq(S), at : Ats]

AllConverted(cls) == \A i \in 1 .. Len(cls) : IsConverted(cls[i])
ConvertedFirst(cls) == \A i, j \in 1 .. Len(cls) : i < j /\ IsConverted(cls[j]) => IsConverted(cls[i])

\* Clauses that the IME has converted, and of which y is the reading.
Reads(cls, S, y) == /\ cls \in Seq(ClausesIn(S))
                    /\ Pieces(Yomis(cls)) /\ Reading(cls) = y
                    /\ AllConverted(cls)

LEMMA YomisIs ==
  ASSUME NEW S, NEW cls \in Seq(ClausesIn(S))
  PROVE  /\ Yomis(cls) \in Seq(Seq(S)) /\ Len(Yomis(cls)) = Len(cls)
         /\ \A i \in 1 .. Len(cls) : Yomis(cls)[i] = cls[i].yomi
<1>1. PICK n \in Nat : n = Len(cls) /\ DOMAIN cls = 1 .. n
  OBVIOUS
<1>2. Yomis(cls) = [i \in 1 .. n |-> cls[i].yomi]
  BY <1>1 DEF Yomis
<1>3. \A i \in 1 .. n : cls[i] \in ClausesIn(S)
  BY <1>1
<1>4. \A i \in 1 .. n : cls[i].yomi \in Seq(S)
  BY <1>3 DEF ClausesIn
<1>5. Yomis(cls) \in Seq(Seq(S)) /\ Len(Yomis(cls)) = n
  BY <1>2, <1>4
<1> QED  BY <1>1, <1>2, <1>5

LEMMA ReadingType ==
  ASSUME NEW S, NEW cls \in Seq(ClausesIn(S))
  PROVE  Reading(cls) \in Seq(S) /\ (Pieces(Yomis(cls)) => Whole(Reading(cls)))
<1>1. Yomis(cls) \in Seq(Seq(S))
  BY YomisIs
<1> QED  BY <1>1, FlattenType, PiecesWhole DEF Reading

LEMMA YomisConcat ==
  ASSUME NEW S, NEW a \in Seq(ClausesIn(S)), NEW b \in Seq(ClausesIn(S))
  PROVE  a \o b \in Seq(ClausesIn(S)) /\ Yomis(a \o b) = Yomis(a) \o Yomis(b)
<1>1. PICK m \in Nat, n \in Nat : m = Len(a) /\ n = Len(b)
  OBVIOUS
<1>2. PICK C : C = ClausesIn(S)
  OBVIOUS
<1>3. a \in Seq(C) /\ b \in Seq(C)
  BY <1>2
<1>4. PICK c : c = a \o b
  OBVIOUS
<1>5. /\ c \in Seq(C) /\ Len(c) = m + n
      /\ \A i \in 1 .. m + n : c[i] = IF i <= m THEN a[i] ELSE b[i - m]
  BY <1>1, <1>3, <1>4, ConcatProperties
<1>6. PICK e, f, g : e = Yomis(a) /\ f = Yomis(b) /\ g = Yomis(c)
  OBVIOUS
<1>7. PICK R : R = Seq(S)
  OBVIOUS
<1>8. e \in Seq(R) /\ Len(e) = m /\ \A i \in 1 .. m : e[i] = a[i].yomi
  BY <1>1, <1>6, <1>7, YomisIs
<1>9. f \in Seq(R) /\ Len(f) = n /\ \A i \in 1 .. n : f[i] = b[i].yomi
  BY <1>1, <1>6, <1>7, YomisIs
<1>10. g \in Seq(R) /\ Len(g) = m + n /\ \A i \in 1 .. m + n : g[i] = c[i].yomi
  <2>1. c \in Seq(ClausesIn(S))
    BY <1>2, <1>5
  <2> QED  BY <1>5, <1>6, <1>7, <2>1, YomisIs
<1>11. \A i \in 1 .. m : g[i] = e[i]
  <2> SUFFICES ASSUME NEW i \in 1 .. m  PROVE g[i] = e[i]
    OBVIOUS
  <2>1. i \in 1 .. m + n /\ i <= m
    OBVIOUS
  <2>2. c[i] = a[i]
    BY <1>5, <2>1
  <2> QED  BY <1>8, <1>10, <2>1, <2>2
<1>12. \A i \in 1 .. n : g[m + i] = f[i]
  <2> SUFFICES ASSUME NEW i \in 1 .. n  PROVE g[m + i] = f[i]
    OBVIOUS
  <2>1. PICK j \in 1 .. m + n : j = m + i /\ ~(j <= m) /\ j - m = i
    OBVIOUS
  <2>2. c[j] = b[i]
    BY <1>5, <2>1
  <2>3. g[j] = c[j].yomi
    BY <1>10, <2>1
  <2> QED  BY <1>9, <2>1, <2>2, <2>3
<1>13. Follows(g, e, f, m, n)
  BY <1>8, <1>9, <1>10, <1>11, <1>12 DEF Follows
<1>14. g = e \o f
  BY <1>8, <1>9, <1>10, <1>13, IsConcat
<1> QED  BY <1>2, <1>4, <1>5, <1>6, <1>14

\* Of the first clauses, and of those after them.
LEMMA YomisParts ==
  ASSUME NEW S, NEW cls \in Seq(ClausesIn(S)), NEW k \in Nat, k <= Len(cls)
  PROVE  /\ Fore(cls, k) \in Seq(ClausesIn(S)) /\ Back(cls, k) \in Seq(ClausesIn(S))
         /\ Yomis(Fore(cls, k)) = Fore(Yomis(cls), k)
         /\ Yomis(Back(cls, k)) = Back(Yomis(cls), k)
<1>1. PICK C : C = ClausesIn(S)
  OBVIOUS
<1>2. cls \in Seq(C)
  BY <1>1
<1>3. PICK f, b : f = Fore(cls, k) /\ b = Back(cls, k)
  OBVIOUS
<1>4. f \in Seq(C) /\ Len(f) = k
  BY <1>2, <1>3, FrontIs
<1>5. PICK n \in Nat : Splits(cls, k, n)
  <2>1. PICK l \in Nat : l = Len(cls)
    OBVIOUS
  <2>2. l - k \in Nat /\ l = k + (l - k)
    BY <2>1
  <2> QED  BY <2>1, <2>2 DEF Splits
<1>6. b \in Seq(C)
  BY <1>2, <1>3, <1>5, BackIs
<1>7. cls = f \o b
  BY <1>2, <1>3, FrontBack
<1>8. f \in Seq(ClausesIn(S)) /\ b \in Seq(ClausesIn(S))
  BY <1>1, <1>4, <1>6
<1>9. Yomis(cls) = Yomis(f) \o Yomis(b)
  BY <1>7, <1>8, YomisConcat
<1>10. PICK R, e, g : R = Seq(S) /\ e = Yomis(f) /\ g = Yomis(b)
  OBVIOUS
<1>11. e \in Seq(R) /\ g \in Seq(R) /\ Len(e) = k
  BY <1>4, <1>8, <1>10, YomisIs
<1>12. Fore(e \o g, k) = e /\ Back(e \o g, k) = g
  BY <1>11, Joined
<1> QED  BY <1>3, <1>8, <1>9, <1>10, <1>12

\* What the first k clauses are read.
LEMMA FrontReading ==
  ASSUME NEW S, NEW cls \in Seq(ClausesIn(S)), NEW k \in Nat, k <= Len(cls)
  PROVE  /\ Reading(Fore(cls, k)) = Text(Yomis(cls), k)
         /\ Reading(Back(cls, k)) = FlattenSeq(Back(Yomis(cls), k))
         /\ Reading(Fore(cls, k)) \in Seq(S) /\ Reading(Back(cls, k)) \in Seq(S)
         /\ Reading(cls) = Reading(Fore(cls, k)) \o Reading(Back(cls, k))
<1>1. Yomis(Fore(cls, k)) = Fore(Yomis(cls), k) /\ Yomis(Back(cls, k)) = Back(Yomis(cls), k)
  BY YomisParts
<1>2. Yomis(cls) \in Seq(Seq(S)) /\ k <= Len(Yomis(cls))
  BY YomisIs
<1>3. /\ Text(Yomis(cls), k) \in Seq(S) /\ FlattenSeq(Back(Yomis(cls), k)) \in Seq(S)
      /\ FlattenSeq(Yomis(cls)) = Text(Yomis(cls), k) \o FlattenSeq(Back(Yomis(cls), k))
  BY <1>2, TextParts
<1> QED  BY <1>1, <1>3 DEF Reading, Text

SameYomis(cls, ps) == Len(cls) = Len(ps) /\ \A i \in 1 .. Len(ps) : cls[i].yomi = ps[i]

LEMMA YomisAre ==
  ASSUME NEW S, NEW cls \in Seq(ClausesIn(S)), NEW ps \in Seq(Seq(S)), SameYomis(cls, ps)
  PROVE  Yomis(cls) = ps
<1>1. PICK R : R = Seq(S)
  OBVIOUS
<1>2. PICK y : y = Yomis(cls)
  OBVIOUS
<1>3. PICK n \in Nat : n = Len(ps)
  OBVIOUS
<1>4. Len(cls) = n /\ \A i \in 1 .. n : cls[i].yomi = ps[i]
  BY <1>3 DEF SameYomis
<1>5. y \in Seq(R) /\ Len(y) = n /\ \A i \in 1 .. n : y[i] = cls[i].yomi
  BY <1>1, <1>2, <1>4, YomisIs
<1>6. ps \in Seq(R)
  BY <1>1
<1>7. \A i \in 1 .. n : y[i] = ps[i]
  BY <1>4, <1>5
<1>8. y = ps
  BY <1>3, <1>5, <1>6, <1>7, SeqEqual
<1> QED  BY <1>2, <1>8

LEMMA ClauseIs ==
  ASSUME NEW S, NEW y \in Seq(S), NEW a \in Ats
  PROVE  /\ Clause(y, a) \in ClausesIn(S) /\ Clause(y, a).yomi = y /\ Clause(y, a).at = a
<1>1. PICK R : R = Seq(S)
  OBVIOUS
<1>2. y \in R
  BY <1>1
<1>3. [yomi |-> y, at |-> a] \in [yomi : R, at : Ats]
  BY <1>2
<1> QED  BY <1>1, <1>3 DEF Clause, ClausesIn

LEMMA ClauseSelected ==
  ASSUME NEW S, NEW c \in ClausesIn(S), NEW a \in Ats
  PROVE  LET d == [c EXCEPT !.at = a] IN d \in ClausesIn(S) /\ d.yomi = c.yomi /\ d.at = a
<1>1. PICK R : R = Seq(S)
  OBVIOUS
<1>2. c \in [yomi : R, at : Ats]
  BY <1>1 DEF ClausesIn
<1>3. PICK d : d = [c EXCEPT !.at = a]
  OBVIOUS
<1>4. d \in [yomi : R, at : Ats] /\ d.yomi = c.yomi /\ d.at = a
  BY <1>2, <1>3
<1> QED  BY <1>1, <1>3, <1>4 DEF ClausesIn

LEMMA FunSeq ==
  ASSUME NEW C, NEW n \in Nat, NEW q \in [1 .. n -> C]
  PROVE  q \in Seq(C) /\ Len(q) = n
OBVIOUS

LEMMA ConvertedIs ==
  ASSUME NEW S, NEW ps \in Seq(Seq(S))
  PROVE  /\ Converted(ps) \in Seq(ClausesIn(S)) /\ Len(Converted(ps)) = Len(ps)
         /\ Yomis(Converted(ps)) = ps
         /\ AllConverted(Converted(ps))
<1>1. PICK n \in Nat : n = Len(ps) /\ DOMAIN ps = 1 .. n
  OBVIOUS
<1>2. PICK q : q = Converted(ps)
  OBVIOUS
<1>3. q = [i \in 1 .. n |-> Clause(ps[i], "CONVERTED")]
  BY <1>1, <1>2 DEF Converted
<1>4. ASSUME NEW i \in 1 .. n
      PROVE  q[i] \in ClausesIn(S) /\ q[i].yomi = ps[i] /\ q[i].at = "CONVERTED"
  <2>1. PICK e, a : e = ps[i] /\ a = "CONVERTED"
    OBVIOUS
  <2>2. q[i] = Clause(e, a)
    BY <1>3, <2>1
  <2>3. e \in Seq(S) /\ a \in Ats
    <3>1. a \in Ats
      BY <2>1 DEF Ats
    <3>2. e \in Seq(S)
      BY <1>1, <2>1
    <3> QED  BY <3>1, <3>2
  <2>4. Clause(e, a) \in ClausesIn(S) /\ Clause(e, a).yomi = e /\ Clause(e, a).at = a
    BY <2>3, ClauseIs
  <2> QED  BY <2>1, <2>2, <2>4
<1>5. q \in Seq(ClausesIn(S)) /\ Len(q) = n
  <2>1. PICK C : C = ClausesIn(S)
    OBVIOUS
  <2>2. q \in [1 .. n -> C]
    BY <1>3, <1>4, <2>1
  <2> QED  BY <2>1, <2>2, FunSeq
<1>6. AllConverted(q)
  BY <1>4, <1>5 DEF AllConverted, IsConverted
<1>7. SameYomis(q, ps)
  BY <1>1, <1>4, <1>5 DEF SameYomis
<1>8. Yomis(q) = ps
  BY <1>5, <1>7, YomisAre
<1>9. Len(q) = Len(ps)
  BY <1>1, <1>5
<1>10. q \in Seq(ClausesIn(S))
  BY <1>5
<1> QED  BY Zenon, <1>2, <1>6, <1>8, <1>9, <1>10

LEMMA AllConvertedConcat ==
  ASSUME NEW S, NEW a \in Seq(ClausesIn(S)), NEW b \in Seq(ClausesIn(S)), AllConverted(a), AllConverted(b)
  PROVE  AllConverted(a \o b)
<1>1. PICK m \in Nat, n \in Nat : m = Len(a) /\ n = Len(b)
  OBVIOUS
<1>2. PICK C : C = ClausesIn(S)
  OBVIOUS
<1>3. a \in Seq(C) /\ b \in Seq(C)
  BY <1>2
<1>4. PICK c : c = a \o b
  OBVIOUS
<1>5. Len(c) = m + n /\ \A i \in 1 .. m + n : c[i] = IF i <= m THEN a[i] ELSE b[i - m]
  BY <1>1, <1>3, <1>4, ConcatProperties
<1>6. ASSUME NEW i \in 1 .. m + n  PROVE IsConverted(c[i])
  <2>1. CASE i <= m
    <3>1. i \in 1 .. m /\ c[i] = a[i]
      BY <1>5, <2>1
    <3> QED  BY <1>1, <3>1 DEF AllConverted
  <2>2. CASE ~(i <= m)
    <3>1. i - m \in 1 .. n
      BY <2>2
    <3>2. c[i] = b[i - m]
      BY <1>5, <2>2
    <3> QED  BY <1>1, <3>1, <3>2 DEF AllConverted
  <2> QED  BY <2>1, <2>2
<1>7. AllConverted(c)
  BY <1>5, <1>6 DEF AllConverted
<1> QED  BY <1>4, <1>7

\* ... of which one is selected.
LEMMA SelectIs ==
  ASSUME NEW S, NEW ps \in Seq(Seq(S)), NEW k
  PROVE  LET q == [Converted(ps) EXCEPT ![k].at = "TARGET_CONVERTED"]
         IN  q \in Seq(ClausesIn(S)) /\ Len(q) = Len(ps) /\ Yomis(q) = ps /\ AllConverted(q)
<1>1. PICK n \in Nat : n = Len(ps)
  OBVIOUS
<1>2. PICK p, q : p = Converted(ps) /\ q = [p EXCEPT ![k].at = "TARGET_CONVERTED"]
  OBVIOUS
<1>3. p \in Seq(ClausesIn(S)) /\ Len(p) = n /\ Yomis(p) = ps /\ AllConverted(p)
  BY <1>1, <1>2, ConvertedIs
<1>4. DOMAIN p = 1 .. n
  BY <1>3
<1>5. DOMAIN q = 1 .. n
  BY <1>2, <1>4
<1>6. ASSUME NEW i \in 1 .. n
      PROVE  q[i] \in ClausesIn(S) /\ q[i].yomi = p[i].yomi /\ IsConverted(q[i])
  <2>1. p[i] \in ClausesIn(S) /\ IsConverted(p[i])
    BY <1>3, <1>4 DEF AllConverted
  <2>2. CASE i = k
    <3>1. PICK c, a, d : c = p[i] /\ a = "TARGET_CONVERTED" /\ d = [c EXCEPT !.at = a]
      OBVIOUS
    <3>2. q[i] = d
      BY <1>2, <1>4, <2>2, <3>1
    <3>3. c \in ClausesIn(S) /\ a \in Ats
      <4>1. a \in Ats
        BY <3>1 DEF Ats
      <4> QED  BY <2>1, <3>1, <4>1
    <3>4. d \in ClausesIn(S) /\ d.yomi = c.yomi /\ d.at = a
      BY <3>1, <3>3, ClauseSelected
    <3> QED  BY <3>1, <3>2, <3>4 DEF IsConverted
  <2>3. CASE i # k
    <3>1. q[i] = p[i]
      BY <1>2, <1>4, <2>3
    <3> QED  BY <2>1, <3>1
  <2> QED  BY <2>2, <2>3
<1>7. q = [i \in 1 .. n |-> q[i]]
  BY <1>2, <1>5
<1>8. q \in Seq(ClausesIn(S)) /\ Len(q) = n
  <2>1. PICK C : C = ClausesIn(S)
    OBVIOUS
  <2>2. q \in [1 .. n -> C]
    BY <1>6, <1>7, <2>1
  <2> QED  BY <2>1, <2>2, FunSeq
<1>9. AllConverted(q)
  BY <1>6, <1>8 DEF AllConverted
<1>10. Yomis(q) = ps
  <2>1. \A i \in 1 .. n : ps[i] = p[i].yomi
    <3>1. \A i \in 1 .. Len(p) : Yomis(p)[i] = p[i].yomi
      BY <1>3, YomisIs
    <3> QED  BY <1>3, <3>1
  <2>2. SameYomis(q, ps)
    BY <1>1, <1>6, <1>8, <2>1 DEF SameYomis
  <2> QED  BY <1>8, <2>2, YomisAre
<1>11. Len(q) = Len(ps)
  BY <1>1, <1>8
<1>12. q \in Seq(ClausesIn(S))
  BY <1>8
<1> QED  BY Zenon, <1>2, <1>9, <1>10, <1>11, <1>12

LEMMA NoClauses ==
  ASSUME NEW S
  PROVE  Reads(<<>>, S, <<>>) /\ Yomis(<<>>) = <<>>
<1>1. PICK e : e = <<>>
  OBVIOUS
<1>2. e \in Seq(ClausesIn(S)) /\ Len(e) = 0 /\ DOMAIN e = {}
  BY <1>1
<1>3. Yomis(e) = e
  BY <1>1, <1>2 DEF Yomis
<1>4. Pieces(e) /\ AllConverted(e)
  BY <1>2 DEF Pieces, AllConverted
<1>5. Reading(e) = e
  BY <1>1, <1>3, FlattenEmpty DEF Reading
<1> QED  BY <1>1, <1>2, <1>3, <1>4, <1>5 DEF Reads

LEMMA OneClause ==
  ASSUME NEW S, NEW y \in Seq(S), NEW a \in Ats
  PROVE  LET cls == <<Clause(y, a)>>
         IN  cls \in Seq(ClausesIn(S)) /\ Len(cls) = 1 /\ Yomis(cls) = <<y>> /\ Reading(cls) = y
<1>1. PICK c, cls, ps : c = Clause(y, a) /\ cls = <<c>> /\ ps = <<y>>
  OBVIOUS
<1>2. c \in ClausesIn(S) /\ c.yomi = y
  BY <1>1, ClauseIs
<1>3. cls \in Seq(ClausesIn(S)) /\ Len(cls) = 1 /\ cls[1] = c
  <2>1. PICK C : C = ClausesIn(S)
    OBVIOUS
  <2> QED  BY <1>1, <1>2, <2>1
<1>4. ps \in Seq(Seq(S)) /\ Len(ps) = 1 /\ ps[1] = y
  BY <1>1
<1>5. SameYomis(cls, ps)
  BY <1>2, <1>3, <1>4 DEF SameYomis
<1>6. Yomis(cls) = ps
  BY <1>3, <1>4, <1>5, YomisAre
<1>7. FlattenSeq(ps) = y
  BY <1>1, FlattenOne
<1> QED  BY <1>1, <1>3, <1>6, <1>7 DEF Reading

LEMMA OnePiece ==
  ASSUME NEW S, NEW y \in Seq(S), Whole(y), y # <<>>
  PROVE  <<y>> \in Seq(Seq(S)) /\ Pieces(<<y>>)
<1>1. PICK ps : ps = <<y>>
  OBVIOUS
<1>2. ps \in Seq(Seq(S)) /\ Len(ps) = 1 /\ ps[1] = y
  BY <1>1
<1>3. Pieces(ps)
  BY <1>2 DEF Pieces, Whole
<1> QED  BY <1>1, <1>2, <1>3

\* What the conversion of a reading gives.
LEMMA ConversionsIs ==
  ASSUME NEW S, NEW y \in Seq(S), Whole(y), NEW cls \in Conversions(y)
  PROVE  Reads(cls, S, y)
<1>1. CASE y = <<>>
  <2>1. cls = <<>>
    BY <1>1 DEF Conversions
  <2> QED  BY <1>1, <2>1, NoClauses
<1>2. CASE y # <<>>
  <2>1. PICK p \in Cuts(y) : cls = [Converted(p) EXCEPT ![1].at = "TARGET_CONVERTED"]
    BY <1>2 DEF Conversions
  <2>2. p \in Seq(Seq(S)) /\ Pieces(p) /\ FlattenSeq(p) = y
    BY CutsIs
  <2>3. cls \in Seq(ClausesIn(S)) /\ Yomis(cls) = p /\ AllConverted(cls)
    BY <2>1, <2>2, SelectIs
  <2> QED  BY <2>2, <2>3 DEF Reads, Reading
<1> QED  BY <1>1, <1>2

\* What typing gives.
LEMMA TypedIs ==
  ASSUME NEW S, NEW y \in Seq(S), Whole(y), NEW t \in Typed(y)
  PROVE  /\ t.result \in Seq(Seq(S)) /\ t.comp \in Seq(ClausesIn(S))
         /\ Pieces(Yomis(t.comp)) /\ ConvertedFirst(t.comp)
         /\ FlattenSeq(t.result) \o Reading(t.comp) = y
<1>1. PICK u \in Cuts(y) \X (0 .. 1) \X (0 .. Len(y)) :
         /\ u[2] <= u[3] /\ u[3] <= Len(u[1])
         /\ t = [result |-> SubSeq(u[1], 1, u[2]),
                 comp |-> Converted(SubSeq(u[1], u[2] + 1, u[3]))
                            \o (IF u[3] = Len(u[1]) THEN <<>>
                                ELSE <<Clause(FlattenSeq(SubSeq(u[1], u[3] + 1, Len(u[1]))), "INPUT")>>)]
  BY DEF Typed
<1>2. PICK p, m, n : p = u[1] /\ m = u[2] /\ n = u[3]
  OBVIOUS
<1>3. p \in Cuts(y) /\ m \in Nat /\ n \in Nat
  BY <1>1, <1>2
<1>4. p \in Seq(Seq(S)) /\ Pieces(p) /\ FlattenSeq(p) = y
  BY <1>3, CutsIs
<1>5. m <= n /\ n <= Len(p) /\ m <= Len(p)
  BY <1>1, <1>2, <1>3, <1>4
<1>6. PICK f, q, b : f = Fore(p, m) /\ q = SubSeq(p, m + 1, n) /\ b = Back(p, n)
  OBVIOUS
<1>7. PICK end : end = IF n = Len(p) THEN <<>> ELSE <<Clause(FlattenSeq(b), "INPUT")>>
  OBVIOUS
<1>8. t.result = f /\ t.comp = Converted(q) \o end
  BY <1>1, <1>2, <1>6, <1>7 DEF Fore, Back
<1>9. f \in Seq(Seq(S)) /\ q \in Seq(Seq(S)) /\ b \in Seq(Seq(S)) /\ f \o q = Fore(p, n)
  <2>1. PICK R : R = Seq(S)
    OBVIOUS
  <2>2. p \in Seq(R)
    BY <1>4, <2>1
  <2>3. q \in Seq(R) /\ f \o q = Fore(p, n)
    BY <1>3, <1>5, <1>6, <2>2, FrontExtended
  <2>4. f \in Seq(R)
    BY <1>3, <1>5, <1>6, <2>2, FrontIs
  <2>5. PICK k \in Nat : Splits(p, n, k)
    <3>1. PICK l \in Nat : l = Len(p)
      BY <2>2
    <3>2. l - n \in Nat /\ l = n + (l - n)
      BY <1>3, <1>5, <3>1
    <3> QED  BY <3>1, <3>2 DEF Splits
  <2>6. b \in Seq(R)
    BY <1>3, <1>6, <2>2, <2>5, BackIs
  <2> QED  BY <2>1, <2>3, <2>4, <2>6
<1>10. Pieces(q) /\ Pieces(b)
  <2>1. Pieces(Fore(p, n)) /\ Pieces(b)
    BY <1>3, <1>4, <1>5, <1>6, PiecesFront
  <2>2. PICK R, g : R = Seq(S) /\ g = Fore(p, n)
    OBVIOUS
  <2>3. f \in Seq(R) /\ q \in Seq(R) /\ g = f \o q
    BY <1>9, <2>2
  <2>4. Back(g, Len(f)) = q /\ g \in Seq(R) /\ Len(g) = Len(f) + Len(q)
    BY <2>3, Joined, ConcatProperties
  <2>5. PICK k \in Nat, j \in Nat : k = Len(f) /\ j = Len(q)
    BY <2>3
  <2>6. k <= Len(g)
    BY <2>4, <2>5
  <2>7. g \in Seq(Seq(S))
    BY <2>2, <2>4
  <2>8. Pieces(Back(g, k))
    BY <2>1, <2>2, <2>5, <2>6, <2>7, PiecesFront
  <2> QED  BY <2>1, <2>4, <2>5, <2>8
<1>11. PICK r, x, z : r = FlattenSeq(f) /\ x = FlattenSeq(q) /\ z = FlattenSeq(b)
  OBVIOUS
<1>12. r \in Seq(S) /\ x \in Seq(S) /\ z \in Seq(S) /\ Whole(z) /\ (b # <<>> => z # <<>>)
  BY <1>9, <1>10, <1>11, FlattenType, PiecesWhole
<1>13. y = (r \o x) \o z
  <2>1. FlattenSeq(f \o q) = r \o x
    BY <1>9, <1>11, FlattenConcat
  <2>2. FlattenSeq(p) = Text(p, n) \o FlattenSeq(Back(p, n))
    BY <1>3, <1>4, <1>5, TextParts
  <2> QED  BY <1>4, <1>6, <1>9, <1>11, <2>1, <2>2 DEF Text
<1>14. /\ end \in Seq(ClausesIn(S)) /\ Len(end) \in {0, 1} /\ Pieces(Yomis(end)) /\ Reading(end) = z
  <2>1. CASE n = Len(p)
    <3>1. end = <<>>
      BY <1>7, <2>1
    <3>2. b = <<>>
      <4>1. PICK R : R = Seq(S)
        OBVIOUS
      <4>2. p \in Seq(R)
        BY <1>4, <4>1
      <4>3. Back(p, Len(p)) = <<>>
        BY <4>2, FrontAll
      <4> QED  BY <1>6, <2>1, <4>3
    <3>3. Reads(end, S, <<>>)
      BY <3>1, NoClauses
    <3>4. Len(end) = 0
      BY <3>1
    <3> QED  BY <1>11, <3>2, <3>3, <3>4, FlattenEmpty DEF Reads
  <2>2. CASE n # Len(p)
    <3>1. end = <<Clause(z, "INPUT")>>
      BY <1>7, <1>11, <2>2
    <3>2. z # <<>>
      <4>1. PICK R : R = Seq(S)
        OBVIOUS
      <4>2. p \in Seq(R)
        BY <1>4, <4>1
      <4>3. PICK k \in Nat : Splits(p, n, k) /\ k # 0
        <5>1. PICK l \in Nat : l = Len(p)
          BY <4>2
        <5>2. l - n \in Nat /\ l = n + (l - n) /\ l - n # 0
          BY <1>3, <1>5, <2>2, <5>1
        <5> QED  BY <5>1, <5>2 DEF Splits
      <4>4. Len(b) = k
        BY <1>3, <1>6, <4>2, <4>3, BackIs
      <4>5. b # <<>>
        BY <4>3, <4>4
      <4> QED  BY <1>12, <4>5
    <3>3. "INPUT" \in Ats
      BY DEF Ats
    <3>4. end \in Seq(ClausesIn(S)) /\ Len(end) = 1 /\ Yomis(end) = <<z>> /\ Reading(end) = z
      BY <1>12, <3>1, <3>3, OneClause
    <3>5. Pieces(<<z>>)
      BY <1>12, <3>2, OnePiece
    <3> QED  BY <3>4, <3>5
  <2> QED  BY <2>1, <2>2
<1>15. PICK c : c = Converted(q)
  OBVIOUS
<1>16. c \in Seq(ClausesIn(S)) /\ Yomis(c) = q /\ AllConverted(c)
  BY <1>9, <1>15, ConvertedIs
<1>17. t.comp \in Seq(ClausesIn(S)) /\ Yomis(t.comp) = q \o Yomis(end)
  BY <1>8, <1>14, <1>15, <1>16, YomisConcat, ZenonT(60)
<1>18. Pieces(Yomis(t.comp)) /\ Reading(t.comp) = x \o z
  <2>1. Yomis(end) \in Seq(Seq(S))
    BY <1>14, YomisIs
  <2>2. Pieces(q \o Yomis(end))
    BY <1>9, <1>10, <1>14, <2>1, PiecesConcat
  <2>3. FlattenSeq(q \o Yomis(end)) = x \o FlattenSeq(Yomis(end))
    BY <1>9, <1>11, <2>1, FlattenConcat
  <2> QED  BY <1>14, <1>17, <2>2, <2>3 DEF Reading
<1>19. ConvertedFirst(t.comp)
  <2>1. PICK C : C = ClausesIn(S)
    OBVIOUS
  <2>2. PICK k \in Nat, j \in Nat : k = Len(c) /\ j = Len(end) /\ j <= 1
    <3>1. Len(c) \in Nat
      BY <1>16
    <3>2. Len(end) = 0 \/ Len(end) = 1
      BY <1>14
    <3>3. PICK h \in Nat : h = Len(end) /\ h <= 1
      <4>1. 0 \in Nat /\ 0 <= 1 /\ 1 \in Nat /\ 1 <= 1
        OBVIOUS
      <4> QED  BY <3>2, <4>1
    <3> QED  BY <3>1, <3>3
  <2>3. PICK d : d = c \o end
    OBVIOUS
  <2>4. c \in Seq(C) /\ end \in Seq(C)
    BY <1>14, <1>16, <2>1
  <2>5. Len(d) = k + j /\ \A i \in 1 .. k + j : d[i] = IF i <= k THEN c[i] ELSE end[i - k]
    BY <2>2, <2>3, <2>4, ConcatProperties
  <2>6. ASSUME NEW i \in 1 .. k + j, NEW h \in 1 .. k + j, i < h  PROVE IsConverted(d[i])
    <3>1. i \in 1 .. k /\ i <= k
      BY <2>2, <2>6
    <3>2. d[i] = c[i]
      BY <2>5, <3>1
    <3>3. IsConverted(c[i])
      BY <1>16, <2>2, <3>1 DEF AllConverted
    <3> QED  BY <3>2, <3>3
  <2>7. ConvertedFirst(d)
    BY <2>5, <2>6 DEF ConvertedFirst
  <2> QED  BY <1>8, <1>15, <2>3, <2>7
<1>20. FlattenSeq(t.result) \o Reading(t.comp) = y
  <2>1. (r \o x) \o z = r \o (x \o z)
    BY <1>12, ConcatAssociative, SMTT(60)
  <2> QED  BY <1>8, <1>11, <1>13, <1>18, <2>1
<1> QED  BY <1>8, <1>9, <1>17, <1>18, <1>19, <1>20

---------------------------------------------------------------------------
(* A clause made longer or shorter.                                        *)

LEMMA Spliced ==
  ASSUME NEW R, NEW ps \in Seq(R), NEW e \in R, NEW qs \in Seq(R), NEW k \in Nat, Len(ps) = k
  PROVE  LET s == (ps \o <<e>>) \o qs
         IN  s \in Seq(R) /\ Fore(s, k) = ps /\ k < Len(s) /\ s[k + 1] = e
<1>1. PICK o, a, s : o = <<e>> /\ a = ps \o o /\ s = a \o qs
  OBVIOUS
<1>2. PICK n \in Nat : n = Len(qs)
  OBVIOUS
<1>3. o \in Seq(R) /\ Len(o) = 1 /\ o[1] = e
  BY <1>1
<1>4. /\ a \in Seq(R) /\ Len(a) = k + 1
      /\ \A i \in 1 .. k + 1 : a[i] = IF i <= k THEN ps[i] ELSE o[i - k]
  BY <1>1, <1>3, ConcatProperties
<1>5. PICK m \in Nat : m = k + 1 /\ m - k = 1 /\ ~(m <= k)
  OBVIOUS
<1>6. a[m] = e
  <2>1. m \in 1 .. k + 1
    BY <1>5
  <2> QED  BY <1>3, <1>4, <1>5, <2>1
<1>7. /\ s \in Seq(R) /\ Len(s) = m + n
      /\ \A i \in 1 .. m + n : s[i] = IF i <= m THEN a[i] ELSE qs[i - m]
  <2>1. a \in Seq(R) /\ Len(a) = m
    BY <1>4, <1>5
  <2>2. s = a \o qs
    BY <1>1
  <2> QED  BY <1>2, <2>1, <2>2, ConcatProperties
<1>8. s[m] = e
  <2>1. m \in 1 .. m + n /\ m <= m
    BY <1>5
  <2> QED  BY <1>6, <1>7, <2>1
<1>9. Fore(s, k) = ps
  <2>1. k <= Len(a) /\ Fore(a, k) = ps
    <3>1. Fore(ps \o o, Len(ps)) = ps
      BY <1>3, Joined
    <3>2. Len(a) = k + 1
      BY <1>4
    <3>3. k <= Len(a)
      BY <3>2
    <3> QED  BY <1>1, <3>1, <3>3
  <2>2. Fore(a \o qs, k) = Fore(a, k)
    BY <1>4, <2>1, FrontOfConcat
  <2> QED  BY <1>1, <2>1, <2>2
<1>10. k < Len(s)
  BY <1>5, <1>7
<1> QED  BY <1>1, <1>5, <1>7, <1>8, <1>9, <1>10

\* What comes after the first i begins with those up to k.
LEMMA BackBegins ==
  ASSUME NEW S, NEW s \in Seq(S), NEW i \in Nat, NEW k \in Nat, i <= k, k <= Len(s)
  PROVE  SubSeq(s, i + 1, k) \in Seq(S) /\ Back(s, k) \in Seq(S) /\ Back(s, i) = SubSeq(s, i + 1, k) \o Back(s, k)
<1>1. PICK f, m, b, r, g : f = Fore(s, i) /\ m = SubSeq(s, i + 1, k) /\ b = Back(s, k) /\ r = Back(s, i) /\ g = Fore(s, k)
  OBVIOUS
<1>2. i <= Len(s)
  OBVIOUS
<1>3. f \in Seq(S) /\ m \in Seq(S) /\ g = f \o m
  <2>1. m \in Seq(S) /\ f \o m = g
    BY <1>1, FrontExtended
  <2>2. f \in Seq(S)
    BY <1>1, <1>2, FrontIs
  <2> QED  BY <2>1, <2>2
<1>4. PICK l \in Nat : l = Len(s)
  OBVIOUS
<1>5. PICK n \in Nat, h \in Nat : Splits(s, k, n) /\ Splits(s, i, h)
  <2>1. l - k \in Nat /\ l = k + (l - k) /\ l - i \in Nat /\ l = i + (l - i)
    BY <1>4
  <2> QED  BY <1>4, <2>1 DEF Splits
<1>6. b \in Seq(S) /\ r \in Seq(S)
  BY <1>1, <1>5, BackIs
<1>7. s = g \o b /\ s = f \o r
  BY <1>1, <1>2, FrontBack
<1>8. (f \o m) \o b = f \o (m \o b)
  BY <1>3, <1>6, ConcatAssociative, SMTT(60)
<1>9. PICK mb : mb = m \o b
  OBVIOUS
<1>10. mb \in Seq(S)
  BY <1>3, <1>6, <1>9, ConcatProperties
<1>11. f \o r = f \o mb
  BY <1>3, <1>7, <1>8, <1>9
<1>12. r = mb
  BY <1>3, <1>6, <1>10, <1>11, Parted
<1> QED  BY <1>1, <1>3, <1>6, <1>9, <1>12

\* The characters that NewLength looks at are those that follow.
LEMMA LookedAt ==
  ASSUME NEW S, NEW cls \in Seq(ClausesIn(S)), NEW i \in Nat, i < Len(cls), NEW k,
         LET text == Reading(SubSeq(cls, i + 1, Min({i + 2, Len(cls)}))) IN Combine(text, k)
  PROVE  /\ k \in Nat \ {0} /\ k < Len(Reading(Back(cls, i)))
         /\ Reading(Back(cls, i))[k + 1] = Mark /\ Reading(Back(cls, i))[k] # Mark
<1>1. PICK l \in Nat : l = Len(cls)
  OBVIOUS
<1>2. PICK j \in Nat : j = Min({i + 2, Len(cls)}) /\ i <= j /\ j <= Len(cls)
  <2>1. PICK j \in Nat : /\ j \in {i + 2, l} /\ (\A x \in {i + 2, l} : j <= x)
    <3>1. CASE i + 2 <= l
      BY <3>1
    <3>2. CASE ~(i + 2 <= l)
      BY <3>2
    <3> QED  BY <3>1, <3>2
  <2>2. Min({i + 2, l}) = j
    BY <2>1 DEF Min
  <2>3. i <= j /\ j <= l
    BY <1>1, <2>1
  <2> QED  BY <1>1, <2>2, <2>3
<1>3. PICK m, b, r : m = SubSeq(cls, i + 1, j) /\ b = Back(cls, j) /\ r = Back(cls, i)
  OBVIOUS
<1>4. m \in Seq(ClausesIn(S)) /\ b \in Seq(ClausesIn(S)) /\ r = m \o b
  <2>1. PICK C : C = ClausesIn(S)
    OBVIOUS
  <2>2. cls \in Seq(C)
    BY <2>1
  <2>3. m \in Seq(C) /\ b \in Seq(C) /\ r = m \o b
    BY <1>2, <1>3, <2>2, BackBegins, ZenonT(60)
  <2> QED  BY <2>1, <2>3
<1>5. Yomis(r) = Yomis(m) \o Yomis(b)
  BY <1>4, YomisConcat
<1>6. Yomis(m) \in Seq(Seq(S)) /\ Yomis(b) \in Seq(Seq(S))
  BY <1>4, YomisIs
<1>7. PICK x, z, y : x = Reading(m) /\ z = Reading(b) /\ y = Reading(r)
  OBVIOUS
<1>8. x \in Seq(S) /\ z \in Seq(S)
  BY <1>4, <1>7, ReadingType
<1>9. y = x \o z
  BY <1>5, <1>6, <1>7, FlattenConcat DEF Reading
<1>10. PICK p \in Nat, q \in Nat : p = Len(x) /\ q = Len(z)
  BY <1>8
<1>11. Len(y) = p + q /\ \A h \in 1 .. p + q : y[h] = IF h <= p THEN x[h] ELSE z[h - p]
  BY <1>8, <1>9, <1>10, ConcatProperties
<1>12. k \in 1 .. p - 1 /\ x[k + 1] = Mark /\ x[k] # Mark
  BY <1>2, <1>3, <1>7, <1>10 DEF Combine
<1>13. k \in 1 .. p + q /\ k <= p /\ k + 1 \in 1 .. p + q /\ k + 1 <= p
  BY <1>12
<1>14. y[k] = x[k]
  BY <1>11, <1>13
<1>15. y[k + 1] = x[k + 1]
  BY <1>11, <1>13
<1>16. k \in Nat \ {0} /\ k < p + q
  BY <1>12
<1> QED  BY <1>3, <1>7, <1>11, <1>12, <1>14, <1>15, <1>16

LengthAsked(cls, i, diff) == Len(cls[i + 1].yomi) + diff

LEMMA NewLengthIs ==
  ASSUME NEW S, NEW cls \in Seq(ClausesIn(S)), NEW i \in Nat, i < Len(cls), NEW diff \in Int,
         ~StaysAsIs(cls, i, diff), NEW w, w = LengthAsked(cls, i, diff), NEW r, r = Reading(Back(cls, i))
  PROVE  /\ w \in Nat \ {0} /\ NewLength(cls, i, diff) \in Nat \ {0}
         /\ \/ NewLength(cls, i, diff) = w
            \/ diff < 0 /\ w < Len(r) /\ r[w + 1] = Mark
            \/ NewLength(cls, i, diff) = w + 1 /\ w + 1 < Len(r) /\ r[w + 2] = Mark
<1>1. w \in Nat \ {0}
  <2>1. cls[i + 1].yomi \in Seq(S)
    <3>1. PICK C : C = ClausesIn(S)
      OBVIOUS
    <3>2. cls[i + 1] \in C
      BY <3>1
    <3> QED  BY <3>1, <3>2 DEF ClausesIn
  <2>2. Len(cls[i + 1].yomi) \in Nat
    BY <2>1
  <2>3. ~(w <= 0)
    BY DEF StaysAsIs, LengthAsked
  <2> QED  BY <2>2, <2>3 DEF LengthAsked
<1>2. PICK text : text = Reading(SubSeq(cls, i + 1, Min({i + 2, Len(cls)})))
  OBVIOUS
<1>3. NewLength(cls, i, diff) = IF diff < 0 THEN IF w >= 2 /\ Combine(text, w) THEN w - 1 ELSE w
                                ELSE IF Combine(text, w + 1) THEN w + 1 ELSE w
  BY <1>2 DEF NewLength, LengthAsked
<1>4. Combine(text, w) => w < Len(r) /\ r[w + 1] = Mark
  BY <1>2, LookedAt
<1>5. Combine(text, w + 1) => w + 1 < Len(r) /\ r[w + 2] = Mark
  <2> SUFFICES ASSUME Combine(text, w + 1)  PROVE w + 1 < Len(r) /\ r[w + 2] = Mark
    OBVIOUS
  <2>1. PICK k \in Nat : k = w + 1 /\ k + 1 = w + 2
    BY <1>1
  <2>2. k < Len(r) /\ r[k + 1] = Mark
    BY <1>2, <2>1, LookedAt
  <2> QED  BY <2>1, <2>2
<1>6. CASE diff < 0
  <2>1. CASE w >= 2 /\ Combine(text, w)
    <3>1. NewLength(cls, i, diff) = w - 1
      BY <1>3, <1>6, <2>1
    <3> QED  BY <1>1, <1>4, <1>6, <2>1, <3>1
  <2>2. CASE ~(w >= 2 /\ Combine(text, w))
    BY <1>1, <1>3, <1>6, <2>2
  <2> QED  BY <2>1, <2>2
<1>7. CASE ~(diff < 0)
  <2>1. CASE Combine(text, w + 1)
    <3>1. NewLength(cls, i, diff) = w + 1
      BY <1>3, <1>7, <2>1
    <3> QED  BY <1>1, <1>5, <2>1, <3>1
  <2>2. CASE ~Combine(text, w + 1)
    BY <1>1, <1>3, <1>7, <2>2
  <2> QED  BY <2>1, <2>2
<1> QED  BY <1>6, <1>7

\* What a clause given another length makes of the clauses: those before it
\* stay, and it ends where no mark is parted from its kana.
LEMMA RecutsIs ==
  ASSUME NEW S, NEW cls \in Seq(ClausesIn(S)), Pieces(Yomis(cls)), NEW i \in Nat, i < Len(cls),
         NEW diff \in Int, ~StaysAsIs(cls, i, diff), NEW new \in Recuts(cls, i, diff),
         NEW len, len = NewLength(cls, i, diff), NEW r, r = Reading(Back(cls, i))
  PROVE  /\ Reads(new, S, Reading(cls))
         /\ i < Len(new) /\ Fore(Yomis(new), i) = Fore(Yomis(cls), i)
         /\ len <= Len(r) /\ (len < Len(r) => r[len + 1] # Mark)
         /\ Yomis(new)[i + 1] = Fore(r, len)
<1>1. len \in Nat \ {0}
  <2>1. PICK w : w = LengthAsked(cls, i, diff)
    OBVIOUS
  <2> QED  BY <2>1, NewLengthIs
<1>2. PICK f, b, x : f = Fore(cls, i) /\ b = Back(cls, i) /\ x = Reading(f)
  OBVIOUS
<1>3. i <= Len(cls)
  OBVIOUS
<1>4. /\ f \in Seq(ClausesIn(S)) /\ b \in Seq(ClausesIn(S))
      /\ Yomis(f) = Fore(Yomis(cls), i) /\ Yomis(b) = Back(Yomis(cls), i)
  BY <1>2, <1>3, YomisParts
<1>5. x \in Seq(S) /\ r \in Seq(S) /\ Reading(cls) = x \o r
  BY <1>2, <1>3, FrontReading
<1>6. Pieces(Yomis(f)) /\ Pieces(Yomis(b))
  <2>1. Yomis(cls) \in Seq(Seq(S)) /\ i <= Len(Yomis(cls))
    BY <1>3, YomisIs
  <2> QED  BY <1>4, <2>1, PiecesFront
<1>7. Whole(r) /\ r # <<>>
  <2>1. Yomis(b) \in Seq(Seq(S))
    BY <1>4, YomisIs
  <2>2. Len(b) # 0
    <3>1. PICK C : C = ClausesIn(S)
      OBVIOUS
    <3>2. cls \in Seq(C)
      BY <3>1
    <3>3. PICK n \in Nat : Splits(cls, i, n) /\ n # 0
      <4>1. PICK l \in Nat : l = Len(cls)
        OBVIOUS
      <4>2. l - i \in Nat /\ l = i + (l - i) /\ l - i # 0
        BY <4>1
      <4> QED  BY <4>1, <4>2 DEF Splits
    <3>4. Len(b) = n
      BY <1>2, <3>2, <3>3, BackIs
    <3> QED  BY <3>3, <3>4
  <2>3. Yomis(b) # <<>>
    <3>1. Len(Yomis(b)) # 0
      BY <1>4, <2>2, YomisIs
    <3> QED  BY <3>1
  <2> QED  BY <1>2, <1>6, <2>1, <2>3, PiecesWhole DEF Reading
<1>8. PICK a, t, o : a = Converted(Yomis(f)) /\ t = Fore(r, len) /\ o = <<Clause(t, "TARGET_CONVERTED")>>
  OBVIOUS
<1>9. PICK p : /\ new = (a \o o) \o Converted(p)
               /\ p \in IF len = Len(r) THEN {<<>>}
                        ELSE IF len > Len(r) \/ r[len + 1] = Mark THEN {}
                        ELSE Cuts(Back(r, len))
  BY <1>2, <1>8 DEF Recuts, Fore, Back
<1>10. len <= Len(r) /\ (len < Len(r) => r[len + 1] # Mark)
  <2>1. len = Len(r) \/ (~(len > Len(r)) /\ r[len + 1] # Mark)
    BY <1>9
  <2>2. Len(r) \in Nat
    BY <1>5
  <2> QED  BY <1>1, <2>1, <2>2
<1>11. t \in Seq(S) /\ Len(t) = len /\ t # <<>> /\ Whole(t)
  <2>1. t \in Seq(S) /\ Len(t) = len /\ \A j \in 1 .. len : t[j] = r[j]
    BY <1>1, <1>5, <1>8, <1>10, FrontIs, ZenonT(60)
  <2>2. t # <<>>
    <3>1. Len(t) # 0
      BY <1>1, <2>1
    <3> QED  BY <3>1
  <2>3. t[1] = r[1]
    <3>1. 1 \in 1 .. len
      BY <1>1
    <3> QED  BY <2>1, <3>1
  <2> QED  BY <1>7, <2>1, <2>2, <2>3 DEF Whole
<1>12. PICK z : z = Back(r, len)
  OBVIOUS
<1>13. z \in Seq(S) /\ Whole(z) /\ r = t \o z /\ (len = Len(r) => z = <<>>)
  <2>1. PICK l \in Nat, n \in Nat : l = Len(r) /\ l = len + n
    <3>1. PICK l \in Nat : l = Len(r)
      BY <1>5
    <3>2. l - len \in Nat /\ l = len + (l - len)
      BY <1>1, <1>10, <3>1
    <3> QED  BY <3>1, <3>2
  <2>2. Splits(r, len, n)
    BY <2>1 DEF Splits
  <2>3. z \in Seq(S) /\ Len(z) = n /\ \A j \in 1 .. n : z[j] = r[len + j]
    BY <1>1, <1>5, <1>12, <2>2, BackIs, SMTT(30)
  <2>4. Whole(z)
    <3> SUFFICES ASSUME z # <<>>  PROVE z[1] # Mark
      BY DEF Whole
    <3>1. n # 0
      BY <2>3, EmptySeq
    <3>2. len < Len(r) /\ 1 \in 1 .. n
      BY <1>1, <2>1, <3>1
    <3> QED  BY <1>10, <2>3, <3>2
  <2>5. r = t \o z
    BY <1>1, <1>5, <1>8, <1>10, <1>12, FrontBack
  <2>6. len = Len(r) => z = <<>>
    BY <1>5, <1>12, FrontAll
  <2> QED  BY <2>3, <2>4, <2>5, <2>6
<1>14. p \in Seq(Seq(S)) /\ Pieces(p) /\ FlattenSeq(p) = z
  <2>1. CASE len = Len(r)
    <3>1. p = <<>>
      BY <1>9, <2>1
    <3> QED  BY <1>13, <2>1, <3>1, FlattenEmpty DEF Pieces
  <2>2. CASE len # Len(r)
    <3>1. p \in Cuts(z)
      BY <1>9, <1>12, <2>2
    <3> QED  BY <1>13, <3>1, CutsIs
  <2> QED  BY <2>1, <2>2
<1>15. PICK g, u, c : g = Yomis(f) /\ u = <<t>> /\ c = Converted(p)
  OBVIOUS
<1>16. /\ a \in Seq(ClausesIn(S)) /\ Yomis(a) = g /\ AllConverted(a)
       /\ o \in Seq(ClausesIn(S)) /\ Yomis(o) = u /\ Len(o) = 1 /\ AllConverted(o)
       /\ c \in Seq(ClausesIn(S)) /\ Yomis(c) = p /\ AllConverted(c)
       /\ g \in Seq(Seq(S)) /\ u \in Seq(Seq(S)) /\ Pieces(g) /\ Pieces(u)
  <2>1. g \in Seq(Seq(S)) /\ Pieces(g)
    BY <1>4, <1>6, <1>15, YomisIs
  <2>2. a \in Seq(ClausesIn(S)) /\ Yomis(a) = g /\ AllConverted(a)
    BY <1>8, <1>15, <2>1, ConvertedIs
  <2>3. c \in Seq(ClausesIn(S)) /\ Yomis(c) = p /\ AllConverted(c)
    BY <1>14, <1>15, ConvertedIs
  <2>4. u \in Seq(Seq(S)) /\ Pieces(u)
    BY <1>11, <1>15, OnePiece
  <2>5. PICK at \in Ats : at = "TARGET_CONVERTED"
    BY DEF Ats
  <2>6. o \in Seq(ClausesIn(S)) /\ Yomis(o) = u /\ Len(o) = 1
    BY <1>8, <1>11, <1>15, <2>5, OneClause
  <2>7. AllConverted(o)
    <3>1. o[1].at = "TARGET_CONVERTED"
      BY <1>8, <1>11, <2>5, ClauseIs
    <3> QED  BY <2>6, <3>1 DEF AllConverted, IsConverted
  <2> QED  BY <2>1, <2>2, <2>3, <2>4, <2>6, <2>7
<1>17. PICK ao, y : ao = a \o o /\ y = g \o u
  OBVIOUS
<1>18. ao \in Seq(ClausesIn(S)) /\ Yomis(ao) = y /\ new = ao \o c
  <2>1. a \o o \in Seq(ClausesIn(S)) /\ Yomis(a \o o) = Yomis(a) \o Yomis(o)
    <3>1. a \in Seq(ClausesIn(S)) /\ o \in Seq(ClausesIn(S))
      BY <1>16
    <3> QED  BY <3>1, YomisConcat
  <2>2. Yomis(a) = g /\ Yomis(o) = u
    BY <1>16
  <2>3. new = (a \o o) \o c
    BY <1>9, <1>15
  <2> QED  BY <1>17, <2>1, <2>2, <2>3
<1>19. new \in Seq(ClausesIn(S)) /\ Yomis(new) = y \o p
  BY <1>16, <1>18, YomisConcat
<1>20. y \in Seq(Seq(S)) /\ Pieces(y)
  <2>1. Pieces(g \o u)
    BY <1>16, PiecesConcat
  <2>2. Yomis(ao) \in Seq(Seq(S))
    BY <1>18, YomisIs
  <2> QED  BY <1>17, <1>18, <2>1, <2>2
<1>21. Pieces(Yomis(new))
  BY <1>14, <1>19, <1>20, PiecesConcat
<1>22. Reading(new) = Reading(cls)
  <2>1. FlattenSeq(y \o p) = FlattenSeq(y) \o z
    BY <1>14, <1>20, FlattenConcat
  <2>2. FlattenSeq(g \o u) = FlattenSeq(g) \o FlattenSeq(u)
    BY <1>16, FlattenConcat
  <2>3. FlattenSeq(u) = t
    BY <1>11, <1>15, FlattenOne
  <2>4. FlattenSeq(g) = x
    BY <1>2, <1>15 DEF Reading
  <2>5. (x \o t) \o z = x \o (t \o z)
    BY <1>5, <1>11, <1>13, ConcatAssociative, SMTT(60)
  <2> QED  BY <1>5, <1>13, <1>17, <1>19, <2>1, <2>2, <2>3, <2>4, <2>5 DEF Reading
<1>23. AllConverted(new)
  <2>1. AllConverted(ao)
    BY <1>16, <1>17, AllConvertedConcat
  <2> QED  BY <1>16, <1>18, <2>1, AllConvertedConcat
<1>24. i < Len(new) /\ Fore(Yomis(new), i) = Fore(Yomis(cls), i) /\ Yomis(new)[i + 1] = t
  <2>1. PICK R : R = Seq(S)
    OBVIOUS
  <2>2. g \in Seq(R) /\ t \in R /\ p \in Seq(R)
    BY <1>11, <1>14, <1>16, <2>1
  <2>3. Len(g) = i
    <3>1. Yomis(cls) \in Seq(R) /\ i <= Len(Yomis(cls))
      BY <1>3, <2>1, YomisIs
    <3> QED  BY <1>4, <1>15, <3>1, FrontIs
  <2>4. PICK s : s = (g \o <<t>>) \o p
    OBVIOUS
  <2>5. Fore(s, i) = g /\ i < Len(s) /\ s[i + 1] = t
    BY <2>2, <2>3, <2>4, Spliced
  <2>6. Yomis(new) = s
    BY <1>15, <1>17, <1>19, <2>4
  <2>7. Len(s) = Len(new)
    BY <1>19, <2>6, YomisIs
  <2> QED  BY <1>4, <1>15, <2>5, <2>6, <2>7
<1> QED  BY <1>8, <1>10, <1>19, <1>21, <1>22, <1>23, <1>24 DEF Reads

---------------------------------------------------------------------------
(* adj_clause.                                                             *)

\* The reading r begins with the piece e, of w characters.
BeginsWith(S, r, e, w) == /\ r \in Seq(S) /\ e \in Seq(S) /\ w \in Nat \ {0} /\ w <= Len(r) /\ Fore(r, w) = e
                          /\ w < Len(r) => r[w + 1] # Mark

\* A reading is its next piece, and what begins whole after it.
LEMMA PieceBegins ==
  ASSUME NEW S, NEW qs \in Seq(Seq(S)), Pieces(qs), NEW j \in Nat, j < Len(qs)
  PROVE  BeginsWith(S, FlattenSeq(Back(qs, j)), qs[j + 1], Len(qs[j + 1]))
<1>1. PICK r, e, w : r = FlattenSeq(Back(qs, j)) /\ e = qs[j + 1] /\ w = Len(e)
  OBVIOUS
<1>2. e = qs[j + 1]
  BY <1>1
<1>3. w = Len(e)
  BY <1>1
<1>4. r = FlattenSeq(Back(qs, j))
  BY <1>1
<1>5. PICK R : R = Seq(S)
  OBVIOUS
<1>6. qs \in Seq(R)
  BY <1>5
<1>7. PICK b, v : b = Back(qs, j + 1) /\ v = FlattenSeq(b)
  OBVIOUS
<1>8. Back(qs, j) = <<e>> \o b
  BY <1>6, <1>7, <1>2, BackNext
<1>9. e \in Seq(S) /\ e # <<>>
  <2>1. e \in R
    BY <1>6, <1>2
  <2>2. j + 1 \in 1 .. Len(qs)
    OBVIOUS
  <2> QED  BY <1>5, <1>2, <2>1, <2>2 DEF Pieces
<1>10. b \in Seq(Seq(S)) /\ Pieces(b)
  <2>1. PICK k \in Nat : k = j + 1
    OBVIOUS
  <2>2. k <= Len(qs)
    BY <2>1
  <2>3. Pieces(b)
    BY <1>7, <2>1, <2>2, PiecesFront
  <2>4. PICK n \in Nat : Splits(qs, k, n)
    <3>1. PICK l \in Nat : l = Len(qs)
      OBVIOUS
    <3>2. l - k \in Nat /\ l = k + (l - k)
      BY <2>2, <3>1
    <3> QED  BY <3>1, <3>2 DEF Splits
  <2>5. b \in Seq(R)
    BY <1>6, <1>7, <2>1, <2>4, BackIs
  <2> QED  BY <1>5, <2>3, <2>5
<1>11. v \in Seq(S) /\ Whole(v)
  BY <1>7, <1>10, PiecesWhole
<1>12. r = e \o v
  <2>1. FlattenSeq(<<e>> \o b) = e \o v
    BY <1>7, <1>9, <1>10, FlattenCons
  <2> QED  BY <1>8, <1>4, <2>1
<1>13. PICK n \in Nat : n = Len(v)
  BY <1>11
<1>14. w \in Nat \ {0}
  <2>1. w \in Nat
    BY <1>9, <1>3
  <2> QED  BY <1>9, <1>3, <2>1, EmptySeq
<1>15. /\ r \in Seq(S) /\ Len(r) = w + n
       /\ \A i \in 1 .. w + n : r[i] = IF i <= w THEN e[i] ELSE v[i - w]
  BY <1>9, <1>11, <1>12, <1>13, <1>3, ConcatProperties
<1>16. Fore(r, w) = e
  BY <1>9, <1>11, <1>12, <1>3, Joined
<1>17. w <= Len(r)
  BY <1>14, <1>15
<1>18. w < Len(r) => r[w + 1] # Mark
  <2> SUFFICES ASSUME w < Len(r)  PROVE r[w + 1] # Mark
    OBVIOUS
  <2>1. n # 0
    BY <1>14, <1>15
  <2>2. v # <<>>
    BY <1>13, <2>1
  <2>3. PICK k \in Nat : k = w + 1 /\ k \in 1 .. w + n /\ ~(k <= w) /\ k - w = 1
    <3>1. PICK m \in Nat : m = w /\ m # 0
      BY <1>14
    <3>2. m + 1 \in Nat /\ m + 1 \in 1 .. m + n /\ ~(m + 1 <= m) /\ (m + 1) - m = 1
      BY <2>1
    <3> QED  BY <3>1, <3>2
  <2>4. r[k] = v[1]
    BY <1>15, <2>3
  <2> QED  BY <1>11, <2>2, <2>3, <2>4 DEF Whole
<1>19. BeginsWith(S, r, e, w)
  BY <1>9, <1>14, <1>15, <1>16, <1>17, <1>18 DEF BeginsWith
<1> QED  BY <1>1, <1>19, Zenon

\* The first j clauses are those that qs begins with.
Agrees(cls, qs, j) == j <= Len(cls) /\ Fore(Yomis(cls), j) = Fore(qs, j)

\* Clauses that agree so far have one more.
LEMMA OneMore ==
  ASSUME NEW S, NEW qs \in Seq(Seq(S)), Pieces(qs), NEW y, FlattenSeq(qs) = y,
         NEW cls, Reads(cls, S, y), NEW j \in Nat, j < Len(qs), Agrees(cls, qs, j)
  PROVE  /\ j < Len(cls) /\ Reading(Back(cls, j)) = FlattenSeq(Back(qs, j))
         /\ Start(cls, j + 1) = Len(Text(Yomis(cls), j + 1))
         /\ Start(cls, j + 1) \in Nat /\ Len(Text(qs, j)) \in Nat
         /\ Start(cls, j + 1) = Len(Text(qs, j)) + Len(cls[j + 1].yomi)
         /\ Len(Text(qs, j + 1)) = Len(Text(qs, j)) + Len(qs[j + 1])
         /\ Len(cls[j + 1].yomi) \in Nat /\ Len(qs[j + 1]) \in Nat
         /\ (j + 1 = Len(cls) => Start(cls, j + 1) >= Len(Text(qs, j + 1)))
<1>1. cls \in Seq(ClausesIn(S)) /\ Pieces(Yomis(cls)) /\ Reading(cls) = y
  BY DEF Reads
<1>2. PICK ps : ps = Yomis(cls)
  OBVIOUS
<1>3. ps \in Seq(Seq(S)) /\ Len(ps) = Len(cls) /\ \A i \in 1 .. Len(cls) : ps[i] = cls[i].yomi
  BY <1>1, <1>2, YomisIs
<1>4. Pieces(ps) /\ FlattenSeq(ps) = y /\ Fore(ps, j) = Fore(qs, j) /\ j <= Len(ps)
  BY <1>1, <1>2, <1>3 DEF Agrees, Reading
<1>5. Text(ps, j) = Text(qs, j)
  BY <1>4 DEF Text
<1>6. j < Len(ps)
  <2>1. PICK l \in Nat : l = Len(ps)
    BY <1>3
  <2> SUFFICES ASSUME j = l  PROVE FALSE
    BY <1>4, <2>1
  <2>2. Text(ps, l) = FlattenSeq(ps)
    BY <1>3, <1>4, <2>1, TextFits
  <2>3. Len(Text(qs, j)) < Len(FlattenSeq(qs))
    BY TextFits
  <2>4. Len(y) < Len(y)
    BY <1>4, <1>5, <2>2, <2>3
  <2>5. y \in Seq(S)
    BY FlattenType
  <2> QED  BY <2>4, <2>5
<1>7. PICK k \in Nat : k = j + 1
  OBVIOUS
<1>8. k <= Len(ps) /\ k <= Len(qs) /\ k \in 1 .. Len(ps)
  BY <1>3, <1>6, <1>7
<1>9. Reading(Fore(cls, k)) = Text(ps, k)
  BY <1>1, <1>2, <1>3, <1>8, FrontReading
<1>10. Start(cls, k) = Len(Text(ps, k))
  BY <1>9 DEF Start, Fore
<1>11. Len(Text(ps, k)) = Len(Text(ps, j)) + Len(ps[k])
  BY <1>3, <1>4, <1>6, <1>7, TextLonger
<1>12. Len(Text(qs, k)) = Len(Text(qs, j)) + Len(qs[k])
  BY <1>7, TextLonger
<1>13. ps[k] = cls[k].yomi
  BY <1>3, <1>8
<1>14. Text(ps, k) \in Seq(S) /\ Text(qs, j) \in Seq(S) /\ Text(qs, k) \in Seq(S)
  <2>1. Text(ps, k) \in Seq(S)
    BY <1>3, <1>4, <1>8, TextFits
  <2>2. j <= Len(qs)
    OBVIOUS
  <2>3. Text(qs, j) \in Seq(S)
    BY <2>2, TextFits
  <2>4. Text(qs, k) \in Seq(S)
    BY <1>8, TextFits
  <2> QED  BY <2>1, <2>3, <2>4
<1>15. ps[k] \in Seq(S) /\ qs[k] \in Seq(S)
  <2>1. ps[j + 1] \in Seq(S)
    BY <1>3, <1>6, TextNext
  <2>2. qs[j + 1] \in Seq(S)
    BY TextNext
  <2> QED  BY <1>7, <2>1, <2>2
<1>16. Reading(Back(cls, j)) = FlattenSeq(Back(qs, j))
  <2>1. PICK a, b, c : a = Text(qs, j) /\ b = FlattenSeq(Back(ps, j)) /\ c = FlattenSeq(Back(qs, j))
    OBVIOUS
  <2>2. b \in Seq(S) /\ FlattenSeq(ps) = a \o b
    BY <1>3, <1>4, <1>5, <2>1, TextParts
  <2>3. c \in Seq(S) /\ a \in Seq(S) /\ FlattenSeq(qs) = a \o c
    <3>1. j <= Len(qs)
      OBVIOUS
    <3> QED  BY <2>1, <3>1, TextParts
  <2>4. a \o b = a \o c
    BY <1>4, <2>2, <2>3
  <2>5. b = c
    BY <2>2, <2>3, <2>4, Parted
  <2>6. Reading(Back(cls, j)) = b
    <3>1. j <= Len(cls)
      BY <1>3, <1>4
    <3> QED  BY <1>1, <1>2, <2>1, <3>1, FrontReading
  <2> QED  BY <2>1, <2>5, <2>6
<1>17. k = Len(cls) => Len(Text(ps, k)) >= Len(Text(qs, k))
  <2> SUFFICES ASSUME k = Len(ps)  PROVE Len(Text(ps, k)) >= Len(Text(qs, k))
    BY <1>3
  <2>1. Text(ps, k) = FlattenSeq(ps)
    BY <1>3, <1>4, TextFits
  <2>2. Len(Text(qs, k)) <= Len(FlattenSeq(qs))
    BY <1>8, TextFits
  <2>3. Len(Text(qs, k)) <= Len(Text(ps, k))
    BY <1>4, <2>1, <2>2
  <2> QED  BY <1>14, <2>3
<1>18. Start(cls, k) \in Nat /\ Len(Text(qs, j)) \in Nat /\ Len(cls[k].yomi) \in Nat /\ Len(qs[k]) \in Nat
  BY <1>10, <1>13, <1>14, <1>15
<1>19. Start(cls, k) = Len(Text(qs, j)) + Len(cls[k].yomi)
  BY <1>5, <1>10, <1>11, <1>13
<1>20. k = Len(cls) => Start(cls, k) >= Len(Text(qs, k))
  BY <1>10, <1>17
<1>21. j < Len(cls)
  BY <1>3, <1>6
<1> QED  BY <1>2, <1>7, <1>10, <1>12, <1>16, <1>18, <1>19, <1>20, <1>21

\* What CandInfo holds of a clause: nothing, or what listing it left.
Cells == {NoInfo} \cup {Listed(NoInfo, n) : n \in Nat \ {0}}

\* Every outcome so far has converted the reading; one that the IME has not
\* refused agrees on the first j clauses.
Outcome(s, S, y, qs, j) == /\ Reads(s.cls, S, y) /\ s.info \in Seq(Cells)
                           /\ s.ok => Agrees(s.cls, qs, j)

LEMMA ClearedIs ==
  ASSUME NEW info \in Seq(Cells), NEW c
  PROVE  Cleared(info, c) \in Seq(Cells) /\ Len(Cleared(info, c)) = Len(info)
<1>1. PICK C : C = Cells
  OBVIOUS
<1>2. info \in Seq(C) /\ NoInfo \in C
  BY <1>1 DEF Cells
<1>3. PICK n \in Nat : n = Len(info) /\ DOMAIN info = 1 .. n
  BY <1>2
<1>4. PICK f : f = Cleared(info, c)
  OBVIOUS
<1>5. f = [i \in 1 .. n |-> IF i \in {c + 1, c + 2} THEN NoInfo ELSE info[i]]
  BY <1>3, <1>4 DEF Cleared
<1>6. f \in [1 .. n -> C]
  BY <1>2, <1>3, <1>5
<1>7. f \in Seq(C) /\ Len(f) = n
  BY <1>6, FunSeq
<1> QED  BY <1>1, <1>3, <1>4, <1>7

LEMMA AdjustOneIs ==
  ASSUME NEW S, NEW qs \in Seq(Seq(S)), Pieces(qs), NEW y, FlattenSeq(qs) = y,
         NEW j \in Nat, j < Len(qs), NEW old, old[j + 2] = Len(Text(qs, j + 1)),
         NEW s, Outcome(s, S, y, qs, j), NEW t \in AdjustOne(s, j + 1, old)
  PROVE  Outcome(t, S, y, qs, j + 1)
<1>1. Reads(s.cls, S, y) /\ s.info \in Seq(Cells)
  BY DEF Outcome
<1>2. PICK i \in Nat : i = j + 1 /\ i # 0 /\ i - 1 = j /\ i + 1 = j + 2
  OBVIOUS
<1>3. PICK cls : cls = s.cls
  OBVIOUS
<1>4. CASE ~s.ok
  <2>1. t = s
    BY <1>4 DEF AdjustOne
  <2> QED  BY <1>1, <1>4, <2>1 DEF Outcome
<1>5. CASE s.ok /\ Start(cls, i) = old[i + 1]
  <2>1. t = s
    BY <1>3, <1>2, <1>5 DEF AdjustOne
  <2>2. Agrees(cls, qs, j)
    BY <1>3, <1>5 DEF Outcome
  <2>3. PICK ps : ps = Yomis(cls)
    OBVIOUS
  <2>4. ps \in Seq(Seq(S)) /\ Pieces(ps) /\ FlattenSeq(ps) = y /\ Len(ps) = Len(cls)
    BY <1>1, <1>3, <2>3, YomisIs DEF Reads, Reading
  <2>5. j < Len(cls) /\ Start(cls, i) = Len(Text(ps, i))
    BY <1>1, <1>2, <1>3, <2>2, <2>3, OneMore
  <2>6. Len(Text(ps, i)) = Len(Text(qs, i))
    BY <1>2, <1>5, <2>5
  <2>7. Fore(ps, j) = Fore(qs, j)
    BY <2>2, <2>3 DEF Agrees
  <2>8. Fore(ps, i) = Fore(qs, i)
    BY <1>2, <2>4, <2>5, <2>6, <2>7, SameNext
  <2>9. i <= Len(cls)
    <3>1. Len(cls) \in Nat
      BY <2>4
    <3> QED  BY <1>2, <2>5, <3>1
  <2>10. Agrees(cls, qs, i)
    BY <2>3, <2>8, <2>9 DEF Agrees
  <2> QED  BY <1>1, <1>2, <1>3, <2>1, <2>10 DEF Outcome
<1>6. CASE s.ok /\ Start(cls, i) # old[i + 1]
  <2>1. Agrees(cls, qs, j)
    BY <1>3, <1>6 DEF Outcome
  <2>2. cls \in Seq(ClausesIn(S)) /\ Pieces(Yomis(cls)) /\ Reading(cls) = y
    BY <1>1, <1>3 DEF Reads
  <2>3. PICK r, e, w, a, st, tx, ty :
             /\ r = Reading(Back(cls, j)) /\ e = qs[j + 1] /\ w = Len(e)
             /\ a = Len(cls[j + 1].yomi) /\ st = Start(cls, j + 1)
             /\ tx = Len(Text(qs, j)) /\ ty = Len(Text(qs, j + 1))
    OBVIOUS
  <2>4. /\ j < Len(cls) /\ r = FlattenSeq(Back(qs, j))
        /\ st \in Nat /\ tx \in Nat /\ a \in Nat /\ w \in Nat
        /\ st = tx + a /\ ty = tx + w /\ (j + 1 = Len(cls) => st >= ty)
    <3>1. Reads(cls, S, y)
      BY <1>1, <1>3
    <3>2. /\ j < Len(cls) /\ Reading(Back(cls, j)) = FlattenSeq(Back(qs, j))
          /\ Start(cls, j + 1) \in Nat /\ Len(Text(qs, j)) \in Nat
          /\ Start(cls, j + 1) = Len(Text(qs, j)) + Len(cls[j + 1].yomi)
          /\ Len(Text(qs, j + 1)) = Len(Text(qs, j)) + Len(qs[j + 1])
          /\ Len(cls[j + 1].yomi) \in Nat /\ Len(qs[j + 1]) \in Nat
          /\ (j + 1 = Len(cls) => Start(cls, j + 1) >= Len(Text(qs, j + 1)))
      BY <2>1, <3>1, OneMore
    <3> QED  BY <2>3, <3>2
  <2>5. /\ r \in Seq(S) /\ e \in Seq(S) /\ w \in Nat \ {0} /\ w <= Len(r) /\ Fore(r, w) = e
        /\ w < Len(r) => r[w + 1] # Mark
    <3>1. r = FlattenSeq(Back(qs, j))
      BY <2>4
    <3>2. e = qs[j + 1] /\ w = Len(e)
      BY <2>3
    <3>3. BeginsWith(S, FlattenSeq(Back(qs, j)), qs[j + 1], Len(qs[j + 1]))
      BY PieceBegins
    <3>4. BeginsWith(S, r, e, w)
      BY <3>1, <3>2, <3>3, Zenon
    <3> QED  BY <3>4 DEF BeginsWith
  <2>6. PICK diff \in Int : diff = ty - st
    BY <2>4
  <2>7. a + diff = w
    BY <2>4, <2>6
  <2>8. old[i + 1] - st = diff
    <3>1. old[j + 2] = ty
      BY <2>3
    <3>2. old[i + 1] = ty
      BY <1>2, <3>1
    <3> QED  BY <2>6, <3>2
  <2>9. LengthAsked(cls, j, diff) = w
    <3>1. Len(cls[j + 1].yomi) = a
      BY <2>3
    <3> QED  BY <2>7, <3>1 DEF LengthAsked
  <2>10. ~StaysAsIs(cls, j, diff)
    <3>1. ~(w <= 0)
      BY <2>5
    <3>2. ~(diff > 0 /\ j = Len(cls) - 1)
      <4>1. PICK l \in Nat : l = Len(cls)
        BY <2>2
      <4>2. ASSUME diff > 0, j = l - 1  PROVE FALSE
        <5>1. i = l
          BY <1>2, <4>2
        <5>2. j + 1 = Len(cls)
          BY <1>2, <4>1, <5>1
        <5>3. st >= ty
          BY <2>4, <5>2
        <5> QED  BY <2>4, <2>6, <4>2, <5>3
      <4> QED  BY <4>1, <4>2
    <3>3. Len(cls[j + 1].yomi) + diff = w
      BY <2>9 DEF LengthAsked
    <3> QED  BY <3>1, <3>2, <3>3 DEF StaysAsIs
  <2>11. PICK new : new = Recuts(cls, j, diff)
    OBVIOUS
  <2>12. t \in IF new = {} THEN {[cls |-> Selected(cls, j), ok |-> FALSE, info |-> s.info]}
               ELSE {[cls |-> c, ok |-> TRUE,
                      info |-> IF StaysAsIs(cls, j, diff) THEN s.info ELSE Cleared(s.info, j)] : c \in new}
    <3>1. st = Start(cls, i)
      BY <1>2, <2>3
    <3> QED  BY <1>2, <1>3, <1>6, <2>8, <2>11, <3>1 DEF AdjustOne
  <2>13. CASE new = {}
    <3>1. t = [cls |-> Selected(cls, j), ok |-> FALSE, info |-> s.info]
      BY <2>12, <2>13
    <3>2. t.cls = Selected(cls, j) /\ t.info = s.info /\ ~t.ok
      BY <3>1
    <3>3. Yomis(cls) \in Seq(Seq(S))
      BY <2>2, YomisIs
    <3>4. Selected(cls, j) \in Seq(ClausesIn(S)) /\ Yomis(Selected(cls, j)) = Yomis(cls) /\ AllConverted(Selected(cls, j))
      BY <3>3, SelectIs DEF Selected
    <3>5. Reads(t.cls, S, y)
      BY <2>2, <3>2, <3>4 DEF Reads, Reading
    <3> QED  BY <1>1, <3>2, <3>5 DEF Outcome
  <2>14. CASE new # {}
    <3>1. PICK c \in new : t = [cls |-> c, ok |-> TRUE,
                      info |-> IF StaysAsIs(cls, j, diff) THEN s.info ELSE Cleared(s.info, j)]
      BY <2>12, <2>14
    <3>2. t.cls = c /\ t.info \in {s.info, Cleared(s.info, j)}
      BY <3>1
    <3>3. t.info \in Seq(Cells)
      BY <1>1, <3>2, ClearedIs
    <3>4. PICK len : len = NewLength(cls, j, diff)
      OBVIOUS
    <3>5. c \in Recuts(cls, j, diff)
      BY <2>11, <3>1
    <3>6. /\ Reads(c, S, y)
          /\ j < Len(c) /\ Fore(Yomis(c), j) = Fore(Yomis(cls), j)
          /\ len <= Len(r) /\ (len < Len(r) => r[len + 1] # Mark)
          /\ Yomis(c)[j + 1] = Fore(r, len)
      <4>1. r = Reading(Back(cls, j)) /\ j < Len(cls)
        BY <2>3, <2>4
      <4> QED  BY <2>2, <2>10, <3>4, <3>5, <4>1, RecutsIs
    <3>7. \/ len = w
          \/ diff < 0 /\ w < Len(r) /\ r[w + 1] = Mark
          \/ len = w + 1 /\ w + 1 < Len(r) /\ r[w + 2] = Mark
      <4>1. r = Reading(Back(cls, j)) /\ j < Len(cls)
        BY <2>3, <2>4
      <4> QED  BY <2>2, <2>9, <2>10, <3>4, <4>1, NewLengthIs, SMTT(30)
    <3>8. len = w
      <4>1. CASE len = w + 1 /\ w + 1 < Len(r) /\ r[w + 2] = Mark
        <5>1. len + 1 = w + 2
          BY <2>4, <4>1
        <5> QED  BY <3>6, <4>1, <5>1
      <4> QED  BY <2>5, <3>7, <4>1
    <3>9. Yomis(c)[j + 1] = e
      BY <2>5, <3>6, <3>8
    <3>10. PICK R, ps : R = Seq(S) /\ ps = Yomis(c)
      OBVIOUS
    <3>11. ps \in Seq(R) /\ Len(ps) = Len(c)
      BY <3>6, <3>10, YomisIs DEF Reads
    <3>12. qs \in Seq(R)
      BY <3>10
    <3>13. Fore(ps, j) = Fore(qs, j)
      BY <2>1, <3>6, <3>10 DEF Agrees
    <3>14. Fore(ps, j + 1) = Append(Fore(ps, j), e)
      <4>1. j < Len(ps)
        BY <3>6, <3>11
      <4>2. Fore(ps, j + 1) = Append(Fore(ps, j), ps[j + 1])
        BY <3>11, <4>1, FrontNext
      <4>3. ps[j + 1] = e
        BY <3>9, <3>10
      <4> QED  BY <4>2, <4>3, Zenon
    <3>15. Fore(qs, j + 1) = Append(Fore(qs, j), e)
      <4>1. Fore(qs, j + 1) = Append(Fore(qs, j), qs[j + 1])
        BY <3>12, FrontNext
      <4>2. e = qs[j + 1]
        BY <2>3
      <4> QED  BY <4>1, <4>2, Zenon
    <3>16. j + 1 <= Len(c)
      <4>1. Len(c) \in Nat
        BY <3>11
      <4> QED  BY <3>6, <4>1
    <3>17. Agrees(c, qs, j + 1)
      BY <3>10, <3>13, <3>14, <3>15, <3>16 DEF Agrees
    <3> QED  BY <3>2, <3>3, <3>6, <3>17 DEF Outcome
  <2> QED  BY <2>13, <2>14
<1> QED  BY <1>4, <1>5, <1>6

\* The outcomes of adj_clause, clause after clause.
Rounds(f, cls, end, old) ==
    f = [n \in 0 .. end |->
            IF n = 0 THEN {[cls |-> cls, ok |-> TRUE, info |-> candInfo]}
            ELSE UNION {AdjustOne(s, n - 1, old) : s \in f[n - 1]}]

LEMMA RoundsExist ==
  ASSUME NEW cls, NEW end \in Nat, NEW old
  PROVE  \E f : Rounds(f, cls, end, old) /\ Adjust(cls, end, old) = f[end]
<1> DEFINE Has(n) == \E f : Rounds(f, cls, n, old)
           T == {n \in Nat : Has(n)}
<1>1. 0 \in T
  <2> DEFINE f == [n \in 0 .. 0 |-> {[cls |-> cls, ok |-> TRUE, info |-> candInfo]}]
  <2>1. Rounds(f, cls, 0, old)
    BY DEF Rounds
  <2> QED  BY <2>1
<1>2. ASSUME NEW n \in Nat, n \in T  PROVE n + 1 \in T
  <2>1. Has(n)
    <3> HIDE DEF Has
    <3> QED  BY <1>2
  <2>2. PICK f : Rounds(f, cls, n, old)
    BY <2>1
  <2> DEFINE first == {[cls |-> cls, ok |-> TRUE, info |-> candInfo]}
             next(h, m) == UNION {AdjustOne(s, m - 1, old) : s \in h[m - 1]}
             g == [m \in 0 .. n + 1 |-> IF m <= n THEN f[m] ELSE next(f, n + 1)]
  <2>3. \A m \in 0 .. n : f[m] = IF m = 0 THEN first ELSE next(f, m)
    BY <2>2 DEF Rounds
  <2>4. ASSUME NEW m \in 0 .. n + 1
        PROVE  g[m] = IF m = 0 THEN first ELSE next(g, m)
    <3>1. CASE m <= n
      <4>1. m \in 0 .. n /\ g[m] = f[m]
        BY <3>1
      <4>2. m # 0 => g[m - 1] = f[m - 1]
        BY <3>1
      <4> HIDE DEF g, first
      <4> QED  BY <2>3, <4>1, <4>2
    <3>2. CASE m = n + 1
      <4>1. m # 0 /\ g[m] = next(f, n + 1)
        BY <3>2
      <4>2. g[m - 1] = f[m - 1] /\ m - 1 = n
        BY <3>2
      <4> HIDE DEF g, first
      <4> QED  BY <3>2, <4>1, <4>2
    <3> QED  BY <3>1, <3>2
  <2>5. g = [m \in 0 .. n + 1 |-> IF m = 0 THEN first ELSE next(g, m)]
    <3>1. g = [m \in 0 .. n + 1 |-> g[m]]
      OBVIOUS
    <3> HIDE DEF g, first, next
    <3> QED  BY <2>4, <3>1
  <2>6. Rounds(g, cls, n + 1, old)
    <3> HIDE DEF g
    <3> QED  BY <2>5 DEF Rounds
  <2>7. Has(n + 1)
    BY <2>6
  <2> HIDE DEF Has
  <2> QED  BY <2>7
<1>3. end \in T
  <2> HIDE DEF T
  <2> QED  BY <1>1, <1>2, Induct
<1>4. PICK g : g = CHOOSE f : Rounds(f, cls, end, old)
  OBVIOUS
<1>5. Rounds(g, cls, end, old)
  BY <1>3, <1>4
<1>6. Adjust(cls, end, old) = g[end]
  BY <1>4 DEF Adjust, Rounds
<1> QED  BY <1>5, <1>6

\* old has the starts of the clauses of qs, up to end.
StartsOf(old, qs, end) == \A j \in Nat : j + 1 < end => old[j + 2] = Len(Text(qs, j + 1))

LEMMA AgreesAtFirst ==
  ASSUME NEW S, NEW qs \in Seq(Seq(S)), NEW cls \in Seq(ClausesIn(S))
  PROVE  Agrees(cls, qs, 0)
<1>1. PICK R, ps, l : R = Seq(S) /\ ps = Yomis(cls) /\ l = Len(cls)
  OBVIOUS
<1>2. ps \in Seq(R) /\ qs \in Seq(R) /\ l \in Nat /\ Len(ps) = l
  BY <1>1, YomisIs
<1>3. Fore(ps, 0) \in Seq(R) /\ Len(Fore(ps, 0)) = 0
  BY <1>2, FrontIs
<1>4. Fore(qs, 0) \in Seq(R) /\ Len(Fore(qs, 0)) = 0
  BY <1>2, FrontIs
<1>5. Fore(ps, 0) = Fore(qs, 0)
  BY <1>3, <1>4, EmptySeq
<1>6. 0 <= l
  BY <1>2
<1> QED  BY <1>1, <1>5, <1>6 DEF Agrees

\* What adj_clause leads to has the reading it began with; unless the IME has
\* refused a boundary, the first clauses are those of qs.
LEMMA AdjustIs ==
  ASSUME NEW S, NEW qs \in Seq(Seq(S)), Pieces(qs), NEW y, FlattenSeq(qs) = y,
         NEW cls, Reads(cls, S, y), candInfo \in Seq(Cells),
         NEW end \in Nat, end <= Len(qs) + 1, NEW old, StartsOf(old, qs, end),
         NEW t \in Adjust(cls, end, old), NEW m \in Nat, m = (IF end = 0 THEN 0 ELSE end - 1)
  PROVE  Outcome(t, S, y, qs, m)
<1>1. PICK f : Rounds(f, cls, end, old) /\ Adjust(cls, end, old) = f[end]
  BY RoundsExist
<1> DEFINE first == [cls |-> cls, ok |-> TRUE, info |-> candInfo]
<1>2. 0 \in 0 .. end /\ f[0] = {first}
  BY <1>1 DEF Rounds
<1>3. Outcome(first, S, y, qs, 0)
  <2>1. Agrees(cls, qs, 0)
    BY AgreesAtFirst DEF Reads
  <2> QED  BY <2>1 DEF Outcome
<1> HIDE DEF first
<1> DEFINE All(n) == \A s \in f[n] : Outcome(s, S, y, qs, IF n = 0 THEN 0 ELSE n - 1)
           T == {n \in Nat : n <= end => All(n)}
<1>4. 0 \in T
  BY <1>2, <1>3
<1>5. ASSUME NEW n \in Nat, n \in T  PROVE n + 1 \in T
  <2> SUFFICES ASSUME n + 1 <= end, NEW s \in f[n + 1]
               PROVE  Outcome(s, S, y, qs, n)
    <3>1. (IF n + 1 = 0 THEN 0 ELSE (n + 1) - 1) = n
      OBVIOUS
    <3> QED  BY <3>1
  <2>1. n <= end /\ All(n)
    <3>1. n <= end
      OBVIOUS
    <3> HIDE DEF All
    <3> QED  BY <1>5, <3>1
  <2>2. f[n + 1] = UNION {AdjustOne(r, n, old) : r \in f[n]}
    <3>1. n + 1 \in 0 .. end /\ n + 1 # 0 /\ (n + 1) - 1 = n
      OBVIOUS
    <3>2. f[n + 1] = UNION {AdjustOne(r, (n + 1) - 1, old) : r \in f[(n + 1) - 1]}
      BY <1>1, <3>1 DEF Rounds
    <3> QED  BY <3>1, <3>2
  <2>3. PICK r \in f[n] : s \in AdjustOne(r, n, old)
    BY <2>2
  <2>4. CASE n = 0
    <3>1. r = first
      BY <1>2, <2>4
    <3>2. s = r
      BY <2>3, <2>4 DEF AdjustOne
    <3> QED  BY <1>3, <2>4, <3>1, <3>2
  <2>5. CASE n # 0
    <3>1. PICK j \in Nat : j = n - 1
      BY <2>5
    <3>2. n = j + 1 /\ j + 1 < end /\ j < Len(qs)
      <4>1. PICK l \in Nat : l = Len(qs)
        OBVIOUS
      <4>2. end <= l + 1
        BY <4>1
      <4> QED  BY <3>1, <4>1, <4>2
    <3>3. Outcome(r, S, y, qs, j)
      BY <2>1, <2>5, <3>1
    <3>4. old[j + 2] = Len(Text(qs, j + 1))
      BY <3>2 DEF StartsOf
    <3>5. s \in AdjustOne(r, j + 1, old)
      BY <2>3, <3>2
    <3>6. Outcome(s, S, y, qs, j + 1)
      BY <3>2, <3>3, <3>4, <3>5, AdjustOneIs
    <3> QED  BY <3>2, <3>6
  <2> QED  BY <2>4, <2>5
<1>6. All(end)
  <2>1. end \in T
    <3> HIDE DEF T
    <3> QED  BY <1>4, <1>5, Induct
  <2> HIDE DEF All
  <2> QED  BY <2>1
<1>7. Outcome(t, S, y, qs, IF end = 0 THEN 0 ELSE end - 1)
  BY <1>1, <1>6
<1> QED  BY <1>7

---------------------------------------------------------------------------
(* The invariant.                                                          *)

\* In automatic mode there are no marks.
CharsIn(ph) == IF ph = "auto" THEN Chars \ {Mark} ELSE Chars

\* Every clause begins whole, and none is converted after one that is not.
Sound(S, cls) == cls \in Seq(ClausesIn(S)) /\ Pieces(Yomis(cls)) /\ ConvertedFirst(cls)

\* Only automatic conversion leaves a result string, or fixed clauses.
Held(S, ph, res, fn, fy) == /\ res \in Seq(Seq(S)) /\ fy \in Seq(Seq(S)) /\ fn = Len(fy)
                            /\ ph \in {"idle", "conv"} => fy = <<>> /\ res = <<>>

\* What CandInfo holds of a clause whose list the client has is that list.
Known(ci, cls, fn, tl) ==
    /\ ci \in Seq(Cells) /\ tl \subseteq Nat
    /\ fn = 0 => \A c \in tl :
          /\ c < Len(cls)
          /\ c < Len(ci) => ci[c + 1] \in {NoInfo, Listed(NoInfo, NumCands(cls[c + 1].yomi))}

ConvInv ==
    /\ phase \in {"idle", "conv", "auto", "dead"}
    /\ phase # "dead" =>
          /\ Sound(CharsIn(phase), comp)
          /\ Held(CharsIn(phase), phase, result, fixedNum, fixedYomi)
          /\ Known(candInfo, comp, fixedNum, told)
          /\ phase = "idle" => told = {}
          /\ bufStart \in Nat

---------------------------------------------------------------------------
(* Types.                                                                  *)

\* A reading in full-width kana has a length.
LEMMA ZenLenIs ==
  ASSUME NEW S, NEW y \in Seq(S)
  PROVE  ZenLen(y) \in Nat
<1>1. PICK n \in Nat : n = Len(y) /\ DOMAIN y = 1 .. n
  OBVIOUS
<1>2. PICK T : T = {i \in DOMAIN y : Combine(y, i)}
  OBVIOUS
<1>3. T \in SUBSET (1 .. n)
  BY <1>1, <1>2
<1>4. IsFiniteSet(1 .. n) /\ Cardinality(1 .. n) = n
  BY FS_Interval
<1>5. IsFiniteSet(T) /\ Cardinality(T) <= n
  BY <1>3, <1>4, FS_Subset
<1>6. Cardinality(T) \in Nat
  BY <1>5, FS_CardinalityType
<1> QED  BY <1>1, <1>2, <1>5, <1>6 DEF ZenLen

LEMMA CountIs ==
  ASSUME NEW C, NEW cls \in Seq(C), NEW T \in SUBSET (DOMAIN cls)
  PROVE  Cardinality(T) \in Nat /\ Cardinality(T) <= Len(cls)
<1>1. PICK n \in Nat : n = Len(cls) /\ DOMAIN cls = 1 .. n
  OBVIOUS
<1>2. IsFiniteSet(1 .. n) /\ Cardinality(1 .. n) = n
  BY FS_Interval
<1>3. IsFiniteSet(T) /\ Cardinality(T) <= n
  BY <1>1, <1>2, FS_Subset
<1> QED  BY <1>1, <1>3, FS_CardinalityType

\* Converted clauses are sound, all of them converted.
LEMMA ReadsSound ==
  ASSUME NEW S, NEW cls, NEW y, Reads(cls, S, y)
  PROVE  Sound(S, cls)
<1>1. cls \in Seq(ClausesIn(S)) /\ Pieces(Yomis(cls)) /\ AllConverted(cls)
  BY DEF Reads
<1>2. ConvertedFirst(cls)
  BY <1>1 DEF AllConverted, ConvertedFirst
<1> QED  BY <1>1, <1>2 DEF Sound

\* A sequence with no elements of it has no reading.
LEMMA NoneSound ==
  ASSUME NEW S
  PROVE  Sound(S, <<>>) /\ Reading(<<>>) = <<>> /\ Yomis(<<>>) = <<>>
<1>1. Reads(<<>>, S, <<>>) /\ Yomis(<<>>) = <<>>
  BY NoClauses
<1> QED  BY <1>1, ReadsSound DEF Reads

LEMMA WholeWithoutMarks ==
  ASSUME NEW y \in Seq(Chars \ {Mark})
  PROVE  Whole(y)
BY DEF Whole

\* A part of a sequence has its type.
LEMMA PartType ==
  ASSUME NEW S, NEW s \in Seq(S), NEW m \in Nat \ {0}, NEW n \in Int, n <= Len(s)
  PROVE  SubSeq(s, m, n) \in Seq(S)
<1>1. \A i \in m .. n : s[i] \in S
  OBVIOUS
<1> QED  BY <1>1, SubSeqProperties

LEMMA InputIs ==
  ASSUME NEW y \in Inputs
  PROVE  y \in Seq(Chars) /\ Whole(y) /\ (Typable(y) => y \in Seq(CharsIn(phase)))
<1>1. y \in Seq(Chars) /\ (y # <<>> => Head(y) # Mark)
  BY ClausesAssumption
<1>2. Whole(y)
  BY <1>1 DEF Whole
<1>3. ASSUME Typable(y)  PROVE y \in Seq(CharsIn(phase))
  <2>1. CASE phase = "auto"
    <3>1. \A i \in 1 .. Len(y) : y[i] \in Chars \ {Mark}
      BY <1>1, <1>3, <2>1 DEF Typable
    <3>2. y = [i \in 1 .. Len(y) |-> y[i]]
      BY <1>1
    <3>3. y \in [1 .. Len(y) -> Chars \ {Mark}]
      BY <1>1, <3>1, <3>2
    <3>4. Len(y) \in Nat
      BY <1>1
    <3> QED  BY <2>1, <3>3, <3>4, FunSeq DEF CharsIn
  <2>2. CASE phase # "auto"
    BY <1>1, <2>2 DEF CharsIn
  <2> QED  BY <2>1, <2>2
<1> QED  BY <1>1, <1>2, <1>3

---------------------------------------------------------------------------
(* A clause with another reading.                                          *)

\* The pieces of ps with the one after the first c replaced by y, or removed.
Replaced(ps, c, y) == Fore(ps, c) \o (IF y = <<>> THEN Back(ps, c + 1) ELSE <<y>> \o Back(ps, c + 1))

LEMMA ReplacedIs ==
  ASSUME NEW S, NEW ps \in Seq(Seq(S)), Pieces(ps), NEW y \in Seq(S), Whole(y),
         NEW c \in Nat, c < Len(ps), NEW qs, qs = Replaced(ps, c, y)
  PROVE  /\ qs \in Seq(Seq(S)) /\ Pieces(qs) /\ c <= Len(qs)
         /\ FlattenSeq(qs) = (Text(ps, c) \o y) \o FlattenSeq(Back(ps, c + 1))
         /\ \A k \in Nat : k <= c => Fore(qs, k) = Fore(ps, k)
<1>1. PICK R : R = Seq(S)
  OBVIOUS
<1>2. ps \in Seq(R) /\ c <= Len(ps)
  BY <1>1
<1>3. PICK f, b, tail : f = Fore(ps, c) /\ b = Back(ps, c + 1)
                        /\ tail = IF y = <<>> THEN b ELSE <<y>> \o b
  OBVIOUS
<1>4. f \in Seq(R) /\ Len(f) = c
  BY <1>2, <1>3, FrontIs
<1>5. PICK d \in Nat : d = c + 1 /\ d <= Len(ps)
  BY <1>2
<1>6. b \in Seq(R)
  <2>1. PICK n \in Nat : Splits(ps, d, n)
    <3>1. PICK l \in Nat : l = Len(ps)
      OBVIOUS
    <3>2. l - d \in Nat /\ l = d + (l - d)
      BY <1>5, <3>1
    <3> QED  BY <3>1, <3>2 DEF Splits
  <2> QED  BY <1>2, <1>3, <1>5, <2>1, BackIs
<1>7. Pieces(f) /\ Pieces(b)
  <2>1. Pieces(f)
    BY <1>2, <1>3, PiecesFront
  <2>2. Pieces(b)
    BY <1>3, <1>5, PiecesFront
  <2> QED  BY <2>1, <2>2
<1>8. tail \in Seq(Seq(S)) /\ Pieces(tail) /\ FlattenSeq(tail) = y \o FlattenSeq(b)
  <2>1. b \in Seq(Seq(S))
    BY <1>1, <1>6
  <2>2. PICK v : v = FlattenSeq(b) /\ v \in Seq(S)
    BY <2>1, FlattenType
  <2>3. CASE y = <<>>
    <3>1. tail = b
      BY <1>3, <2>3
    <3>2. <<>> \o v = v
      BY <2>2, ConcatEmptySeq
    <3> QED  BY <1>7, <2>1, <2>2, <2>3, <3>1, <3>2
  <2>4. CASE y # <<>>
    <3>1. tail = <<y>> \o b
      BY <1>3, <2>4
    <3>2. <<y>> \in Seq(Seq(S)) /\ Pieces(<<y>>)
      BY <2>4, OnePiece
    <3>3. Pieces(<<y>> \o b)
      BY <1>7, <2>1, <3>2, PiecesConcat
    <3>4. <<y>> \o b \in Seq(Seq(S))
      BY <2>1, <3>2, ConcatProperties
    <3>5. FlattenSeq(<<y>> \o b) = y \o FlattenSeq(b)
      BY <2>1, FlattenCons
    <3> QED  BY <3>1, <3>3, <3>4, <3>5
  <2> QED  BY <2>3, <2>4
<1>9. qs = f \o tail
  BY <1>3 DEF Replaced
<1>10. f \in Seq(Seq(S))
  BY <1>1, <1>4
<1>11. qs \in Seq(Seq(S))
  BY <1>8, <1>9, <1>10, ConcatProperties
<1>12. Pieces(qs)
  BY <1>7, <1>8, <1>9, <1>10, PiecesConcat
<1>13. FlattenSeq(qs) = (Text(ps, c) \o y) \o FlattenSeq(b)
  <2>1. PICK t, v : t = FlattenSeq(f) /\ v = FlattenSeq(b)
    OBVIOUS
  <2>2. t \in Seq(S) /\ v \in Seq(S)
    <3>1. b \in Seq(Seq(S))
      BY <1>1, <1>6
    <3> QED  BY <1>10, <2>1, <3>1, FlattenType
  <2>3. FlattenSeq(f \o tail) = t \o FlattenSeq(tail)
    BY <1>8, <1>10, <2>1, FlattenConcat
  <2>4. FlattenSeq(qs) = t \o (y \o v)
    BY <1>8, <1>9, <2>1, <2>3
  <2>5. (t \o y) \o v = t \o (y \o v)
    BY <2>2, ConcatAssociative, SMTT(60)
  <2>6. t = Text(ps, c)
    BY <1>3, <2>1 DEF Text
  <2> QED  BY <2>1, <2>4, <2>5, <2>6
<1>14. ASSUME NEW k \in Nat, k <= c  PROVE Fore(qs, k) = Fore(ps, k)
  <2>1. k <= Len(f)
    BY <1>4, <1>14
  <2>2. tail \in Seq(R)
    BY <1>1, <1>8
  <2>3. Fore(qs, k) = Fore(f, k)
    BY <1>4, <1>9, <1>14, <2>1, <2>2, FrontOfConcat
  <2>4. Fore(f, k) = Fore(ps, k)
    <3>1. Fore(f, Len(f)) = f
      BY <1>4, FrontAll
    <3>2. Fore(f, c) = Fore(ps, c) /\ c <= Len(f)
      BY <1>3, <1>4, <3>1
    <3> QED  BY <1>2, <1>4, <1>14, <3>2, FrontFront, ZenonT(60)
  <2> QED  BY <2>3, <2>4
<1>15. c <= Len(qs)
  <2>1. tail \in Seq(R)
    BY <1>1, <1>8
  <2>2. c <= Len(f)
    BY <1>4
  <2> QED  BY <1>4, <1>9, <2>1, <2>2, FrontOfConcat
<1> QED  BY <1>3, <1>11, <1>12, <1>13, <1>14, <1>15

\* A piece replaced by another is changed in its place.
LEMMA ReplacedExcept ==
  ASSUME NEW R, NEW ps \in Seq(R), NEW y \in R, y # <<>>, NEW c \in Nat, c < Len(ps)
  PROVE  Replaced(ps, c, y) = [ps EXCEPT ![c + 1] = y]
<1>1. PICK q : q = [ps EXCEPT ![c + 1] = y]
  OBVIOUS
<1>2. PICK n \in Nat : n = Len(ps) /\ DOMAIN ps = 1 .. n
  OBVIOUS
<1>3. PICK d \in Nat : d = c + 1 /\ d \in 1 .. n
  BY <1>2
<1>4. q \in Seq(R) /\ Len(q) = n /\ q[d] = y /\ \A i \in 1 .. n : i # d => q[i] = ps[i]
  BY <1>1, <1>2, <1>3
<1>5. Fore(q, c) = Fore(ps, c)
  <2>1. c <= Len(q) /\ c <= Len(ps)
    BY <1>2, <1>3, <1>4
  <2>2. PICK f : f = Fore(q, c)
    OBVIOUS
  <2>3. f \in Seq(R) /\ Len(f) = c /\ \A i \in 1 .. c : f[i] = q[i]
    BY <1>4, <2>1, <2>2, FrontIs
  <2>4. PICK g : g = Fore(ps, c)
    OBVIOUS
  <2>5. g \in Seq(R) /\ Len(g) = c /\ \A i \in 1 .. c : g[i] = ps[i]
    BY <2>1, <2>4, FrontIs
  <2>6. \A i \in 1 .. c : q[i] = ps[i]
    BY <1>3, <1>4
  <2>7. \A i \in 1 .. c : f[i] = g[i]
    BY <2>3, <2>5, <2>6
  <2>8. f = g
    BY <2>3, <2>5, <2>7
  <2> QED  BY <2>2, <2>4, <2>8
<1>6. Back(q, d) = Back(ps, d)
  <2>1. PICK m \in Nat : n = d + m
    <3>1. n - d \in Nat /\ n = d + (n - d)
      BY <1>3
    <3> QED  BY <3>1
  <2>2. Splits(q, d, m) /\ Splits(ps, d, m)
    BY <1>2, <1>4, <2>1 DEF Splits
  <2>3. PICK f : f = Back(q, d)
    OBVIOUS
  <2>4. f \in Seq(R) /\ Len(f) = m /\ \A i \in 1 .. m : f[i] = q[d + i]
    BY <1>4, <2>2, <2>3, BackIs
  <2>5. PICK g : g = Back(ps, d)
    OBVIOUS
  <2>6. g \in Seq(R) /\ Len(g) = m /\ \A i \in 1 .. m : g[i] = ps[d + i]
    BY <2>2, <2>5, BackIs
  <2>7. \A i \in 1 .. m : q[d + i] = ps[d + i]
    BY <1>3, <1>4, <2>1
  <2>8. \A i \in 1 .. m : f[i] = g[i]
    BY <2>4, <2>6, <2>7
  <2>9. f = g
    BY <2>4, <2>6, <2>8
  <2> QED  BY <2>3, <2>5, <2>9
<1>7. Back(q, c) = <<y>> \o Back(ps, c + 1)
  <2>1. c < Len(q)
    BY <1>2, <1>4
  <2>2. Back(q, c) = <<q[c + 1]>> \o Back(q, c + 1)
    BY <1>4, <2>1, BackNext
  <2>3. q[c + 1] = y
    BY <1>3, <1>4
  <2>4. Back(q, c + 1) = Back(ps, c + 1)
    BY <1>3, <1>6
  <2> QED  BY <2>2, <2>3, <2>4
<1>8. q = Fore(q, c) \o Back(q, c)
  <2>1. c <= Len(q)
    BY <1>2, <1>4
  <2> QED  BY <1>4, <2>1, FrontBack
<1> QED  BY <1>1, <1>5, <1>7, <1>8 DEF Replaced

LEMMA Sums ==
  ASSUME NEW a \in Int, NEW e \in Int, NEW g \in Int, NEW w \in Int
  PROVE  (a + g) + e = (a + e) + g /\ a + w = (a + e) + (w - e)
OBVIOUS

\* The piece after the first c of ps is y in qs, by d longer.
Changed(ps, qs, c, y, d) == qs = [ps EXCEPT ![c + 1] = y] /\ d = Len(y) - Len(ps[c + 1])

\* ... and so is every text that takes it in.
Shifts(ps, qs, c, d) ==
    \A n \in Nat : n <= Len(ps) => Len(Text(qs, n)) = Len(Text(ps, n)) + (IF n > c THEN d ELSE 0)

LEMMA TextShifted ==
  ASSUME NEW S, NEW ps \in Seq(Seq(S)), Pieces(ps), NEW qs \in Seq(Seq(S)), Pieces(qs),
         NEW y \in Seq(S), NEW c \in Nat, c < Len(ps), NEW d, Changed(ps, qs, c, y, d)
  PROVE  Shifts(ps, qs, c, d)
<1> SUFFICES \A n \in Nat : n <= Len(ps) => Len(Text(qs, n)) = Len(Text(ps, n)) + (IF n > c THEN d ELSE 0)
  BY DEF Shifts
<1> qs = [ps EXCEPT ![c + 1] = y] /\ d = Len(y) - Len(ps[c + 1])
  BY DEF Changed
<1>1. PICK R, l : R = Seq(S) /\ l = Len(ps)
  OBVIOUS
<1>2. ps \in Seq(R) /\ qs \in Seq(R) /\ l \in Nat /\ DOMAIN ps = 1 .. l
  BY <1>1
<1>3. Len(qs) = l /\ \A i \in 1 .. l : qs[i] = IF i = c + 1 THEN y ELSE ps[i]
  BY <1>1, <1>2
<1>4. c + 1 \in 1 .. l
  BY <1>1, <1>2
<1>5. PICK u, w \in Nat : u = Len(ps[c + 1]) /\ w = Len(y)
  <2>1. ps[c + 1] \in R
    BY <1>2, <1>4
  <2>2. ps[c + 1] \in Seq(S)
    BY <1>1, <2>1
  <2> QED  BY <2>2
<1>6. u \in Nat
  <2>1. ps[c + 1] \in R
    BY <1>2, <1>4
  <2>2. ps[c + 1] \in Seq(S)
    BY <1>1, <2>1
  <2> QED  BY <1>5, <2>2
<1>7. PICK g \in Int : g = d /\ g = w - u
  <2>1. w - u \in Int
    BY <1>6
  <2>2. d = w - u
    BY <1>5
  <2> QED  BY <2>1, <2>2
<1> DEFINE Fits(n) == Len(Text(qs, n)) = Len(Text(ps, n)) + (IF n > c THEN d ELSE 0)
           T == {n \in Nat : n <= l => Fits(n)}
<1>8. 0 \in T
  <2>1. Text(qs, 0) = <<>> /\ Text(ps, 0) = <<>>
    <3>1. 0 <= Len(ps) /\ 0 <= Len(qs)
      BY <1>1, <1>2, <1>3
    <3> QED  BY <3>1, TextFits
  <2>2. Len(Text(qs, 0)) = 0 /\ Len(Text(ps, 0)) = 0
    BY <2>1
  <2>3. Fits(0)
    BY <2>2
  <2> HIDE DEF Fits
  <2> QED  BY <2>3
<1>9. ASSUME NEW n \in Nat, n \in T  PROVE n + 1 \in T
  <2> SUFFICES ASSUME n + 1 <= l  PROVE Fits(n + 1)
    <3> HIDE DEF Fits
    <3> QED  OBVIOUS
  <2>1. n < l /\ n <= l
    BY <1>2
  <2>2. Fits(n)
    <3> HIDE DEF Fits
    <3> QED  BY <1>9, <2>1
  <2>3. PICK a, b, a2, b2, e, f :
            /\ a = Len(Text(ps, n)) /\ a2 = Len(Text(ps, n + 1)) /\ e = Len(ps[n + 1])
            /\ b = Len(Text(qs, n)) /\ b2 = Len(Text(qs, n + 1)) /\ f = Len(qs[n + 1])
    OBVIOUS
  <2>4. a2 = a + e
    <3>1. n < Len(ps)
      BY <1>1, <2>1
    <3>2. Len(Text(ps, n + 1)) = Len(Text(ps, n)) + Len(ps[n + 1])
      BY <3>1, TextLonger
    <3> QED  BY <2>3, <3>2
  <2>5. b2 = b + f
    <3>1. n < Len(qs)
      BY <1>3, <2>1
    <3>2. Len(Text(qs, n + 1)) = Len(Text(qs, n)) + Len(qs[n + 1])
      BY <3>1, TextLonger
    <3> QED  BY <2>3, <3>2
  <2>6. b = a + (IF n > c THEN d ELSE 0)
    BY <2>2, <2>3
  <2>7. a \in Nat /\ e \in Nat
    <3>1. n < Len(ps)
      BY <1>1, <2>1
    <3>2. ps[n + 1] \in Seq(S) /\ Text(ps, n) \in Seq(S)
      BY <3>1, TextNext
    <3> QED  BY <2>3, <3>2
  <2>8. f = IF n = c THEN w ELSE e
    <3>1. PICK k \in Nat : k = n + 1 /\ k \in 1 .. l /\ (k = c + 1 <=> n = c)
      BY <2>1
    <3>2. qs[k] = IF k = c + 1 THEN y ELSE ps[k]
      BY <1>3, <3>1
    <3>3. e = Len(ps[k]) /\ f = Len(qs[k])
      BY <2>3, <3>1
    <3>4. CASE k = c + 1
      <4>1. f = Len(y) /\ n = c
        BY <3>1, <3>2, <3>3, <3>4
      <4> QED  BY <1>5, <4>1
    <3>5. CASE k # c + 1
      <4>1. f = e /\ n # c
        BY <3>1, <3>2, <3>3, <3>5
      <4> QED  BY <4>1
    <3> QED  BY <3>4, <3>5
  <2>9. n = c => e = u
    BY <1>5, <2>3
  <2>10. b2 = a2 + (IF n + 1 > c THEN d ELSE 0)
    <3> HIDE DEF T, Fits
    <3>1. CASE n = c
      <4>1. b = a /\ f = w /\ e = u /\ n + 1 > c
        BY <2>6, <2>7, <2>8, <2>9, <3>1
      <4>2. b2 = a2 + g
        <5>1. g = w - u
          BY <1>7
        <5>2. a \in Int /\ e \in Int /\ w \in Int /\ g \in Int
          BY <2>7
        <5>3. a + w = (a + e) + (w - e)
          BY <5>2, Sums
        <5> QED  BY <2>4, <2>5, <4>1, <5>1, <5>3, Zenon
      <4> QED  BY <1>7, <4>1, <4>2
    <3>2. CASE n > c
      <4>1. b = a + d /\ f = e /\ n + 1 > c
        BY <2>6, <2>8, <3>2
      <4>2. b = a + g
        BY <1>7, <4>1
      <4>3. b2 = a2 + g
        <5>1. a \in Int /\ e \in Int /\ g \in Int
          BY <2>7
        <5>2. (a + g) + e = (a + e) + g
          BY <5>1, Sums
        <5> QED  BY <2>4, <2>5, <4>1, <4>2, <5>2, Zenon
      <4> QED  BY <1>7, <4>1, <4>3
    <3>3. CASE n < c
      <4>1. b = a /\ f = e /\ ~(n + 1 > c)
        BY <2>6, <2>7, <2>8, <3>3
      <4>2. b2 = a2 + 0
        BY <2>4, <2>5, <2>7, <4>1
      <4> QED  BY <4>1, <4>2
    <3> QED  BY <3>1, <3>2, <3>3
  <2> QED  BY <2>3, <2>10
<1>10. \A n \in Nat : n \in T
  <2> HIDE DEF T
  <2> QED  BY <1>8, <1>9, Induct
<1> QED  BY <1>1, <1>10

---------------------------------------------------------------------------
(* exe/apisup.c.                                                           *)

\* With no end the fixed clauses are passed over.
LEMMA FixedPassed ==
  ASSUME fixedNum \in Nat, NEW k \in Nat
  PROVE  FixedStr(k, -1) = <<>>
<1>1. SubSeq(fixedYomi, k + 1, -1) = <<>>
  BY SubSeqEmpty
<1>2. PICK e : e = IF -1 < fixedNum THEN -1 ELSE fixedNum
  OBVIOUS
<1>3. e = -1
  BY <1>2
<1>4. FixedStr(k, -1) = FlattenSeq(SubSeq(fixedYomi, k + 1, e))
  BY <1>2 DEF FixedStr
<1>5. FixedStr(k, -1) = FlattenSeq(<<>>)
  BY <1>1, <1>3, <1>4, Zenon
<1> QED  BY <1>5, FlattenEmpty

\* What there is after clause k, read with no end.
LEMMA AppendedIs ==
  ASSUME NEW S, comp \in Seq(ClausesIn(S)), fixedYomi \in Seq(Seq(S)), fixedNum = Len(fixedYomi),
         Pieces(Yomis(comp)), NEW k \in Nat
  PROVE  /\ Appended(k, -1) \in Seq(S) /\ Whole(Appended(k, -1))
         /\ fixedNum = 0 /\ k <= Len(comp) => Appended(k, -1) = Reading(Back(comp, k))
<1>1. PICK fn, l \in Nat : fn = fixedNum /\ l = Len(comp)
  OBVIOUS
<1>2. fn \in Nat
  BY <1>1
<1>3. FixedStr(k, -1) = <<>>
  BY <1>1, <1>2, FixedPassed
<1>4. PICK m \in Int : m = k - fn
  BY <1>2
<1>5. ImcClauseStr(m, -1 - fn) \in {{}, {Reading(SubSeq(comp, m + 1, Len(comp)))}}
  <2>1. PICK b \in Int : b = -1 - fn
    BY <1>2
  <2>2. b < 0
    BY <1>2, <2>1
  <2>3. ImcClauseStr(m, b) \in {{}, {Reading(SubSeq(comp, m + 1, Len(comp)))}}
    BY <2>2 DEF ImcClauseStr
  <2> QED  BY <2>1, <2>3
<1>6. PICK I : I = ImcClauseStr(m, -1 - fn)
  OBVIOUS
<1>7. ClauseStr(k, -1) = {<<>> \o y : y \in I}
  <2>1. ClauseStr(k, -1) = {FixedStr(k, -1) \o y : y \in ImcClauseStr(k - fixedNum, -1 - fixedNum)}
    BY DEF ClauseStr
  <2> QED  BY <1>1, <1>3, <1>4, <1>6, <2>1
<1>8. CASE I = {}
  <2>1. Appended(k, -1) = <<>>
    BY <1>3, <1>7, <1>8 DEF Appended
  <2>2. ASSUME fixedNum = 0, k <= Len(comp)  PROVE Reading(Back(comp, k)) = <<>>
    <3>1. m = k /\ fn = 0
      BY <1>1, <1>4, <2>2
    <3>2. k = l
      <4>1. ImcClauseStr(k, -1) = {}
        BY <1>6, <1>8, <3>1
      <4>2. -1 < 0
        OBVIOUS
      <4>3. k < 0 \/ k > l \/ l > l \/ k = l
        BY <1>1, <4>1 DEF ImcClauseStr
      <4> QED  BY <1>1, <2>2, <4>3
    <3>3. Back(comp, l) = <<>>
      BY <1>1, FrontAll
    <3> QED  BY <3>2, <3>3, NoneSound
  <2>3. <<>> \in Seq(S) /\ Whole(<<>>)
    BY DEF Whole
  <2> QED  BY <2>1, <2>2, <2>3
<1>9. CASE I # {}
  <2>1. PICK r : r = Reading(SubSeq(comp, m + 1, Len(comp)))
    OBVIOUS
  <2>2. I = {r}
    BY <1>5, <1>6, <1>9, <2>1
  <2>3. m \in Nat /\ m <= l
    <3>1. ~(m < 0) /\ ~(m > l)
      BY <1>1, <1>2, <1>6, <1>9 DEF ImcClauseStr
    <3> QED  BY <1>1, <3>1
  <2>4. r = Reading(Back(comp, m))
    BY <2>1 DEF Back
  <2>5. r \in Seq(S) /\ Whole(r)
    <3>1. m <= Len(comp)
      BY <1>1, <2>3
    <3>2. r = FlattenSeq(Back(Yomis(comp), m)) /\ r \in Seq(S)
      BY <2>3, <2>4, <3>1, FrontReading
    <3>3. Yomis(comp) \in Seq(Seq(S)) /\ m <= Len(Yomis(comp))
      BY <3>1, YomisIs
    <3>4. Pieces(Back(Yomis(comp), m))
      BY <2>3, <3>3, PiecesFront
    <3>5. Back(comp, m) \in Seq(ClausesIn(S)) /\ Yomis(Back(comp, m)) = Back(Yomis(comp), m)
      BY <2>3, <3>1, YomisParts
    <3> QED  BY <2>4, <3>2, <3>4, <3>5, ReadingType
  <2>6. <<>> \o r = r
    BY <2>5, ConcatEmptySeq
  <2>7. ClauseStr(k, -1) = {r}
    BY <1>7, <2>2, <2>6
  <2>8. Appended(k, -1) = r
    BY <2>7 DEF Appended
  <2>9. fixedNum = 0 => r = Reading(Back(comp, k))
    BY <1>1, <1>4, <2>4
  <2> QED  BY <2>5, <2>8, <2>9
<1> QED  BY <1>8, <1>9

LEMMA BeforeIs ==
  ASSUME NEW S, comp \in Seq(ClausesIn(S)), fixedNum = 0, NEW c \in Nat, c < Len(comp)
  PROVE  /\ (IF c > 0 THEN Appended(0, c) ELSE <<>>) = Before(c)
         /\ Before(c) = Text(Yomis(comp), c) /\ Before(c) \in Seq(S)
         /\ After(c) = Reading(Back(comp, c + 1)) /\ After(c) = FlattenSeq(Back(Yomis(comp), c + 1))
         /\ After(c) \in Seq(S)
<1>1. PICK l, d \in Nat : l = Len(comp) /\ d = c + 1 /\ c <= l /\ d <= l /\ d + 1 = c + 2
  OBVIOUS
<1>2. Before(c) = Reading(Fore(comp, c))
  BY DEF Before, Fore
<1>3. Before(c) = Text(Yomis(comp), c) /\ Before(c) \in Seq(S)
  BY <1>1, <1>2, FrontReading
<1>4. After(c) = Reading(Back(comp, d))
  BY <1>1 DEF After, Back
<1>5. After(c) = FlattenSeq(Back(Yomis(comp), d)) /\ After(c) \in Seq(S)
  <2>1. d <= Len(comp)
    BY <1>1
  <2> QED  BY <1>4, <2>1, FrontReading
<1>6. After(c) = Reading(Back(comp, c + 1)) /\ After(c) = FlattenSeq(Back(Yomis(comp), c + 1))
  BY <1>1, <1>4, <1>5
<1>7. CASE c = 0
  <2>1. Fore(comp, 0) = <<>>
    BY FrontAll
  <2>2. Reading(Fore(comp, 0)) = <<>>
    BY <2>1, NoneSound
  <2>3. Before(c) = <<>>
    BY <1>2, <1>7, <2>2, Zenon
  <2>4. (IF c > 0 THEN Appended(0, c) ELSE <<>>) = Before(c)
    BY <1>7, <2>3
  <2> QED  BY <1>3, <1>5, <1>6, <2>4, Zenon
<1>8. CASE c > 0
  <2>1. FixedStr(0, c) = <<>>
    <3>1. PICK e : e = IF c < fixedNum THEN c ELSE fixedNum
      OBVIOUS
    <3>2. e = 0
      BY <3>1
    <3>3. SubSeq(fixedYomi, 1, 0) = <<>>
      BY SubSeqEmpty
    <3>4. FixedStr(0, c) = FlattenSeq(SubSeq(fixedYomi, 1, e))
      BY <3>1 DEF FixedStr
    <3>5. FixedStr(0, c) = FlattenSeq(<<>>)
      BY <3>2, <3>3, <3>4, Zenon
    <3> QED  BY <3>5, FlattenEmpty
  <2>2. ImcClauseStr(0, c) = {Before(c)}
    <3>1. ~(c < 0) /\ ~(0 > Len(comp)) /\ ~(c > Len(comp)) /\ 0 # c
      BY <1>1, <1>8
    <3>2. SubSeq(comp, 0 + 1, c) = SubSeq(comp, 1, c)
      OBVIOUS
    <3> QED  BY <3>1, <3>2 DEF ImcClauseStr, Before
  <2>3. ClauseStr(0, c) = {FixedStr(0, c) \o y : y \in ImcClauseStr(0, c)}
    <3>1. ~(c > 0 /\ c <= fixedNum)
      BY <1>8
    <3>2. 0 - fixedNum = 0 /\ c - fixedNum = c
      OBVIOUS
    <3> QED  BY <3>1, <3>2 DEF ClauseStr
  <2>4. <<>> \o Before(c) = Before(c)
    BY <1>3, ConcatEmptySeq
  <2>5. ClauseStr(0, c) = {Before(c)}
    <3>1. ClauseStr(0, c) = {FixedStr(0, c) \o Before(c)}
      BY <2>2, <2>3
    <3> QED  BY <2>1, <2>4, <3>1
  <2>6. Appended(0, c) = Before(c)
    BY <2>5 DEF Appended
  <2>7. (IF c > 0 THEN Appended(0, c) ELSE <<>>) = Before(c)
    BY <1>8, <2>6
  <2> QED  BY <1>3, <1>5, <1>6, <2>7, Zenon
<1> QED  BY <1>7, <1>8

\* Where no clause is fixed, the reading stored is that of the clauses with
\* one replaced.
LEMMA StoredIs ==
  ASSUME NEW S, Sound(S, comp), fixedYomi = <<>>, fixedNum = 0,
         NEW c \in Nat, c < Len(comp), NEW y \in Seq(S), Whole(y)
  PROVE  /\ StoredReading(c, y) = (Before(c) \o y) \o After(c)
         /\ StoredReading(c, y) = FlattenSeq(Replaced(Yomis(comp), c, y))
         /\ StoredReading(c, y) \in Seq(S) /\ Whole(StoredReading(c, y))
<1>1. comp \in Seq(ClausesIn(S)) /\ Pieces(Yomis(comp))
  BY DEF Sound
<1>2. Before(c) = Text(Yomis(comp), c) /\ After(c) = FlattenSeq(Back(Yomis(comp), c + 1))
  BY <1>1, BeforeIs
<1>3. StoredReading(c, y) = (Before(c) \o y) \o After(c)
  <2>1. PICK d \in Nat : d = c + 1
    OBVIOUS
  <2>2. d <= Len(comp)
    BY <1>1, <2>1
  <2>3. fixedYomi \in Seq(Seq(S)) /\ fixedNum = Len(fixedYomi)
    OBVIOUS
  <2>4. Appended(d, -1) = Reading(Back(comp, d))
    BY <1>1, <2>2, <2>3, AppendedIs
  <2>5. After(c) = Reading(Back(comp, d))
    BY <1>1, <2>1, BeforeIs
  <2>6. (IF c > 0 THEN Appended(0, c) ELSE <<>>) = Before(c)
    BY <1>1, BeforeIs
  <2>7. PICK a, b : a = (IF c > 0 THEN Appended(0, c) ELSE <<>>) /\ b = Appended(d, -1)
    OBVIOUS
  <2>8. StoredReading(c, y) = (a \o y) \o b
    BY <2>1, <2>7 DEF StoredReading
  <2> QED  BY <2>4, <2>5, <2>6, <2>7, <2>8, Zenon
<1>4. PICK ps, qs : ps = Yomis(comp) /\ qs = Replaced(ps, c, y)
  OBVIOUS
<1>5. ps \in Seq(Seq(S)) /\ Len(ps) = Len(comp) /\ Pieces(ps)
  BY <1>1, <1>4, YomisIs
<1>6. c < Len(ps)
  BY <1>5
<1>7. qs \in Seq(Seq(S)) /\ Pieces(qs) /\ FlattenSeq(qs) = (Text(ps, c) \o y) \o FlattenSeq(Back(ps, c + 1))
  <2>1. qs = Replaced(ps, c, y)
    BY <1>4
  <2>2. ps \in Seq(Seq(S)) /\ Pieces(ps)
    BY <1>5
  <2>3. qs \in Seq(Seq(S)) /\ Pieces(qs)
    BY <1>6, <2>1, <2>2, ReplacedIs
  <2>4. FlattenSeq(qs) = (Text(ps, c) \o y) \o FlattenSeq(Back(ps, c + 1))
    BY <1>6, <2>1, <2>2, ReplacedIs, SMTT(30)
  <2> QED  BY <2>3, <2>4
<1>8. FlattenSeq(qs) \in Seq(S) /\ Whole(FlattenSeq(qs))
  BY <1>7, PiecesWhole
<1>9. StoredReading(c, y) = FlattenSeq(qs)
  BY <1>2, <1>3, <1>4, <1>7, Zenon
<1> QED  BY <1>3, <1>4, <1>8, <1>9, Zenon

\* With fixed clauses there is at least a reading, in automatic mode.
LEMMA StoredType ==
  ASSUME NEW S, Sound(S, comp), fixedYomi \in Seq(Seq(S)), fixedNum = Len(fixedYomi), NEW y \in Seq(S)
  PROVE  StoredReading(0, y) \in Seq(S)
<1>1. comp \in Seq(ClausesIn(S)) /\ Pieces(Yomis(comp))
  BY DEF Sound
<1>2. PICK k \in Nat : k = 0 + 1
  OBVIOUS
<1>3. PICK b : b = Appended(k, -1) /\ b \in Seq(S)
  <2>1. Appended(k, -1) \in Seq(S)
    BY <1>1, AppendedIs
  <2> QED  BY <2>1
<1>4. StoredReading(0, y) = (<<>> \o y) \o b
  <2>1. ~(0 > 0)
    OBVIOUS
  <2> QED  BY <1>2, <1>3, <2>1 DEF StoredReading
<1>5. <<>> \o y = y
  BY ConcatEmptySeq
<1>6. y \o b \in Seq(S)
  BY <1>3, ConcatProperties
<1> QED  BY <1>4, <1>5, <1>6

\* change_attr leaves the readings, and what is converted.
LEMMA SetTargetIs ==
  ASSUME NEW S, NEW cls \in Seq(ClausesIn(S)), NEW c, NEW new, new = SetTarget(cls, c)
  PROVE  /\ new \in Seq(ClausesIn(S)) /\ Len(new) = Len(cls)
         /\ Yomis(new) = Yomis(cls) /\ Reading(new) = Reading(cls)
         /\ \A i \in 1 .. Len(cls) : IsConverted(new[i]) = IsConverted(cls[i])
         /\ \A i \in 1 .. Len(cls) : new[i].yomi = cls[i].yomi
<1>1. PICK n \in Nat : n = Len(cls) /\ DOMAIN cls = 1 .. n
  OBVIOUS
<1>2. PICK C : C = ClausesIn(S)
  OBVIOUS
<1>3. \A i \in 1 .. n : cls[i] \in C
  BY <1>1, <1>2
<1>4. new = [i \in 1 .. n |-> new[i]]
  BY <1>1 DEF SetTarget
<1>5. ASSUME NEW i \in 1 .. n
      PROVE  new[i] \in C /\ new[i].yomi = cls[i].yomi /\ IsConverted(new[i]) = IsConverted(cls[i])
  <2>1. PICK e, d : e = cls[i] /\ d = new[i]
    OBVIOUS
  <2>2. e \in ClausesIn(S)
    BY <1>2, <1>3, <2>1
  <2>3. \/ d = e
        \/ IsConverted(e) /\ d = [e EXCEPT !.at = "TARGET_CONVERTED"]
        \/ ~IsConverted(e) /\ d = [e EXCEPT !.at = "TARGET_NOTCONVERTED"]
        \/ IsConverted(e) /\ d = [e EXCEPT !.at = "CONVERTED"]
        \/ ~IsConverted(e) /\ d = [e EXCEPT !.at = "INPUT"]
    BY <1>1, <2>1 DEF SetTarget
  <2>4. ASSUME NEW a \in Ats, d = [e EXCEPT !.at = a], IsConverted(e) = (a \in {"CONVERTED", "TARGET_CONVERTED"})
        PROVE  d \in ClausesIn(S) /\ d.yomi = e.yomi /\ IsConverted(d) = IsConverted(e)
    <3>1. d \in ClausesIn(S) /\ d.yomi = e.yomi /\ d.at = a
      BY <2>2, <2>4, ClauseSelected
    <3> QED  BY <2>4, <3>1 DEF IsConverted
  <2>5. {"TARGET_CONVERTED", "TARGET_NOTCONVERTED", "CONVERTED", "INPUT"} \subseteq Ats
    BY DEF Ats
  <2>6. d \in ClausesIn(S) /\ d.yomi = e.yomi /\ IsConverted(d) = IsConverted(e)
    <3>1. CASE d = e
      BY <2>2, <3>1
    <3>2. CASE IsConverted(e) /\ d = [e EXCEPT !.at = "TARGET_CONVERTED"]
      BY <2>4, <2>5, <3>2
    <3>3. CASE ~IsConverted(e) /\ d = [e EXCEPT !.at = "TARGET_NOTCONVERTED"]
      BY <2>4, <2>5, <3>3 DEF IsConverted
    <3>4. CASE IsConverted(e) /\ d = [e EXCEPT !.at = "CONVERTED"]
      BY <2>4, <2>5, <3>4
    <3>5. CASE ~IsConverted(e) /\ d = [e EXCEPT !.at = "INPUT"]
      BY <2>4, <2>5, <3>5 DEF IsConverted
    <3> QED  BY <2>3, <3>1, <3>2, <3>3, <3>4, <3>5
  <2> QED  BY <1>2, <2>1, <2>6
<1>6. new \in Seq(C) /\ Len(new) = n
  <2>1. new \in [1 .. n -> C]
    BY <1>4, <1>5
  <2> QED  BY <2>1, FunSeq
<1>7. Yomis(new) = Yomis(cls)
  <2>1. PICK ps : ps = Yomis(cls)
    OBVIOUS
  <2>2. ps \in Seq(Seq(S)) /\ Len(ps) = n /\ \A i \in 1 .. n : ps[i] = cls[i].yomi
    BY <1>1, <2>1, YomisIs
  <2>3. SameYomis(new, ps)
    BY <1>5, <1>6, <2>2 DEF SameYomis
  <2>4. new \in Seq(ClausesIn(S))
    BY <1>2, <1>6
  <2> QED  BY <2>1, <2>2, <2>3, <2>4, YomisAre
<1>8. Reading(new) = Reading(cls)
  BY <1>7 DEF Reading
<1> QED  BY <1>1, <1>2, <1>5, <1>6, <1>7, <1>8

---------------------------------------------------------------------------
(* What actions leave.                                                     *)

LEMMA InvNow ==
  ASSUME ConvInv, phase # "dead", NEW S, S = CharsIn(phase)
  PROVE  /\ Sound(S, comp) /\ Held(S, phase, result, fixedNum, fixedYomi)
         /\ Known(candInfo, comp, fixedNum, told) /\ bufStart \in Nat
         /\ phase = "idle" => told = {}
BY DEF ConvInv

LEMMA InvNext ==
  ASSUME phase' \in {"idle", "conv", "auto"}, NEW S, S = CharsIn(phase'),
         Sound(S, comp'), Held(S, phase', result', fixedNum', fixedYomi'),
         Known(candInfo', comp', fixedNum', told'), phase' = "idle" => told' = {}, bufStart' \in Nat
  PROVE  ConvInv'
BY DEF ConvInv

LEMMA HeldIs ==
  ASSUME NEW S, NEW ph, NEW res, NEW fn, NEW fy, Held(S, ph, res, fn, fy)
  PROVE  /\ res \in Seq(Seq(S)) /\ fy \in Seq(Seq(S)) /\ fn = Len(fy) /\ fn \in Nat
         /\ (fn = 0 => fy = <<>>) /\ (ph = "conv" => fn = 0 /\ fy = <<>> /\ res = <<>>)
<1>1. PICK R : R = Seq(S)
  OBVIOUS
<1>2. fy \in Seq(R) /\ res \in Seq(R) /\ fn = Len(fy)
  BY <1>1 DEF Held
<1>3. fn \in Nat /\ (fn = 0 => fy = <<>>)
  BY <1>2, EmptySeq
<1>4. ph = "conv" => fy = <<>>
  BY DEF Held
<1>5. fy = <<>> => fn = 0
  BY <1>2
<1>6. ph = "conv" => res = <<>>
  BY DEF Held
<1> QED  BY <1>1, <1>2, <1>3, <1>4, <1>5, <1>6

LEMMA HeldNone ==
  ASSUME NEW S, NEW ph
  PROVE  Held(S, ph, <<>>, 0, <<>>)
<1>1. PICK R : R = Seq(S)
  OBVIOUS
<1>2. <<>> \in Seq(R) /\ Len(<<>>) = 0
  BY EmptySeq
<1> QED  BY <1>1, <1>2 DEF Held

\* A result string is added to the fixed clauses.
LEMMA HeldMore ==
  ASSUME NEW S, NEW ph, NEW old, NEW fn, NEW fy, Held(S, ph, old, fn, fy), NEW res \in Seq(Seq(S)),
         NEW new, new \in {"idle", "conv"} => ph \in {"idle", "conv"} /\ res = <<>>
  PROVE  Held(S, new, res, fn + Len(res), fy \o res)
<1>1. PICK R : R = Seq(S)
  OBVIOUS
<1>2. fy \in Seq(R) /\ res \in Seq(R) /\ fn = Len(fy)
  BY <1>1, HeldIs
<1>3. PICK all : all = fy \o res
  OBVIOUS
<1>4. all \in Seq(R) /\ Len(all) = fn + Len(res)
  BY <1>2, <1>3, ConcatProperties
<1>5. new \in {"idle", "conv"} => all = <<>> /\ res = <<>>
  <2> SUFFICES ASSUME new \in {"idle", "conv"}  PROVE all = <<>> /\ res = <<>>
    OBVIOUS
  <2>1. res = <<>> /\ fy = <<>>
    BY DEF Held
  <2>2. <<>> \o <<>> = <<>>
    OBVIOUS
  <2> QED  BY <1>3, <2>1, <2>2, Zenon
<1> QED  BY <1>1, <1>2, <1>3, <1>4, <1>5 DEF Held

LEMMA KnownNone ==
  ASSUME NEW ci \in Seq(Cells), NEW cls, NEW fn
  PROVE  Known(ci, cls, fn, {})
BY DEF Known

LEMMA ReplyIs ==
  ASSUME NEW cls, NEW res, NEW from, Reply(cls, res, from)
  PROVE  /\ comp' = cls /\ result' = res
         /\ fixedYomi' = fixedYomi \o res /\ fixedNum' = fixedNum + Len(res)
BY DEF Reply

\* A reply that has no result string leaves the fixed clauses.
LEMMA ReplyPlain ==
  ASSUME NEW S, NEW cls, NEW from, Reply(cls, <<>>, from), fixedYomi \in Seq(Seq(S)), fixedNum \in Nat
  PROVE  comp' = cls /\ result' = <<>> /\ fixedYomi' = fixedYomi /\ fixedNum' = fixedNum
<1>1. comp' = cls /\ result' = <<>> /\ fixedYomi' = fixedYomi \o <<>> /\ fixedNum' = fixedNum + Len(<<>>)
  <2>1. PICK res : res = <<>>
    OBVIOUS
  <2>2. Reply(cls, res, from)
    BY <2>1, Zenon
  <2>3. comp' = cls /\ result' = res /\ fixedYomi' = fixedYomi \o res /\ fixedNum' = fixedNum + Len(res)
    BY <2>2, ReplyIs
  <2> QED  BY <2>1, <2>3, Zenon
<1>2. PICK R, fy : R = Seq(S) /\ fy = fixedYomi
  OBVIOUS
<1>3. fy \in Seq(R)
  BY <1>2
<1>4. fy \o <<>> = fy
  BY <1>3, ConcatEmptySeq
<1>5. fixedNum' = fixedNum
  <2>1. fixedNum' = fixedNum + Len(<<>>) /\ Len(<<>>) = 0
    BY <1>1
  <2> QED  BY <2>1
<1> QED  BY <1>1, <1>2, <1>4, <1>5, Zenon

LEMMA BufStartIs ==
  ASSUME NEW S, NEW cls \in Seq(ClausesIn(S)), NEW fy \in Seq(Seq(S)), bufStart \in Nat, BufStart(cls, fy)
  PROVE  bufStart' \in Nat
<1>1. CASE phase # "auto"
  BY <1>1 DEF BufStart, buffer
<1>2. CASE phase = "auto"
  <2>1. PICK T : T = {k \in DOMAIN cls : k + Len(fy) <= Len(cls) /\ IsConverted(cls[k])}
    OBVIOUS
  <2>2. PICK n \in Nat : n = Cardinality(T) /\ n <= Len(cls)
    <3>1. PICK C : C = ClausesIn(S)
      OBVIOUS
    <3>2. cls \in Seq(C) /\ T \in SUBSET (DOMAIN cls)
      BY <2>1, <3>1
    <3> QED  BY <3>2, CountIs
  <2>3. PICK R, l : R = Seq(S) /\ l = Len(fy)
    OBVIOUS
  <2>4. fy \in Seq(R) /\ l \in Nat
    BY <2>3
  <2>5. n <= l => ZenLen(FlattenSeq(SubSeq(fy, 1, n))) \in Nat
    <3> SUFFICES ASSUME n <= l  PROVE ZenLen(FlattenSeq(SubSeq(fy, 1, n))) \in Nat
      OBVIOUS
    <3>1. SubSeq(fy, 1, n) \in Seq(R)
      BY <2>3, <2>4, PartType
    <3>2. FlattenSeq(SubSeq(fy, 1, n)) \in Seq(S)
      BY <2>3, <3>1, FlattenType
    <3> QED  BY <3>2, ZenLenIs
  <2>6. ZenLen(Reading(SubSeq(cls, 1, n))) \in Nat
    <3>1. SubSeq(cls, 1, n) \in Seq(ClausesIn(S))
      <4>1. PICK C : C = ClausesIn(S)
        OBVIOUS
      <4>2. cls \in Seq(C)
        BY <4>1
      <4>3. SubSeq(cls, 1, n) \in Seq(C)
        BY <2>2, <4>2, PartType
      <4> QED  BY <4>1, <4>3
    <3>2. Reading(SubSeq(cls, 1, n)) \in Seq(S)
      BY <3>1, ReadingType
    <3> QED  BY <3>2, ZenLenIs
  <2>7. PICK a, b : a = ZenLen(FlattenSeq(SubSeq(fy, 1, n))) /\ b = ZenLen(Reading(SubSeq(cls, 1, n)))
    OBVIOUS
  <2>8. bufStart' \in {bufStart, IF n \in 1 .. l THEN a ELSE 0, b}
    <3>1. l = Len(fy) /\ n = Cardinality(T)
      BY <2>2, <2>3
    <3>2. bufStart' = IF n = convertedCl THEN bufStart
                      ELSE IF fy # <<>> THEN IF n \in 1 .. l THEN a ELSE 0
                      ELSE b
      BY <1>2, <2>1, <2>7, <3>1, Zenon DEF BufStart
    <3> QED  BY <3>2
  <2>9. n \in 1 .. l => n <= l
    BY <2>4
  <2>10. a \in Nat \/ ~(n \in 1 .. l)
    BY <2>5, <2>7, <2>9
  <2> QED  BY <2>6, <2>7, <2>8, <2>10
<1> QED  BY <1>1, <1>2

---------------------------------------------------------------------------
(* Candidate information.                                                  *)

LEMMA MaxOfTwo ==
  ASSUME NEW a \in Nat, NEW b \in Nat
  PROVE  Max({a, b}) \in Nat /\ Max({a, b}) >= a /\ Max({a, b}) >= b
<1>1. \E x \in {a, b} : \A y \in {a, b} : x >= y
  OBVIOUS
<1>2. Max({a, b}) = CHOOSE x \in {a, b} : \A y \in {a, b} : x >= y
  BY DEF Max
<1>3. PICK m : m = Max({a, b})
  OBVIOUS
<1>4. m \in {a, b} /\ \A y \in {a, b} : m >= y
  BY <1>1, <1>2, <1>3
<1> QED  BY <1>3, <1>4

\* Every cell of ci that is not the one of clause c is one of old, or empty.
Carries(ci, old, c) ==
    \A k \in Nat : k < Len(ci) /\ k # c => ci[k + 1] = NoInfo \/ (k < Len(old) /\ ci[k + 1] = old[k + 1])

LEMMA AllocIs ==
  ASSUME candInfo \in Seq(Cells), NEW n \in Nat, NEW ci, ci = Alloc(n)
  PROVE  /\ ci \in Seq(Cells) /\ Len(ci) = n /\ Carries(ci, candInfo, -1)
         /\ \A i \in 1 .. n : ci[i] = IF i <= Len(candInfo) THEN candInfo[i] ELSE NoInfo
<1>1. PICK C : C = Cells
  OBVIOUS
<1>2. candInfo \in Seq(C) /\ NoInfo \in C
  BY <1>1 DEF Cells
<1>3. ci = [i \in 1 .. n |-> IF i <= Len(candInfo) THEN candInfo[i] ELSE NoInfo]
  BY DEF Alloc
<1>4. PICK l \in Nat : l = Len(candInfo)
  BY <1>2
<1>5. \A i \in 1 .. l : candInfo[i] \in C
  BY <1>2, <1>4
<1>6. \A i \in 1 .. n : ci[i] = IF i <= l THEN candInfo[i] ELSE NoInfo
  BY <1>3, <1>4
<1>7. ci \in [1 .. n -> C]
  <2>1. \A i \in 1 .. n : i <= l => i \in 1 .. l
    OBVIOUS
  <2>2. \A i \in 1 .. n : ci[i] \in C
    BY <1>2, <1>5, <1>6, <2>1
  <2> QED  BY <1>3, <2>2
<1>8. ci \in Seq(C) /\ Len(ci) = n
  BY <1>7, FunSeq
<1>9. Carries(ci, candInfo, -1)
  <2> SUFFICES ASSUME NEW k \in Nat, k < n
               PROVE  ci[k + 1] = NoInfo \/ (k < l /\ ci[k + 1] = candInfo[k + 1])
    BY <1>4, <1>8 DEF Carries
  <2>1. PICK i \in Nat : i = k + 1 /\ i \in 1 .. n /\ (i <= l <=> k < l)
    OBVIOUS
  <2> QED  BY <1>6, <2>1
<1> QED  BY <1>1, <1>3, <1>8, <1>9

\* The n cells of ci are those of old but for the one of clause c.
Puts(ci, old, n, c, cell) == ci \in Seq(Cells) /\ Len(ci) = n /\ ci[c + 1] = cell /\ Carries(ci, old, c)

LEMMA PutIs ==
  ASSUME candInfo \in Seq(Cells), NEW n \in Nat, NEW c \in Nat, c < n, NEW cell \in Cells,
         NEW ci, ci = [Alloc(n) EXCEPT ![c + 1] = cell]
  PROVE  Puts(ci, candInfo, n, c, cell)
<1>1. PICK C, a : C = Cells /\ a = Alloc(n)
  OBVIOUS
<1>2. a \in Seq(C) /\ Len(a) = n /\ Carries(a, candInfo, -1)
  BY <1>1, AllocIs
<1>3. cell \in C
  BY <1>1
<1>4. PICK d \in Nat : d = c + 1 /\ d \in 1 .. n
  OBVIOUS
<1>5. ci = [a EXCEPT ![d] = cell]
  BY <1>1, <1>4
<1>6. ci \in Seq(C) /\ Len(ci) = n /\ ci[d] = cell /\ \A i \in 1 .. n : i # d => ci[i] = a[i]
  <2>1. a \in [1 .. n -> C]
    BY <1>2
  <2>2. ci \in [1 .. n -> C] /\ ci[d] = cell /\ \A i \in 1 .. n : i # d => ci[i] = a[i]
    BY <1>3, <1>4, <1>5, <2>1
  <2> QED  BY <2>2, FunSeq
<1>7. Carries(ci, candInfo, c)
  <2> SUFFICES ASSUME NEW k \in Nat, k < n, k # c
               PROVE  ci[k + 1] = NoInfo \/ (k < Len(candInfo) /\ ci[k + 1] = candInfo[k + 1])
    BY <1>6 DEF Carries
  <2>1. PICK i \in Nat : i = k + 1 /\ i \in 1 .. n /\ i # d
    BY <1>4
  <2>2. ci[k + 1] = a[k + 1]
    BY <1>6, <2>1
  <2>3. k # -1
    OBVIOUS
  <2>4. k < Len(a)
    BY <1>2
  <2>5. a[k + 1] = NoInfo \/ (k < Len(candInfo) /\ a[k + 1] = candInfo[k + 1])
    BY <1>2, <2>3, <2>4 DEF Carries
  <2> QED  BY <2>2, <2>5
<1> QED  BY <1>1, <1>4, <1>6, <1>7 DEF Puts

\* What a clause has is its list, in the cell a listing leaves.
ListsClause(ci, cls, c) == c < Len(ci) => ci[c + 1] \in {NoInfo, Listed(NoInfo, NumCands(cls[c + 1].yomi))}

SameReadings(cls, new) == Len(new) = Len(cls) /\ \A i \in 1 .. Len(cls) : new[i].yomi = cls[i].yomi

LEMMA KnownAfter ==
  ASSUME NEW ci, NEW cls, NEW fn, NEW tl, Known(ci, cls, fn, tl), Len(cls) \in Nat,
         NEW new, SameReadings(cls, new), NEW ci2 \in Seq(Cells), NEW tl2 \in SUBSET Nat,
         NEW c \in Int, Carries(ci2, ci, c), tl2 \ {c} \subseteq tl,
         fn = 0 /\ c \in tl2 => c < Len(cls) /\ ListsClause(ci2, cls, c)
  PROVE  Known(ci2, new, fn, tl2)
<1>1. ci \in Seq(Cells) /\ tl \subseteq Nat
  BY DEF Known
<1> SUFFICES ASSUME fn = 0, NEW k \in tl2
             PROVE  k < Len(new) /\ ListsClause(ci2, new, k)
  <2>1. ci2 \in Seq(Cells) /\ tl2 \subseteq Nat
    OBVIOUS
  <2> QED  BY <2>1, Zenon DEF Known, ListsClause
<1>2. k \in Nat
  OBVIOUS
<1>3. ASSUME k < Len(cls)  PROVE k < Len(new) /\ new[k + 1].yomi = cls[k + 1].yomi
  <2>1. k + 1 \in 1 .. Len(cls)
    BY <1>2, <1>3
  <2> QED  BY <1>3, <2>1 DEF SameReadings
<1>4. CASE k = c
  <2>1. k < Len(cls) /\ ListsClause(ci2, cls, k)
    BY <1>4
  <2> QED  BY <1>3, <2>1 DEF ListsClause
<1>5. CASE k # c
  <2>1. k \in tl
    BY <1>5
  <2>2. k < Len(cls) /\ ListsClause(ci, cls, k)
    BY <2>1 DEF Known, ListsClause
  <2>3. ASSUME k < Len(ci2)  PROVE ci2[k + 1] \in {NoInfo, Listed(NoInfo, NumCands(cls[k + 1].yomi))}
    <3>1. ci2[k + 1] = NoInfo \/ (k < Len(ci) /\ ci2[k + 1] = ci[k + 1])
      BY <1>2, <1>5, <2>3 DEF Carries
    <3>2. k < Len(ci) => ci[k + 1] \in {NoInfo, Listed(NoInfo, NumCands(cls[k + 1].yomi))}
      BY <2>2 DEF ListsClause
    <3> QED  BY <3>1, <3>2
  <2> QED  BY <1>3, <2>2, <2>3 DEF ListsClause
<1> QED  BY <1>4, <1>5

\* The information on a clause that has been listed is not empty.
LEMMA ListedIs ==
  ASSUME NEW n \in Nat \ {0}, NEW cell, cell = Listed(NoInfo, n)
  PROVE  /\ cell \in Cells
         /\ n <= OpenAfter => cell.seq = n
         /\ ~(n <= OpenAfter) => cell.seq = 0 /\ \A p \in Pages : cell.size[p] = OnPage(n, p)
<1>1. cell \in Cells
  BY DEF Cells
<1>2. NoInfo.seq = 0 /\ NoInfo.size = NoPages
  BY DEF NoInfo
<1>3. n <= OpenAfter => cell.seq = n
  BY DEF Listed, NoInfo
<1>4. ASSUME ~(n <= OpenAfter)
      PROVE  cell.seq = 0 /\ \A p \in Pages : cell.size[p] = OnPage(n, p)
  <2>1. cell = [NoInfo EXCEPT !.size = [p \in Pages |-> IF OnPage(n, p) > 0 THEN OnPage(n, p) ELSE NoInfo.size[p]]]
    BY <1>4 DEF Listed
  <2>2. cell.seq = 0
    BY <2>1 DEF NoInfo
  <2>3. cell.size = [p \in Pages |-> IF OnPage(n, p) > 0 THEN OnPage(n, p) ELSE NoInfo.size[p]]
    BY <2>1 DEF NoInfo
  <2>4. ASSUME NEW p \in Pages  PROVE cell.size[p] = OnPage(n, p)
    <3>1. PICK m : m = OnPage(n, p)
      OBVIOUS
    <3>2. cell.size[p] = IF m > 0 THEN m ELSE NoPages[p]
      BY <1>2, <2>3, <3>1
    <3>3. NoPages[p] = 0
      BY DEF NoPages
    <3>4. m \in Nat
      <4>1. PICK a \in Int : a = p * PageSize /\ a \in Nat
        <5>1. PageSize \in Nat /\ p \in Nat
          BY ClausesAssumption DEF Pages
        <5> QED  BY <5>1
      <4>2. m \in {0, PageSize} \/ (m = n - a /\ ~(n <= a))
        <5>1. m = IF n <= p * PageSize THEN 0
                  ELSE IF n < (p + 1) * PageSize THEN n - p * PageSize ELSE PageSize
          BY <3>1 DEF OnPage
        <5>2. PICK e : e = p * PageSize
          OBVIOUS
        <5>3. m \in {0, PageSize} \/ (m = n - e /\ ~(n <= e))
          BY <5>1, <5>2, Zenon
        <5> QED  BY <4>1, <5>2, <5>3
      <4>3. ~(n <= a) => n - a \in Nat
        BY <4>1
      <4>4. PageSize \in Nat
        BY ClausesAssumption
      <4> QED  BY <4>2, <4>3, <4>4
    <3> QED  BY <3>1, <3>2, <3>3, <3>4
  <2> QED  BY <2>2, <2>4
<1> QED  BY <1>1, <1>3, <1>4

LEMMA EmptyCell ==
  ASSUME NEW cell \in Cells, cell.seq = 0, cell.size[0] = 0
  PROVE  cell = NoInfo
<1> SUFFICES ASSUME NEW n \in Nat \ {0}, cell = Listed(NoInfo, n)  PROVE FALSE
  BY DEF Cells
<1>1. n <= OpenAfter => cell.seq = n
  BY ListedIs
<1>2. ~(n <= OpenAfter)
  BY <1>1
<1>3. 0 \in Pages
  BY DEF Pages
<1>4. cell.size[0] = OnPage(n, 0)
  BY <1>2, <1>3, ListedIs
<1>5. OnPage(n, 0) # 0
  <2>1. PICK z \in Nat : z = PageSize /\ z # 0
    BY ClausesAssumption
  <2>2. 0 * PageSize = 0 /\ (0 + 1) * PageSize = z
    BY <2>1
  <2>3. OnPage(n, 0) = IF n <= 0 THEN 0 ELSE IF n < z THEN n - 0 ELSE z
    BY <2>1, <2>2 DEF OnPage
  <2> QED  BY <2>1, <2>3
<1> QED  BY <1>4, <1>5

LEMMA TargetSound ==
  ASSUME NEW S, NEW cls, Sound(S, cls), NEW c, NEW new, new = SetTarget(cls, c)
  PROVE  Sound(S, new) /\ SameReadings(cls, new) /\ Len(cls) \in Nat
<1>1. cls \in Seq(ClausesIn(S)) /\ Pieces(Yomis(cls)) /\ ConvertedFirst(cls)
  BY DEF Sound
<1>2. new \in Seq(ClausesIn(S))
  BY <1>1, SetTargetIs
<1>3. Len(new) = Len(cls)
  BY <1>1, SetTargetIs
<1>4. Yomis(new) = Yomis(cls)
  BY <1>1, SetTargetIs
<1>5. \A i \in 1 .. Len(cls) : IsConverted(new[i]) = IsConverted(cls[i])
  BY <1>1, SetTargetIs
<1>6. \A i \in 1 .. Len(cls) : new[i].yomi = cls[i].yomi
  BY <1>1, SetTargetIs
<1>7. ConvertedFirst(new)
  BY <1>1, <1>3, <1>5 DEF ConvertedFirst
<1>8. Pieces(Yomis(new))
  BY <1>1, <1>4
<1>9. Len(cls) \in Nat
  BY <1>1
<1> QED  BY <1>2, <1>3, <1>6, <1>7, <1>8, <1>9 DEF Sound, SameReadings

LEMMA SoundIs ==
  ASSUME NEW S, NEW cls, Sound(S, cls)
  PROVE  /\ cls \in Seq(ClausesIn(S)) /\ Pieces(Yomis(cls)) /\ ConvertedFirst(cls) /\ Len(cls) \in Nat
         /\ Yomis(cls) \in Seq(Seq(S)) /\ Len(Yomis(cls)) = Len(cls)
         /\ Reading(cls) \in Seq(S) /\ Whole(Reading(cls))
         /\ \A c \in Nat : c < Len(cls) => cls[c + 1].yomi \in Seq(S) /\ NumCands(cls[c + 1].yomi) \in Nat \ {0}
<1>1. cls \in Seq(ClausesIn(S)) /\ Pieces(Yomis(cls)) /\ ConvertedFirst(cls)
  BY DEF Sound
<1>2. Yomis(cls) \in Seq(Seq(S)) /\ Len(Yomis(cls)) = Len(cls)
  BY <1>1, YomisIs
<1>3. Reading(cls) \in Seq(S) /\ Whole(Reading(cls))
  BY <1>1, ReadingType
<1>4. Len(cls) \in Nat
  BY <1>1
<1>5. ASSUME NEW c \in Nat, c < Len(cls)
      PROVE  cls[c + 1].yomi \in Seq(S) /\ NumCands(cls[c + 1].yomi) \in Nat \ {0}
  <2>1. PICK C : C = ClausesIn(S)
    OBVIOUS
  <2>2. cls \in Seq(C) /\ c + 1 \in 1 .. Len(cls)
    BY <1>1, <1>4, <1>5, <2>1
  <2>3. cls[c + 1] \in C
    BY <2>2
  <2>4. cls[c + 1].yomi \in Seq(S)
    BY <2>1, <2>3 DEF ClausesIn
  <2>5. PICK y : y = cls[c + 1].yomi /\ y \in Seq(S)
    BY <2>4
  <2>6. NumCands(y) \in Nat \ {0}
    BY <2>5 DEF NumCands
  <2> QED  BY <2>5, <2>6
<1> QED  BY <1>1, <1>2, <1>3, <1>4, <1>5

LEMMA DeadInv ==
  ASSUME phase' = "dead"
  PROVE  ConvInv'
BY DEF ConvInv

---------------------------------------------------------------------------
(* Every action keeps the invariant.                                       *)

LEMMA GetCandiListKeeps ==
  ASSUME ConvInv, NEW c \in Nat, GetCandiList(c)
  PROVE  ConvInv'
<1>1. phase \in {"conv", "auto"} /\ c < Total
  BY DEF GetCandiList, Settled
<1>2. PICK S : S = CharsIn(phase)
  OBVIOUS
<1>3. /\ Sound(S, comp) /\ Held(S, phase, result, fixedNum, fixedYomi)
      /\ Known(candInfo, comp, fixedNum, told) /\ bufStart \in Nat
  BY <1>1, <1>2, InvNow
<1>4. CASE Overruns(comp, c)
  <2>1. phase' = "dead"
    BY <1>4 DEF GetCandiList, Die
  <2> QED  BY <2>1, DeadInv
<1>5. CASE ~Overruns(comp, c)
  <2>1. /\ phase' = phase /\ result' = result /\ fixedNum' = fixedNum /\ fixedYomi' = fixedYomi
        /\ bufStart' = bufStart
    BY <1>5 DEF GetCandiList, fixed, buffer
  <2>2. Held(S, phase', result', fixedNum', fixedYomi') /\ bufStart' \in Nat /\ phase' # "idle"
    BY <1>1, <1>3, <2>1
  <2>3. CASE ~Selectable(comp, c)
    <3>1. comp' = comp /\ candInfo' = candInfo /\ told' = told
      BY <1>5, <2>3 DEF GetCandiList
    <3> QED  BY <1>1, <1>2, <1>3, <2>1, <2>2, <3>1, InvNext
  <2>4. CASE Selectable(comp, c)
    <3>1. /\ comp' = SetTarget(comp, c) /\ told' = told \cup {c}
          /\ candInfo' = [Alloc(Max({Len(candInfo), c + 1})) EXCEPT ![c + 1] = Listed(NoInfo, AllCands(c))]
      BY <1>5, <2>4 DEF GetCandiList
    <3>2. Sound(S, comp') /\ SameReadings(comp, comp') /\ Len(comp) \in Nat
      BY <1>3, <3>1, TargetSound
    <3>3. candInfo \in Seq(Cells) /\ told \subseteq Nat
      BY <1>3 DEF Known
    <3>4. PICK n \in Nat : n = Max({Len(candInfo), c + 1}) /\ c < n
      <4>1. PICK l \in Nat : l = Len(candInfo)
        BY <3>3
      <4>2. PICK d \in Nat : d = c + 1
        OBVIOUS
      <4>3. Max({l, d}) \in Nat /\ Max({l, d}) >= d
        BY MaxOfTwo
      <4> QED  BY <4>1, <4>2, <4>3
    <3>5. fixedNum \in Nat /\ c >= fixedNum /\ c - fixedNum < Len(comp)
      <4>1. fixedNum \in Nat
        BY <1>3, HeldIs
      <4> QED  BY <1>1, <2>4, <3>2, <4>1 DEF Selectable, Total
    <3>6. PICK i \in Nat : i = c - fixedNum
      BY <3>5
    <3>7. PICK m \in Nat \ {0} : m = AllCands(c) /\ m = NumCands(comp[i + 1].yomi)
      <4>1. NumCands(comp[i + 1].yomi) \in Nat \ {0}
        BY <1>3, <3>5, <3>6, SoundIs
      <4>2. AllCands(c) = NumCands(comp[i + 1].yomi)
        BY <3>6 DEF AllCands
      <4> QED  BY <4>1, <4>2
    <3>8. PICK cell \in Cells : cell = Listed(NoInfo, m)
      BY ListedIs
    <3>9. candInfo' = [Alloc(n) EXCEPT ![c + 1] = cell]
      BY <3>1, <3>4, <3>7, <3>8
    <3>10. candInfo' \in Seq(Cells) /\ candInfo'[c + 1] = cell /\ Carries(candInfo', candInfo, c)
      <4>1. Puts(candInfo', candInfo, n, c, cell)
        BY <3>3, <3>4, <3>9, PutIs
      <4> QED  BY <4>1 DEF Puts
    <3>11. fixedNum = 0 => c < Len(comp) /\ ListsClause(candInfo', comp, c)
      <4> SUFFICES ASSUME fixedNum = 0  PROVE c < Len(comp) /\ ListsClause(candInfo', comp, c)
        OBVIOUS
      <4>1. i = c
        BY <3>5, <3>6
      <4>2. c < Len(comp)
        BY <3>5, <3>6, <4>1
      <4>3. candInfo'[c + 1] = Listed(NoInfo, NumCands(comp[c + 1].yomi))
        BY <3>7, <3>8, <3>10, <4>1
      <4> QED  BY <4>2, <4>3 DEF ListsClause
    <3>12. told' \in SUBSET Nat /\ told' \ {c} \subseteq told
      BY <3>1, <3>3
    <3>13. Known(candInfo', comp', fixedNum, told')
      <4>1. Known(candInfo, comp, fixedNum, told) /\ Len(comp) \in Nat /\ SameReadings(comp, comp')
        BY <1>3, <3>2
      <4>2. candInfo' \in Seq(Cells) /\ Carries(candInfo', candInfo, c)
        BY <3>10
      <4>3. fixedNum = 0 /\ c \in told' => c < Len(comp) /\ ListsClause(candInfo', comp, c)
        BY <3>11
      <4>4. c \in Int
        OBVIOUS
      <4> QED  BY <3>12, <4>1, <4>2, <4>3, <4>4, KnownAfter
    <3> QED  BY <1>1, <1>2, <2>1, <2>2, <3>2, <3>13, InvNext
  <2> QED  BY <2>3, <2>4
<1> QED  BY <1>4, <1>5

LEMMA GetStatusKeeps ==
  ASSUME ConvInv, NEW c \in Nat, GetStatus(c)
  PROVE  ConvInv'
<1>1. phase \in {"conv", "auto"} /\ c < Total
  BY DEF GetStatus, Settled
<1>2. PICK S : S = CharsIn(phase)
  OBVIOUS
<1>3. /\ Sound(S, comp) /\ Held(S, phase, result, fixedNum, fixedYomi)
      /\ Known(candInfo, comp, fixedNum, told) /\ bufStart \in Nat
  BY <1>1, <1>2, InvNow
<1>4. PICK cell, old : old = Alloc(c + 1)[c + 1] /\ cell = Listed(old, AllCands(c))
  OBVIOUS
<1>5. PICK known \in BOOLEAN : known = (c < Len(candInfo) /\ (candInfo[c + 1].seq # 0 \/ candInfo[c + 1].size[0] # 0))
  OBVIOUS
<1>6. \/ phase' = "dead"
      \/ /\ \/ /\ ~known /\ Selectable(comp, c) /\ comp' = SetTarget(comp, c)
               /\ candInfo' = [Alloc(c + 1) EXCEPT ![c + 1] = cell]
            \/ ~known /\ candInfo' = Alloc(c + 1) /\ comp' = comp
            \/ candInfo' = candInfo /\ comp' = comp
         /\ phase' = phase /\ result' = result /\ fixedNum' = fixedNum /\ fixedYomi' = fixedYomi
         /\ bufStart' = bufStart /\ told' = told
  BY <1>4, <1>5 DEF GetStatus, Die, fixed, buffer
<1>7. CASE phase' = "dead"
  BY <1>7, DeadInv
<1>8. ASSUME phase' = phase, result' = result, fixedNum' = fixedNum, fixedYomi' = fixedYomi,
             bufStart' = bufStart, told' = told, Sound(S, comp'), Known(candInfo', comp', fixedNum, told)
      PROVE  ConvInv'
  <2>1. Held(S, phase', result', fixedNum', fixedYomi') /\ bufStart' \in Nat /\ phase' # "idle"
    BY <1>1, <1>3, <1>8
  <2>2. Known(candInfo', comp', fixedNum', told')
    BY <1>8
  <2>3. S = CharsIn(phase') /\ phase' \in {"idle", "conv", "auto"}
    BY <1>1, <1>2, <1>8
  <2> QED  BY <1>8, <2>1, <2>2, <2>3, InvNext
<1>9. candInfo \in Seq(Cells) /\ told \in SUBSET Nat /\ c + 1 \in Nat /\ c < c + 1 /\ c \in Int
  BY <1>3 DEF Known
<1>10. ASSUME ~known, Selectable(comp, c), comp' = SetTarget(comp, c),
              candInfo' = [Alloc(c + 1) EXCEPT ![c + 1] = cell]
       PROVE  Sound(S, comp') /\ Known(candInfo', comp', fixedNum, told)
  <2>1. Sound(S, comp') /\ SameReadings(comp, comp') /\ Len(comp) \in Nat
    BY <1>3, <1>10, TargetSound
  <2>2. fixedNum \in Nat /\ c >= fixedNum /\ c - fixedNum < Len(comp)
    <3>1. fixedNum \in Nat
      BY <1>3, HeldIs
    <3> QED  BY <1>1, <1>10, <2>1, <3>1 DEF Selectable, Total
  <2>3. PICK i \in Nat : i = c - fixedNum
    BY <2>2
  <2>4. PICK m \in Nat \ {0} : m = AllCands(c) /\ m = NumCands(comp[i + 1].yomi)
    <3>1. NumCands(comp[i + 1].yomi) \in Nat \ {0}
      BY <1>3, <2>2, <2>3, SoundIs
    <3>2. AllCands(c) = NumCands(comp[i + 1].yomi)
      BY <2>3 DEF AllCands
    <3> QED  BY <3>1, <3>2
  <2>5. old = NoInfo
    <3>1. PICK a, d : a = Alloc(c + 1) /\ d = c + 1
      OBVIOUS
    <3>2. d \in Nat /\ d \in 1 .. d
      BY <3>1
    <3>3. \A j \in 1 .. d : a[j] = IF j <= Len(candInfo) THEN candInfo[j] ELSE NoInfo
      BY <1>9, <3>1, <3>2, AllocIs
    <3>4. old = IF d <= Len(candInfo) THEN candInfo[d] ELSE NoInfo
      BY <1>4, <3>1, <3>2, <3>3
    <3>5. PICK l, C : l = Len(candInfo) /\ C = Cells
      OBVIOUS
    <3>6. candInfo \in Seq(C) /\ l \in Nat
      BY <1>9, <3>5
    <3>7. CASE d <= l
      <4>1. d \in 1 .. l /\ c < l
        BY <3>1, <3>2, <3>6, <3>7
      <4>2. candInfo[d] \in C
        BY <3>5, <3>6, <4>1
      <4>3. candInfo[d].seq = 0 /\ candInfo[d].size[0] = 0
        BY <1>5, <1>10, <3>1, <3>5, <4>1
      <4>4. candInfo[d] = NoInfo
        BY <3>5, <4>2, <4>3, EmptyCell
      <4> QED  BY <3>4, <4>4
    <3>8. CASE ~(d <= l)
      BY <3>4, <3>5, <3>8
    <3> QED  BY <3>7, <3>8
  <2>6. cell \in Cells /\ cell = Listed(NoInfo, m)
    BY <1>4, <2>4, <2>5, ListedIs
  <2>7. candInfo' \in Seq(Cells) /\ candInfo'[c + 1] = cell /\ Carries(candInfo', candInfo, c)
    <3>1. Puts(candInfo', candInfo, c + 1, c, cell)
      BY <1>9, <1>10, <2>6, PutIs
    <3> QED  BY <3>1 DEF Puts
  <2>8. fixedNum = 0 => c < Len(comp) /\ ListsClause(candInfo', comp, c)
    <3> SUFFICES ASSUME fixedNum = 0  PROVE c < Len(comp) /\ ListsClause(candInfo', comp, c)
      OBVIOUS
    <3>1. i = c
      BY <2>2, <2>3
    <3>2. c < Len(comp)
      BY <2>2, <2>3, <3>1
    <3>3. candInfo'[c + 1] = Listed(NoInfo, NumCands(comp[c + 1].yomi))
      BY <2>4, <2>6, <2>7, <3>1
    <3> QED  BY <3>2, <3>3 DEF ListsClause
  <2>9. fixedNum = 0 /\ c \in told => c < Len(comp) /\ ListsClause(candInfo', comp, c)
    BY <2>8
  <2>10. told \ {c} \subseteq told
    OBVIOUS
  <2>11. Known(candInfo', comp', fixedNum, told)
    BY <1>3, <1>9, <2>1, <2>7, <2>9, <2>10, KnownAfter
  <2> QED  BY <2>1, <2>11
<1>11. ASSUME candInfo' = Alloc(c + 1), comp' = comp
       PROVE  Sound(S, comp') /\ Known(candInfo', comp', fixedNum, told)
  <2>1. candInfo' \in Seq(Cells) /\ Carries(candInfo', candInfo, -1)
    BY <1>9, <1>11, AllocIs
  <2>2. SameReadings(comp, comp') /\ Len(comp) \in Nat
    BY <1>3, <1>11, SoundIs DEF SameReadings
  <2>3. -1 \in Int /\ told \ {-1} \subseteq told /\ -1 \notin told
    BY <1>9
  <2>4. fixedNum = 0 /\ -1 \in told => -1 < Len(comp) /\ ListsClause(candInfo', comp, -1)
    BY <2>3
  <2>5. Known(candInfo', comp', fixedNum, told)
    BY <1>3, <1>9, <2>1, <2>2, <2>3, <2>4, KnownAfter
  <2> QED  BY <1>3, <1>11, <2>5
<1>12. ASSUME candInfo' = candInfo, comp' = comp
       PROVE  Sound(S, comp') /\ Known(candInfo', comp', fixedNum, told)
  BY <1>3, <1>12
<1> QED  BY <1>6, <1>7, <1>8, <1>10, <1>11, <1>12

LEMMA ResetKeeps ==
  ASSUME Reset
  PROVE  ConvInv'
<1>1. PICK S : S = CharsIn(phase')
  OBVIOUS
<1>2. /\ phase' = "idle" /\ comp' = <<>> /\ result' = <<>> /\ fixedNum' = 0 /\ fixedYomi' = <<>>
      /\ candInfo' = <<>> /\ told' = {} /\ bufStart' = 0
  BY DEF Reset
<1>3. Sound(S, comp')
  BY <1>2, NoneSound
<1>4. Held(S, phase', result', fixedNum', fixedYomi')
  BY <1>2, HeldNone
<1>5. Known(candInfo', comp', fixedNum', told')
  <2>1. candInfo' \in Seq(Cells)
    BY <1>2
  <2> QED  BY <1>2, <2>1, KnownNone
<1> QED  BY <1>1, <1>2, <1>3, <1>4, <1>5, InvNext

LEMMA EndConvKeeps ==
  ASSUME NEW c, NEW n, EndConv(c, n)
  PROVE  ConvInv'
BY ResetKeeps, DeadInv DEF EndConv, Die

LEMMA EndPlainKeeps ==
  ASSUME EndPlain
  PROVE  ConvInv'
BY ResetKeeps DEF EndPlain

LEMMA RestartKeeps ==
  ASSUME Restart
  PROVE  ConvInv'
<1>1. PICK S : S = CharsIn(phase')
  OBVIOUS
<1>2. /\ phase' = "idle" /\ comp' = <<>> /\ result' = <<>> /\ fixedNum' = 0 /\ fixedYomi' = <<>>
      /\ candInfo' = <<>> /\ told' = {} /\ bufStart' = 0
  BY DEF Restart
<1>3. Sound(S, comp')
  BY <1>2, NoneSound
<1>4. Held(S, phase', result', fixedNum', fixedYomi')
  BY <1>2, HeldNone
<1>5. Known(candInfo', comp', fixedNum', told')
  <2>1. candInfo' \in Seq(Cells)
    BY <1>2
  <2> QED  BY <1>2, <2>1, KnownNone
<1> QED  BY <1>1, <1>2, <1>3, <1>4, <1>5, InvNext

LEMMA InitInv ==
  ASSUME CInit
  PROVE  ConvInv
<1>1. PICK S : S = CharsIn(phase)
  OBVIOUS
<1>2. /\ phase = "idle" /\ comp = <<>> /\ result = <<>> /\ fixedNum = 0 /\ fixedYomi = <<>>
      /\ candInfo = <<>> /\ told = {} /\ bufStart = 0
  BY DEF CInit
<1>3. Sound(S, comp)
  BY <1>2, NoneSound
<1>4. Held(S, phase, result, fixedNum, fixedYomi)
  BY <1>2, HeldNone
<1>5. Known(candInfo, comp, fixedNum, told)
  <2>1. candInfo \in Seq(Cells)
    BY <1>2
  <2> QED  BY <1>2, <2>1, KnownNone
<1> QED  BY <1>1, <1>2, <1>3, <1>4, <1>5 DEF ConvInv

\* Nothing that the invariant is about changes.
LEMMA SameKeeps ==
  ASSUME ConvInv, phase' = phase, comp' = comp, result' = result, fixedNum' = fixedNum, fixedYomi' = fixedYomi,
         candInfo' = candInfo, told' = told, bufStart' = bufStart
  PROVE  ConvInv'
BY DEF ConvInv

LEMMA YomiAsked ==
  ASSUME ConvInv, NEW c, GetYomi(c) \/ GetLastYomi \/ UNCHANGED clauseVars
  PROVE  ConvInv'
BY SameKeeps DEF GetYomi, GetLastYomi, clauseVars, imc, fixed, buffer

LEMMA AutoConvKeeps ==
  ASSUME ConvInv, NEW m, AutoConv(m)
  PROVE  ConvInv'
<1>1. /\ phase = "idle" /\ phase' = "auto" /\ comp' = <<>> /\ result' = <<>> /\ bufStart' = 0
      /\ fixedNum' = fixedNum /\ fixedYomi' = fixedYomi /\ candInfo' = candInfo /\ told' = told
  BY DEF AutoConv, fixed
<1>2. PICK S, Z : S = CharsIn(phase) /\ Z = CharsIn(phase')
  OBVIOUS
<1>3. /\ Held(S, phase, result, fixedNum, fixedYomi)
      /\ Known(candInfo, comp, fixedNum, told) /\ told = {}
  BY <1>1, <1>2, InvNow
<1>4. Sound(Z, comp')
  BY <1>1, NoneSound
<1>5. Held(Z, phase', result', fixedNum', fixedYomi')
  <2>1. fixedYomi = <<>>
    BY <1>1, <1>3 DEF Held
  <2>2. fixedNum = 0
    BY <1>3, <2>1 DEF Held
  <2> QED  BY <1>1, <2>1, <2>2, HeldNone
<1>6. Known(candInfo', comp', fixedNum', told')
  <2>1. candInfo' \in Seq(Cells)
    BY <1>1, <1>3 DEF Known
  <2> QED  BY <1>1, <1>3, <2>1, KnownNone
<1> QED  BY <1>1, <1>2, <1>4, <1>5, <1>6, InvNext

LEMMA BeginConvKeeps ==
  ASSUME ConvInv, NEW y \in Inputs, NEW m, BeginConv(y, m)
  PROVE  ConvInv'
<1>1. phase = "idle" /\ y # <<>> /\ told' = {} /\ candInfo' = candInfo /\ bufStart' = bufStart
  BY DEF BeginConv, buffer
<1>2. PICK S : S = Chars
  OBVIOUS
<1>3. S = CharsIn(phase) /\ (phase' \in {"idle", "conv"} => S = CharsIn(phase'))
  BY <1>1, <1>2 DEF CharsIn
<1>4. /\ Held(S, phase, result, fixedNum, fixedYomi)
      /\ Known(candInfo, comp, fixedNum, told) /\ bufStart \in Nat
  BY <1>1, <1>3, InvNow
<1>5. fixedYomi \in Seq(Seq(S)) /\ fixedNum \in Nat /\ fixedYomi = <<>> /\ fixedNum = 0
  <2>1. fixedYomi = <<>>
    BY <1>1, <1>4 DEF Held
  <2>2. fixedNum = 0
    BY <1>4, <2>1 DEF Held
  <2>3. fixedYomi \in Seq(Seq(S)) /\ fixedNum \in Nat
    BY <1>4, HeldIs
  <2> QED  BY <2>1, <2>2, <2>3
<1>6. y \in Seq(S) /\ Whole(y)
  BY <1>2, InputIs
<1>7. Known(candInfo', comp', fixedNum', told')
  <2>1. candInfo' \in Seq(Cells)
    BY <1>1, <1>4 DEF Known
  <2> QED  BY <1>1, <2>1, KnownNone
<1>8. ASSUME phase' \in {"idle", "conv"}, Sound(S, comp'), result' = <<>>, fixedNum' = 0, fixedYomi' = <<>>
      PROVE  ConvInv'
  <2>1. Held(S, phase', result', fixedNum', fixedYomi')
    BY <1>8, HeldNone
  <2> QED  BY <1>1, <1>3, <1>4, <1>7, <1>8, <2>1, InvNext
<1>9. ASSUME phase' = "conv", NEW cls \in Conversions(y), Reply(cls, <<>>, 0)
      PROVE  ConvInv'
  <2>1. comp' = cls /\ result' = <<>> /\ fixedYomi' = fixedYomi /\ fixedNum' = fixedNum
    BY <1>5, <1>9, ReplyPlain
  <2>2. Sound(S, cls)
    BY <1>6, <1>9, ConversionsIs, ReadsSound
  <2> QED  BY <1>5, <1>8, <1>9, <2>1, <2>2
<1>10. ASSUME comp' \in {<<>>, <<Clause(y, "INPUT")>>}, result' = <<>>, phase' = phase, UNCHANGED fixed
       PROVE  ConvInv'
  <2>1. Sound(S, comp')
    <3>1. CASE comp' = <<>>
      BY <3>1, NoneSound
    <3>2. CASE comp' = <<Clause(y, "INPUT")>>
      <4>1. PICK cls, a : cls = <<Clause(y, a)>> /\ a = "INPUT"
        OBVIOUS
      <4>2. a \in Ats
        BY <4>1 DEF Ats
      <4>3. cls \in Seq(ClausesIn(S)) /\ Len(cls) = 1 /\ Yomis(cls) = <<y>>
        BY <1>6, <4>1, <4>2, OneClause
      <4>4. Pieces(Yomis(cls))
        BY <1>1, <1>6, <4>3, OnePiece
      <4>5. ConvertedFirst(cls)
        BY <4>3 DEF ConvertedFirst
      <4> QED  BY <3>2, <4>1, <4>3, <4>4, <4>5 DEF Sound
    <3> QED  BY <1>10, <3>1, <3>2
  <2>2. fixedNum' = 0 /\ fixedYomi' = <<>>
    BY <1>5, <1>10 DEF fixed
  <2> QED  BY <1>1, <1>8, <1>10, <2>1, <2>2
<1> QED  BY <1>9, <1>10 DEF BeginConv

\* A conversion, once something has been begun, takes away what the client
\* held lists of.
LEMMA ConvertedKeeps ==
  ASSUME NEW S, S = CharsIn(phase), phase \in {"conv", "auto"}, phase' = phase,
         Sound(S, comp'), Held(S, phase, result', fixedNum', fixedYomi'),
         candInfo' \in Seq(Cells), told' = {}, bufStart' \in Nat
  PROVE  ConvInv'
<1>1. Known(candInfo', comp', fixedNum', told')
  BY KnownNone
<1>2. S = CharsIn(phase') /\ Held(S, phase', result', fixedNum', fixedYomi') /\ phase' \in {"idle", "conv", "auto"}
  BY Zenon
<1> QED  BY <1>1, <1>2, InvNext

LEMMA ReplyHeld ==
  ASSUME NEW S, NEW cls, NEW from, Held(S, phase, result, fixedNum, fixedYomi), Reply(cls, <<>>, from)
  PROVE  Held(S, phase, result', fixedNum', fixedYomi') /\ comp' = cls /\ result' = <<>>
<1>1. fixedYomi \in Seq(Seq(S)) /\ fixedNum \in Nat
  BY HeldIs
<1>2. comp' = cls /\ result' = <<>> /\ fixedYomi' = fixedYomi /\ fixedNum' = fixedNum
  BY <1>1, ReplyPlain
<1>3. <<>> \in Seq(Seq(S))
  <2>1. PICK R : R = Seq(S)
    OBVIOUS
  <2>2. <<>> \in Seq(R)
    OBVIOUS
  <2> QED  BY <2>1, <2>2
<1>4. Held(S, phase, <<>>, fixedNum, fixedYomi)
  BY <1>3 DEF Held
<1> QED  BY <1>2, <1>4, Zenon

LEMMA FlushYomiKeeps ==
  ASSUME ConvInv, NEW m, FlushYomi(m)
  PROVE  ConvInv'
<1>1. phase = "auto" /\ told' = {} /\ phase' = phase /\ candInfo' = candInfo
  BY DEF FlushYomi
<1>2. PICK S : S = CharsIn(phase)
  OBVIOUS
<1>3. /\ Sound(S, comp) /\ Held(S, phase, result, fixedNum, fixedYomi)
      /\ Known(candInfo, comp, fixedNum, told) /\ bufStart \in Nat
  BY <1>1, <1>2, InvNow
<1>4. candInfo' \in Seq(Cells) /\ phase \in {"conv", "auto"}
  BY <1>1, <1>3 DEF Known
<1>5. result \in Seq(Seq(S)) /\ fixedYomi \in Seq(Seq(S))
  BY <1>3, HeldIs
<1>6. ASSUME NEW cls \in Conversions(Reading(comp)), Reply(cls, <<>>, 0), BufStart(cls, fixedYomi)
      PROVE  ConvInv'
  <2>1. Reading(comp) \in Seq(S) /\ Whole(Reading(comp))
    BY <1>3, SoundIs
  <2>2. Reads(cls, S, Reading(comp))
    BY <2>1, ConversionsIs
  <2>3. Sound(S, cls) /\ cls \in Seq(ClausesIn(S))
    BY <2>2, ReadsSound DEF Sound
  <2>4. Held(S, phase, result', fixedNum', fixedYomi') /\ comp' = cls
    BY <1>3, <1>6, ReplyHeld
  <2>5. bufStart' \in Nat
    BY <1>3, <1>5, <1>6, <2>3, BufStartIs
  <2> QED  BY <1>1, <1>2, <1>4, <2>3, <2>4, <2>5, ConvertedKeeps
<1>7. ASSUME UNCHANGED <<imc, fixed, buffer>>
      PROVE  ConvInv'
  <2>1. /\ comp' = comp /\ result' = result /\ fixedNum' = fixedNum /\ fixedYomi' = fixedYomi
        /\ bufStart' = bufStart
    BY <1>7 DEF imc, fixed, buffer
  <2>2. Held(S, phase, result', fixedNum', fixedYomi') /\ Sound(S, comp') /\ bufStart' \in Nat
    BY <1>3, <2>1
  <2> QED  BY <1>1, <1>2, <1>4, <2>2, ConvertedKeeps
<1>8. ASSUME Reply(comp, result, 0), UNCHANGED buffer
      PROVE  ConvInv'
  <2>1. /\ comp' = comp /\ result' = result /\ fixedYomi' = fixedYomi \o result
        /\ fixedNum' = fixedNum + Len(result) /\ bufStart' = bufStart
    BY <1>8, ReplyIs DEF buffer
  <2>2. phase \notin {"idle", "conv"}
    BY <1>1
  <2>3. Held(S, phase, result, fixedNum + Len(result), fixedYomi \o result)
    BY <1>3, <1>5, <2>2, HeldMore
  <2>4. Held(S, phase, result', fixedNum', fixedYomi') /\ Sound(S, comp') /\ bufStart' \in Nat
    BY <1>3, <2>1, <2>3
  <2> QED  BY <1>1, <1>2, <1>4, <2>4, ConvertedKeeps
<1> QED  BY <1>6, <1>7, <1>8 DEF FlushYomi

\* What RemoveYomi leaves, and, where no clause is fixed, of which reading.
LEMMA RemoveYomiIs ==
  ASSUME ConvInv, NEW c \in Nat, RemoveYomi(c)
  PROVE  ConvInv' /\ (fixedNum = 0 => Reading(comp') = After(c))
<1>1. phase \in {"conv", "auto"} /\ told' = {} /\ phase' = phase /\ c < Total
  BY DEF RemoveYomi
<1>2. PICK S : S = CharsIn(phase)
  OBVIOUS
<1>3. /\ Sound(S, comp) /\ Held(S, phase, result, fixedNum, fixedYomi)
      /\ Known(candInfo, comp, fixedNum, told) /\ bufStart \in Nat
  BY <1>1, <1>2, InvNow
<1>4. candInfo \in Seq(Cells)
  BY <1>3 DEF Known
<1>5. /\ result \in Seq(Seq(S)) /\ fixedYomi \in Seq(Seq(S)) /\ fixedNum = Len(fixedYomi) /\ fixedNum \in Nat
      /\ phase = "conv" => fixedNum = 0
  BY <1>3, HeldIs
<1>6. comp \in Seq(ClausesIn(S)) /\ Pieces(Yomis(comp)) /\ Len(comp) \in Nat
  BY <1>3, SoundIs
<1>7. ASSUME NEW k \in Nat \ {0}  PROVE SubSeq(candInfo, k, Len(candInfo)) \in Seq(Cells)
  <2>1. PICK C, l : C = Cells /\ l = Len(candInfo)
    OBVIOUS
  <2>2. candInfo \in Seq(C) /\ l \in Nat
    BY <1>4, <2>1
  <2>3. SubSeq(candInfo, k, l) \in Seq(C)
    BY <1>7, <2>1, <2>2, PartType
  <2> QED  BY <2>1, <2>3
<1>8. fixedNum \in Nat
  BY <1>3, HeldIs
<1>9. CASE c < fixedNum - 1
  <2>1. /\ fixedYomi' = SubSeq(fixedYomi, c + 2, fixedNum) /\ fixedNum' = fixedNum - (c + 1)
        /\ candInfo' \in {SubSeq(candInfo, c + 2, Len(candInfo)), candInfo}
        /\ comp' = comp /\ result' = result /\ BufStart(comp, fixedYomi')
    BY <1>9 DEF RemoveYomi, imc
  <2>2. fixedNum # 0 /\ phase \notin {"idle", "conv"}
    BY <1>1, <1>5, <1>9
  <2>3. PICK R, n, k : R = Seq(S) /\ n = fixedNum /\ k = c + 1
    OBVIOUS
  <2>4. fixedYomi \in Seq(R) /\ n \in Nat /\ k \in Nat /\ k <= n /\ k + 1 = c + 2 /\ Len(fixedYomi) = n
    BY <1>5, <1>9, <2>3
  <2>5. SubSeq(fixedYomi, k + 1, n) \in Seq(R) /\ Len(SubSeq(fixedYomi, k + 1, n)) = n - k
    <3>1. n <= Len(fixedYomi)
      BY <2>4
    <3> QED  BY <2>4, <3>1, FrontExtended
  <2>6. fixedYomi' \in Seq(R) /\ fixedNum' = Len(fixedYomi')
    <3>1. fixedYomi' = SubSeq(fixedYomi, k + 1, n)
      BY <2>1, <2>3, <2>4
    <3>2. fixedNum' = n - k
      BY <2>1, <2>3
    <3> QED  BY <2>5, <3>1, <3>2
  <2>7. fixedYomi' \in Seq(Seq(S))
    BY <2>3, <2>6
  <2>8. Held(S, phase, result', fixedNum', fixedYomi')
    BY <1>5, <2>1, <2>2, <2>6, <2>7 DEF Held
  <2>9. bufStart' \in Nat
    BY <1>3, <1>6, <2>1, <2>7, BufStartIs
  <2>10. candInfo' \in Seq(Cells)
    <3>1. c + 2 \in Nat \ {0}
      OBVIOUS
    <3> QED  BY <1>4, <1>7, <2>1, <3>1
  <2>11. Sound(S, comp')
    BY <1>3, <2>1
  <2>12. ConvInv'
    BY <1>1, <1>2, <2>8, <2>9, <2>10, <2>11, ConvertedKeeps
  <2> QED  BY <2>2, <2>12
<1>10. CASE ~(c < fixedNum - 1)
  <2>1. PICK own \in Int : own = c - fixedNum
    BY <1>8
  <2>2. PICK k \in Nat : k = own + 1
    BY <1>10, <1>8, <2>1
  <2>3. PICK cls \in Conversions(Appended(k, -1)) :
            /\ comp' = cls /\ result' = <<>> /\ fixedYomi' = <<>> /\ fixedNum' = 0
            /\ candInfo' \in {SubSeq(candInfo, own + 2, Len(candInfo)), candInfo}
            /\ BufStart(cls, <<>>)
    BY <1>10, <2>1, <2>2 DEF RemoveYomi
  <2>4. PICK r : r = Appended(k, -1)
    OBVIOUS
  <2>5. r \in Seq(S) /\ Whole(r)
    BY <1>5, <1>6, <2>4, AppendedIs
  <2>6. Reads(cls, S, r)
    BY <2>3, <2>4, <2>5, ConversionsIs
  <2>7. Sound(S, cls) /\ cls \in Seq(ClausesIn(S))
    BY <2>6, ReadsSound DEF Sound
  <2>8. Held(S, phase, result', fixedNum', fixedYomi')
    BY <2>3, HeldNone
  <2>9. bufStart' \in Nat
    <3>1. PICK fy, R : fy = <<>> /\ R = Seq(S)
      OBVIOUS
    <3>2. fy \in Seq(R)
      BY <3>1
    <3>3. fy \in Seq(Seq(S)) /\ BufStart(cls, fy)
      BY <2>3, <3>1, <3>2
    <3> QED  BY <1>3, <2>7, <3>3, BufStartIs
  <2>10. candInfo' \in Seq(Cells)
    <3>1. own + 2 \in Nat \ {0}
      BY <2>2
    <3> QED  BY <1>4, <1>7, <2>3, <3>1
  <2>11. ConvInv'
    BY <1>1, <1>2, <2>3, <2>7, <2>8, <2>9, <2>10, ConvertedKeeps
  <2>12. ASSUME fixedNum = 0  PROVE Reading(comp') = After(c)
    <3>1. k = c + 1 /\ k <= Len(comp) /\ c < Len(comp)
      BY <1>1, <1>6, <2>1, <2>2, <2>12 DEF Total
    <3>2. r = Reading(Back(comp, k))
      BY <1>5, <1>6, <2>4, <2>12, <3>1, AppendedIs
    <3>3. After(c) = Reading(Back(comp, c + 1))
      BY <1>6, <2>12, <3>1, BeforeIs
    <3>4. Reading(cls) = r
      BY <2>6 DEF Reads
    <3> QED  BY <2>3, <3>1, <3>2, <3>3, <3>4
  <2> QED  BY <2>11, <2>12
<1> QED  BY <1>9, <1>10

---------------------------------------------------------------------------
(* Readings stored.                                                        *)

\* With no clause fixed, what adj_clause leads to has the reading stored, and
\* the clauses before the last of those in front of it.
LEMMA StoreOutcome ==
  ASSUME NEW S, Sound(S, comp), fixedYomi = <<>>, fixedNum = 0, candInfo \in Seq(Cells),
         NEW c \in Nat, c < Len(comp), NEW y \in Seq(S), Whole(y),
         NEW cls \in Conversions(StoredReading(c, y)), NEW s \in Adjust(cls, c, Starts(comp)),
         NEW qs, qs = Replaced(Yomis(comp), c, y), NEW m \in Nat, m = (IF c = 0 THEN 0 ELSE c - 1)
  PROVE  /\ Outcome(s, S, StoredReading(c, y), qs, m)
         /\ s.ok => Fore(Yomis(s.cls), m) = Fore(Yomis(comp), m)
<1>1. PICK ps : ps = Yomis(comp)
  OBVIOUS
<1>2. ps \in Seq(Seq(S)) /\ Pieces(ps) /\ Len(ps) = Len(comp) /\ comp \in Seq(ClausesIn(S)) /\ Len(comp) \in Nat
  BY <1>1, SoundIs
<1>3. PICK r : r = StoredReading(c, y)
  OBVIOUS
<1>4. r = FlattenSeq(qs) /\ r \in Seq(S) /\ Whole(r)
  BY <1>3, StoredIs
<1>5. c < Len(ps) /\ qs = Replaced(ps, c, y)
  BY <1>1, <1>2
<1>6. qs \in Seq(Seq(S)) /\ Pieces(qs) /\ c <= Len(qs) /\ \A k \in Nat : k <= c => Fore(qs, k) = Fore(ps, k)
  BY <1>2, <1>5, ReplacedIs
<1>7. Reads(cls, S, r)
  BY <1>3, <1>4, ConversionsIs
<1>8. Len(qs) \in Nat
  <2>1. PICK R : R = Seq(S)
    OBVIOUS
  <2>2. qs \in Seq(R)
    BY <1>6, <2>1
  <2> QED  BY <2>2
<1>9. StartsOf(Starts(comp), qs, c)
  <2> SUFFICES ASSUME NEW j \in Nat, j + 1 < c  PROVE Starts(comp)[j + 2] = Len(Text(qs, j + 1))
    BY DEF StartsOf
  <2>1. PICK k \in Nat : k = j + 1
    OBVIOUS
  <2>2. k <= c /\ k <= Len(comp) /\ k + 1 = j + 2 /\ k + 1 \in 1 .. Len(comp) + 1 /\ (k + 1) - 1 = k
    BY <1>2, <2>1
  <2>3. Starts(comp)[k + 1] = Start(comp, k)
    BY <2>2 DEF Starts
  <2>4. Start(comp, k) = Len(Reading(Fore(comp, k)))
    BY DEF Start, Fore
  <2>5. Reading(Fore(comp, k)) = Text(ps, k)
    BY <1>1, <1>2, <2>2, FrontReading
  <2>6. Text(ps, k) = Text(qs, k)
    <3>1. Fore(qs, k) = Fore(ps, k)
      BY <1>6, <2>2
    <3> QED  BY <3>1 DEF Text
  <2>7. Starts(comp)[k + 1] = Len(Text(qs, k))
    BY <2>3, <2>4, <2>5, <2>6
  <2> QED  BY <2>1, <2>2, <2>7
<1>10. c <= Len(qs) + 1
  BY <1>6, <1>8
<1>11. Outcome(s, S, r, qs, m)
  BY <1>4, <1>6, <1>7, <1>9, <1>10, AdjustIs
<1>12. ASSUME s.ok  PROVE Fore(Yomis(s.cls), m) = Fore(Yomis(comp), m)
  <2>1. Fore(Yomis(s.cls), m) = Fore(qs, m)
    BY <1>11, <1>12 DEF Outcome, Agrees
  <2>2. m <= c
    OBVIOUS
  <2>3. Fore(qs, m) = Fore(ps, m)
    BY <1>6, <2>2
  <2> QED  BY <1>1, <2>1, <2>3
<1> QED  BY <1>3, <1>11, <1>12

\* A sequence has nothing up to what comes before its first.
LEMMA NothingBefore ==
  ASSUME NEW S, NEW s \in Seq(S), NEW m \in Int, m < 1
  PROVE  SubSeq(s, 1, m) = <<>>
<1>1. SubSeq(s, 1, m) \in Seq(S) /\ Len(SubSeq(s, 1, m)) = 0
  <2>1. \A i \in 1 .. m : s[i] \in S
    OBVIOUS
  <2> QED  BY <2>1, SubSeqProperties
<1> QED  BY <1>1, EmptySeq

\* In automatic mode too the outcomes of adj_clause, asked for nothing, are
\* sound: there are no marks that a clause could begin with.
LEMMA StoreWithFixed ==
  ASSUME phase = "auto", NEW S, S = CharsIn(phase), Sound(S, comp), fixedYomi \in Seq(Seq(S)),
         fixedNum = Len(fixedYomi), candInfo \in Seq(Cells), NEW y \in Seq(S),
         NEW cls \in Conversions(StoredReading(0, y)), NEW s \in Adjust(cls, 0, Starts(comp))
  PROVE  Sound(S, s.cls) /\ s.info \in Seq(Cells)
<1>1. PICK r : r = StoredReading(0, y)
  OBVIOUS
<1>2. r \in Seq(S)
  BY <1>1, StoredType
<1>3. Whole(r)
  BY <1>2, WholeWithoutMarks DEF CharsIn
<1>4. Reads(cls, S, r)
  BY <1>1, <1>2, <1>3, ConversionsIs
<1>5. PICK qs : qs = Yomis(cls)
  OBVIOUS
<1>6. qs \in Seq(Seq(S)) /\ Pieces(qs) /\ FlattenSeq(qs) = r
  BY <1>4, <1>5, YomisIs DEF Reads, Reading
<1>7. 0 <= Len(qs) + 1
  <2>1. PICK R : R = Seq(S)
    OBVIOUS
  <2>2. qs \in Seq(R)
    BY <1>6, <2>1
  <2> QED  BY <2>2
<1>8. StartsOf(Starts(comp), qs, 0)
  BY DEF StartsOf
<1>9. Outcome(s, S, r, qs, 0)
  <2>1. PICK n \in Nat : n = 0
    OBVIOUS
  <2>2. s \in Adjust(cls, n, Starts(comp)) /\ StartsOf(Starts(comp), qs, n) /\ n <= Len(qs) + 1
    BY <1>7, <1>8, <2>1
  <2>3. n = (IF n = 0 THEN 0 ELSE n - 1)
    BY <2>1
  <2>4. Outcome(s, S, r, qs, n)
    BY <1>4, <1>6, <2>2, <2>3, AdjustIs
  <2> QED  BY <2>1, <2>4
<1> QED  BY <1>9, ReadsSound DEF Outcome

\* The reading of clause c is the one stored, and those in front of the one
\* before it are as they were.
Stored(c, y) == /\ Reading(comp') = (Before(c) \o y) \o After(c)
                /\ SubSeq(Yomis(comp'), 1, c - 1) = SubSeq(Yomis(comp), 1, c - 1)

LEMMA StoreYomiIs ==
  ASSUME ConvInv, NEW c \in Nat, NEW y \in Inputs, StoreYomi(c, y)
  PROVE  ConvInv' /\ (fixedNum = 0 /\ phase' # "dead" /\ answer' # -1 => Stored(c, y))
<1>1. phase \in {"conv", "auto"} /\ told' = {} /\ c < Total /\ Typable(y)
  BY DEF StoreYomi, Settled
<1>2. PICK S : S = CharsIn(phase)
  OBVIOUS
<1>3. /\ Sound(S, comp) /\ Held(S, phase, result, fixedNum, fixedYomi)
      /\ Known(candInfo, comp, fixedNum, told) /\ bufStart \in Nat
  BY <1>1, <1>2, InvNow
<1>4. candInfo \in Seq(Cells)
  BY <1>3 DEF Known
<1>5. /\ fixedYomi \in Seq(Seq(S)) /\ fixedNum = Len(fixedYomi) /\ fixedNum \in Nat
      /\ fixedNum = 0 => fixedYomi = <<>>
      /\ phase = "conv" => fixedNum = 0
  BY <1>3, HeldIs
<1>6. fixedNum \in Nat
  BY <1>5
<1>7. comp \in Seq(ClausesIn(S)) /\ Len(comp) \in Nat /\ y \in Seq(S) /\ Whole(y)
  BY <1>1, <1>2, <1>3, SoundIs, InputIs
<1>8. fixedNum = 0 => c < Len(comp)
  BY <1>1, <1>7 DEF Total
<1>9. ASSUME NEW cls, Sound(S, cls), Held(S, phase, result', fixedNum', fixedYomi'), comp' = cls,
             BufStart(cls, fixedYomi), candInfo' \in Seq(Cells), phase' = phase
      PROVE  ConvInv'
  <2>1. bufStart' \in Nat
    <3>1. cls \in Seq(ClausesIn(S))
      BY <1>9 DEF Sound
    <3> QED  BY <1>3, <1>5, <1>9, <3>1, BufStartIs
  <2> QED  BY <1>1, <1>2, <1>9, <2>1, ConvertedKeeps
<1>10. CASE Len(comp) = 1 /\ y = <<>>
  <2>1. Reply(<<>>, <<>>, 0) /\ BufStart(<<>>, fixedYomi) /\ phase' = phase /\ candInfo' = candInfo
    BY <1>10 DEF StoreYomi
  <2>2. PICK none : none = <<>>
    OBVIOUS
  <2>3. Sound(S, none) /\ Reading(none) = <<>> /\ Yomis(none) = <<>>
    BY <2>2, NoneSound
  <2>4. Reply(none, <<>>, 0) /\ BufStart(none, fixedYomi)
    BY <2>1, <2>2, Zenon
  <2>5. Held(S, phase, result', fixedNum', fixedYomi') /\ comp' = none
    BY <1>3, <2>4, ReplyHeld
  <2>6. ConvInv'
    BY <1>4, <1>9, <2>1, <2>3, <2>4, <2>5
  <2>7. ASSUME fixedNum = 0  PROVE Stored(c, y)
    <3>1. c = 0
      BY <1>8, <1>10, <2>7
    <3>2. Before(c) = <<>> /\ After(c) = <<>>
      <4>1. PICK C : C = ClausesIn(S)
        OBVIOUS
      <4>2. comp \in Seq(C) /\ Len(comp) = 1
        BY <1>7, <1>10, <4>1
      <4>3. Fore(comp, 0) = <<>> /\ Back(comp, 1) = <<>>
        BY <4>2, FrontAll
      <4>4. Before(c) = Reading(Fore(comp, 0))
        BY <3>1 DEF Before, Fore
      <4>5. After(c) = Reading(Back(comp, 1))
        BY <3>1 DEF After, Back
      <4> QED  BY <2>2, <2>3, <4>3, <4>4, <4>5
    <3>3. (<<>> \o <<>>) \o <<>> = <<>>
      OBVIOUS
    <3>4. Reading(comp') = (Before(c) \o y) \o After(c)
      BY <1>10, <2>3, <2>5, <3>2, <3>3, Zenon
    <3>5. SubSeq(Yomis(comp'), 1, c - 1) = <<>> /\ SubSeq(Yomis(comp), 1, c - 1) = <<>>
      <4>1. PICK R, m : R = Seq(S) /\ m = c - 1
        OBVIOUS
      <4>2. m \in Int /\ m < 1
        BY <3>1, <4>1
      <4>3. Yomis(comp) \in Seq(R)
        BY <1>3, <4>1, SoundIs
      <4>4. Yomis(comp') = <<>> /\ <<>> \in Seq(R)
        BY <2>3, <2>5
      <4>5. SubSeq(Yomis(comp), 1, m) = <<>> /\ SubSeq(Yomis(comp'), 1, m) = <<>>
        BY <4>2, <4>3, <4>4, NothingBefore
      <4> QED  BY <4>1, <4>5
    <3> QED  BY <3>4, <3>5 DEF Stored
  <2> QED  BY <2>6, <2>7
<1>11. ASSUME Refused, BufStart(<<>>, fixedYomi), phase' = phase
       PROVE  ConvInv' /\ answer' = -1
  <2>1. comp' = <<>> /\ result' = <<>> /\ answer' = -1 /\ fixedNum' = fixedNum /\ fixedYomi' = fixedYomi
        /\ candInfo' = candInfo
    BY <1>11 DEF Refused, Fail, fixed
  <2>2. PICK none : none = <<>>
    OBVIOUS
  <2>3. Sound(S, none) /\ BufStart(none, fixedYomi)
    BY <1>11, <2>2, NoneSound
  <2>4. Held(S, phase, none, fixedNum, fixedYomi)
    <3>1. PICK R : R = Seq(S)
      OBVIOUS
    <3>2. none \in Seq(R)
      BY <2>2
    <3>3. phase \notin {"idle", "conv"} \/ fixedYomi = <<>>
      BY <1>3 DEF Held
    <3> QED  BY <1>5, <2>2, <3>1, <3>2, <3>3 DEF Held
  <2>5. Held(S, phase, result', fixedNum', fixedYomi') /\ comp' = none
    BY <2>1, <2>2, <2>4
  <2> QED  BY <1>4, <1>9, <1>11, <2>1, <2>3, <2>5
<1>12. ASSUME NEW cls \in Conversions(StoredReading(c, y)), NEW s \in Adjust(cls, c, Starts(comp)),
              fixedNum = 0 \/ c = 0, candInfo' = s.info, phase' = phase, BufStart(s.cls, fixedYomi),
              IF s.ok THEN Reply(s.cls, <<>>, 0) ELSE comp' = s.cls /\ result' = <<>> /\ Fail /\ UNCHANGED fixed
       PROVE  ConvInv' /\ (fixedNum = 0 /\ answer' # -1 => Stored(c, y))
  <2>1. PICK d : d = s.cls
    OBVIOUS
  <2>2. Held(S, phase, result', fixedNum', fixedYomi') /\ comp' = d
    <3>1. CASE s.ok
      BY <1>3, <1>12, <2>1, <3>1, ReplyHeld
    <3>2. CASE ~s.ok
      <4>1. comp' = d /\ result' = <<>> /\ fixedNum' = fixedNum /\ fixedYomi' = fixedYomi
        BY <1>12, <2>1, <3>2 DEF fixed
      <4>2. PICK none, R : none = <<>> /\ R = Seq(S)
        OBVIOUS
      <4>3. none \in Seq(R) /\ (phase \notin {"idle", "conv"} \/ fixedYomi = <<>>)
        BY <1>3, <4>2 DEF Held
      <4>4. Held(S, phase, none, fixedNum, fixedYomi)
        BY <1>5, <4>2, <4>3 DEF Held
      <4> QED  BY <4>1, <4>2, <4>4
    <3> QED  BY <3>1, <3>2
  <2>3. PICK m \in Nat : m = (IF c = 0 THEN 0 ELSE c - 1)
    OBVIOUS
  <2>4. ASSUME fixedNum = 0
        PROVE  /\ Outcome(s, S, StoredReading(c, y), Replaced(Yomis(comp), c, y), m)
               /\ s.ok => Fore(Yomis(d), m) = Fore(Yomis(comp), m)
    BY <1>3, <1>4, <1>5, <1>7, <1>8, <1>12, <2>1, <2>3, <2>4, StoreOutcome
  <2>5. Sound(S, d) /\ s.info \in Seq(Cells)
    <3>1. CASE fixedNum = 0
      BY <2>1, <2>4, <3>1, ReadsSound DEF Outcome
    <3>2. CASE fixedNum # 0
      <4>1. c = 0 /\ phase = "auto"
        BY <1>1, <1>5, <1>12, <3>2
      <4>2. cls \in Conversions(StoredReading(0, y)) /\ s \in Adjust(cls, 0, Starts(comp))
        BY <1>12, <4>1
      <4> QED  BY <1>2, <1>3, <1>4, <1>5, <1>7, <2>1, <4>1, <4>2, StoreWithFixed
    <3> QED  BY <3>1, <3>2
  <2>6. ConvInv'
    BY <1>9, <1>12, <2>1, <2>2, <2>5
  <2>7. ASSUME fixedNum = 0, answer' # -1  PROVE Stored(c, y)
    <3>1. s.ok
      BY <1>12, <2>7 DEF Fail
    <3>2. Reading(d) = StoredReading(c, y) /\ Fore(Yomis(d), m) = Fore(Yomis(comp), m)
      BY <2>1, <2>4, <2>7, <3>1 DEF Outcome, Reads
    <3>3. StoredReading(c, y) = (Before(c) \o y) \o After(c)
      BY <1>3, <1>5, <1>7, <1>8, <2>7, StoredIs
    <3>4. SubSeq(Yomis(d), 1, c - 1) = SubSeq(Yomis(comp), 1, c - 1)
      <4>1. CASE c = 0
        <5>1. PICK R, n : R = Seq(S) /\ n = c - 1
          OBVIOUS
        <5>2. n \in Int /\ n < 1
          BY <4>1, <5>1
        <5>3. Yomis(comp) \in Seq(R) /\ Yomis(d) \in Seq(R)
          BY <1>3, <2>5, <5>1, SoundIs
        <5>4. SubSeq(Yomis(comp), 1, n) = <<>> /\ SubSeq(Yomis(d), 1, n) = <<>>
          BY <5>2, <5>3, NothingBefore
        <5> QED  BY <5>1, <5>4
      <4>2. CASE c # 0
        <5>1. m = c - 1
          BY <2>3, <4>2
        <5> QED  BY <3>2, <5>1 DEF Fore
      <4> QED  BY <4>1, <4>2
    <3> QED  BY <2>2, <3>2, <3>3, <3>4 DEF Stored
  <2> QED  BY <2>6, <2>7
<1>13. ASSUME phase' = "dead"  PROVE ConvInv'
  BY <1>13, DeadInv
<1> QED
  <2>1. CASE ~(Len(comp) = 1 /\ y = <<>>)
    <3>1. \/ Refused /\ BufStart(<<>>, fixedYomi) /\ phase' = phase
          \/ phase' = "dead"
          \/ /\ fixedNum = 0 \/ c = 0
             /\ \E cls \in Conversions(StoredReading(c, y)) : \E s \in Adjust(cls, c, Starts(comp)) :
                  /\ IF s.ok THEN Reply(s.cls, <<>>, 0)
                     ELSE comp' = s.cls /\ result' = <<>> /\ Fail /\ UNCHANGED fixed
                  /\ BufStart(s.cls, fixedYomi)
                  /\ candInfo' = s.info
             /\ phase' = phase
      BY <2>1, Zenon DEF StoreYomi
    <3> QED  BY <1>11, <1>12, <1>13, <3>1
  <2> QED  BY <1>10, <2>1

\* Pieces that agree with all those of a reading are those.
LEMMA AgreesWithAll ==
  ASSUME NEW S, NEW us \in Seq(Seq(S)), Pieces(us), NEW qs \in Seq(Seq(S)), FlattenSeq(us) = FlattenSeq(qs),
         NEW m \in Nat, m = Len(qs), m <= Len(us), Fore(us, m) = Fore(qs, m)
  PROVE  us = qs
<1>1. PICK R : R = Seq(S)
  OBVIOUS
<1>2. us \in Seq(R) /\ qs \in Seq(R)
  BY <1>1
<1>3. Fore(qs, m) = qs /\ Fore(us, Len(us)) = us /\ Len(us) \in Nat
  BY <1>2, FrontAll
<1>4. Text(us, m) = FlattenSeq(us)
  BY <1>3 DEF Text
<1>5. ~(m < Len(us))
  BY <1>4, TextFits
<1>6. m = Len(us)
  BY <1>3, <1>5
<1> QED  BY <1>3, <1>6

\* The starts that StoreRange restores: those after the clause are shifted.
ShiftedStarts(c, diff) == [i \in 1 .. Len(comp) + 1 |-> Start(comp, i - 1) + (IF i > c + 1 THEN diff ELSE 0)]

LEMMA RangeOutcome ==
  ASSUME NEW S, Sound(S, comp), fixedYomi = <<>>, fixedNum = 0, candInfo \in Seq(Cells),
         NEW c \in Nat, c < Len(comp), NEW y \in Seq(S), Whole(y), y # <<>>,
         NEW diff, diff = Len(y) - Len(comp[c + 1].yomi),
         NEW cls \in Conversions(StoredReading(c, y)),
         NEW s \in Adjust(cls, Len(comp) + 1, ShiftedStarts(c, diff))
  PROVE  /\ Sound(S, s.cls) /\ s.info \in Seq(Cells)
         /\ s.ok => Yomis(s.cls) = [Yomis(comp) EXCEPT ![c + 1] = y]
<1>1. PICK ps : ps = Yomis(comp)
  OBVIOUS
<1>2. /\ ps \in Seq(Seq(S)) /\ Pieces(ps) /\ Len(ps) = Len(comp) /\ comp \in Seq(ClausesIn(S)) /\ Len(comp) \in Nat
      /\ ps[c + 1] = comp[c + 1].yomi
  <2>1. \A i \in 1 .. Len(comp) : ps[i] = comp[i].yomi
    BY <1>1, SoundIs, YomisIs
  <2>2. Len(comp) \in Nat
    BY SoundIs
  <2>3. c + 1 \in 1 .. Len(comp)
    BY <2>2
  <2> QED  BY <1>1, <2>1, <2>3, SoundIs
<1>3. PICK r, qs : r = StoredReading(c, y) /\ qs = Replaced(ps, c, y)
  OBVIOUS
<1>4. r = FlattenSeq(qs) /\ r \in Seq(S) /\ Whole(r)
  BY <1>1, <1>3, StoredIs
<1>5. qs \in Seq(Seq(S)) /\ Pieces(qs)
  BY <1>2, <1>3, ReplacedIs
<1>6. qs = [ps EXCEPT ![c + 1] = y]
  <2>1. PICK R : R = Seq(S)
    OBVIOUS
  <2>2. ps \in Seq(R) /\ y \in R /\ c < Len(ps)
    BY <1>2, <2>1
  <2> QED  BY <1>3, <2>2, ReplacedExcept
<1>7. Len(qs) = Len(ps)
  <2>1. PICK R : R = Seq(S)
    OBVIOUS
  <2>2. ps \in Seq(R) /\ y \in R
    BY <1>2, <2>1
  <2> QED  BY <1>6, <2>2
<1>8. Shifts(ps, qs, c, diff)
  <2>1. diff = Len(y) - Len(ps[c + 1]) /\ c < Len(ps)
    BY <1>2
  <2>2. ps \in Seq(Seq(S)) /\ Pieces(ps)
    BY <1>2
  <2>3. Changed(ps, qs, c, y, diff)
    BY <1>6, <2>1, Zenon DEF Changed
  <2> QED  BY <1>5, <2>1, <2>2, <2>3, TextShifted
<1>9. Reads(cls, S, r)
  BY <1>3, <1>4, ConversionsIs
<1>10. PICK end, old : end = Len(comp) + 1 /\ end \in Nat /\ old = ShiftedStarts(c, diff)
  BY <1>2
<1>11. StartsOf(old, qs, end)
  <2> SUFFICES ASSUME NEW j \in Nat, j + 1 < end  PROVE old[j + 2] = Len(Text(qs, j + 1))
    BY DEF StartsOf
  <2>1. PICK k \in Nat : k = j + 1
    OBVIOUS
  <2>2. /\ k <= Len(comp) /\ k + 1 = j + 2 /\ k + 1 \in 1 .. Len(comp) + 1 /\ (k + 1) - 1 = k
        /\ (k + 1 > c + 1) <=> (k > c)
    <3>1. k + 1 = j + 2 /\ (k + 1) - 1 = k /\ k + 1 >= 1
      BY <2>1
    <3>2. k <= Len(comp)
      BY <1>2, <1>10, <2>1
    <3>3. k + 1 \in 1 .. Len(comp) + 1
      BY <1>2, <2>1, <3>1, <3>2
    <3>4. (k + 1 > c + 1) <=> (k > c)
      BY <2>1
    <3> QED  BY <3>1, <3>2, <3>3, <3>4
  <2>3. old[k + 1] = Start(comp, k) + (IF k > c THEN diff ELSE 0)
    BY <1>10, <2>2 DEF ShiftedStarts
  <2>4. Start(comp, k) = Len(Text(ps, k))
    <3>1. Reading(Fore(comp, k)) = Text(ps, k)
      BY <1>1, <1>2, <2>2, FrontReading
    <3> QED  BY <3>1 DEF Start, Fore
  <2>5. Len(Text(qs, k)) = Len(Text(ps, k)) + (IF k > c THEN diff ELSE 0)
    BY <1>2, <1>8, <2>2 DEF Shifts
  <2>6. old[k + 1] = Len(Text(qs, k))
    BY <2>3, <2>4, <2>5, Zenon
  <2> QED  BY <2>1, <2>2, <2>6
<1>12. PICK m \in Nat : m = Len(comp) /\ m = (IF end = 0 THEN 0 ELSE end - 1)
  BY <1>2, <1>10
<1>13. Outcome(s, S, r, qs, m)
  <2>1. end \in Nat /\ end <= Len(qs) + 1 /\ s \in Adjust(cls, end, old)
    BY <1>2, <1>7, <1>10
  <2>2. FlattenSeq(qs) = r /\ candInfo \in Seq(Cells)
    BY <1>4
  <2>3. m \in Nat /\ m = (IF end = 0 THEN 0 ELSE end - 1)
    BY <1>12
  <2> QED  BY <1>5, <1>9, <1>11, <2>1, <2>2, <2>3, AdjustIs
<1>14. PICK d : d = s.cls
  OBVIOUS
<1>15. Reads(d, S, r) /\ s.info \in Seq(Cells) /\ (s.ok => Agrees(d, qs, m))
  BY <1>13, <1>14 DEF Outcome
<1>16. Sound(S, d)
  BY <1>15, ReadsSound
<1>17. ASSUME s.ok  PROVE Yomis(d) = qs
  <2>1. PICK us : us = Yomis(d)
    OBVIOUS
  <2>2. us \in Seq(Seq(S)) /\ Pieces(us) /\ Len(us) = Len(d) /\ FlattenSeq(us) = r
    BY <1>15, <1>16, <2>1, SoundIs DEF Reads, Reading
  <2>3. m <= Len(us) /\ Fore(us, m) = Fore(qs, m)
    BY <1>15, <1>17, <2>1, <2>2 DEF Agrees
  <2>4. m = Len(qs)
    BY <1>2, <1>7, <1>12
  <2> QED  BY <1>4, <1>5, <2>1, <2>2, <2>3, <2>4, AgreesWithAll
<1> QED  BY <1>1, <1>6, <1>14, <1>15, <1>16, <1>17

LEMMA StoreRangeIs ==
  ASSUME ConvInv, NEW c \in Nat, NEW y \in Inputs, StoreRange(c, y)
  PROVE  ConvInv' /\ (answer' # -1 => Yomis(comp') = [Yomis(comp) EXCEPT ![c + 1] = y])
<1>1. phase = "conv" /\ told' = {} /\ c < Total /\ y # <<>> /\ phase' = phase
      /\ fixedNum' = fixedNum /\ fixedYomi' = fixedYomi
  BY DEF StoreRange, fixed
<1>2. PICK S : S = CharsIn(phase)
  OBVIOUS
<1>3. /\ Sound(S, comp) /\ Held(S, phase, result, fixedNum, fixedYomi)
      /\ Known(candInfo, comp, fixedNum, told) /\ bufStart \in Nat
  BY <1>1, <1>2, InvNow
<1>4. candInfo \in Seq(Cells)
  BY <1>3 DEF Known
<1>5. fixedNum = 0 /\ fixedYomi = <<>>
  BY <1>1, <1>3, HeldIs
<1>6. Typable(y)
  BY <1>1 DEF Typable
<1>7. comp \in Seq(ClausesIn(S)) /\ Len(comp) \in Nat /\ y \in Seq(S) /\ Whole(y)
  BY <1>2, <1>3, <1>6, SoundIs, InputIs
<1>8. c < Len(comp)
  BY <1>1, <1>5, <1>7 DEF Total
<1>9. ASSUME NEW cls, Sound(S, cls), comp' = cls, result' = <<>>,
             BufStart(cls, fixedYomi), candInfo' \in Seq(Cells)
      PROVE  ConvInv'
  <2>1. bufStart' \in Nat
    <3>1. cls \in Seq(ClausesIn(S))
      BY <1>9 DEF Sound
    <3>2. fixedYomi \in Seq(Seq(S))
      BY <1>3, HeldIs
    <3> QED  BY <1>3, <1>9, <3>1, <3>2, BufStartIs
  <2>2. Held(S, phase, result', fixedNum', fixedYomi')
    BY <1>1, <1>5, <1>9, HeldNone
  <2> QED  BY <1>1, <1>2, <1>9, <2>1, <2>2, ConvertedKeeps
<1>10. ASSUME Refused, BufStart(<<>>, fixedYomi)  PROVE ConvInv' /\ answer' = -1
  <2>1. comp' = <<>> /\ result' = <<>> /\ answer' = -1 /\ candInfo' = candInfo
    BY <1>10 DEF Refused, Fail
  <2>2. PICK none : none = <<>>
    OBVIOUS
  <2>3. Sound(S, none) /\ BufStart(none, fixedYomi)
    BY <1>10, <2>2, NoneSound
  <2> QED  BY <1>4, <1>9, <2>1, <2>2, <2>3
<1>11. PICK diff : diff = Len(y) - Len(comp[c + 1].yomi)
  OBVIOUS
<1>12. ASSUME NEW cls \in Conversions(StoredReading(c, y)),
              NEW s \in Adjust(cls, Len(comp) + 1, ShiftedStarts(c, diff)),
              comp' = s.cls, result' = <<>>, candInfo' = s.info,
              answer' = (IF s.ok THEN ZenLen(y) ELSE -1), BufStart(s.cls, fixedYomi)
       PROVE  ConvInv' /\ (answer' # -1 => Yomis(comp') = [Yomis(comp) EXCEPT ![c + 1] = y])
  <2>1. /\ Sound(S, s.cls) /\ s.info \in Seq(Cells)
        /\ s.ok => Yomis(s.cls) = [Yomis(comp) EXCEPT ![c + 1] = y]
    BY <1>1, <1>3, <1>4, <1>5, <1>7, <1>8, <1>11, <1>12, RangeOutcome
  <2>2. ConvInv'
    BY <1>9, <1>12, <2>1
  <2>3. answer' # -1 => s.ok
    BY <1>12
  <2> QED  BY <1>12, <2>1, <2>2, <2>3
<1>13. \/ Refused /\ BufStart(<<>>, fixedYomi)
       \/ \E cls \in Conversions(StoredReading(c, y)) :
             \E s \in Adjust(cls, Len(comp) + 1, ShiftedStarts(c, diff)) :
                /\ comp' = s.cls /\ result' = <<>>
                /\ candInfo' = s.info
                /\ answer' = (IF s.ok THEN ZenLen(y) ELSE -1) /\ BufStart(s.cls, fixedYomi)
  BY <1>11, Zenon DEF StoreRange, ShiftedStarts
<1> QED  BY <1>10, <1>12, <1>13

---------------------------------------------------------------------------
(* A clause given another length.                                          *)

\* What ClauseStr gives is a reading.
LEMMA ClauseStrType ==
  ASSUME NEW S, comp \in Seq(ClausesIn(S)), fixedYomi \in Seq(Seq(S)), fixedNum = Len(fixedYomi),
         NEW a \in Nat, NEW b \in Int, NEW y \in ClauseStr(a, b)
  PROVE  y \in Seq(S)
<1>1. PICK R, fy : R = Seq(S) /\ fy = fixedYomi
  OBVIOUS
<1>2. fy \in Seq(R) /\ fixedNum = Len(fy) /\ fixedNum \in Nat
  BY <1>1
<1>3. FixedStr(a, b) \in Seq(S)
  <2>1. PICK n \in Int : n = (IF b < fixedNum THEN b ELSE fixedNum) /\ n <= Len(fy)
    BY <1>2
  <2>2. a + 1 \in Nat \ {0}
    OBVIOUS
  <2>3. SubSeq(fy, a + 1, n) \in Seq(R)
    BY <1>2, <2>1, <2>2, PartType
  <2>4. FlattenSeq(SubSeq(fy, a + 1, n)) \in Seq(S)
    BY <1>1, <2>3, FlattenType
  <2> QED  BY <1>1, <2>1, <2>4 DEF FixedStr
<1>4. ASSUME NEW z \in ImcClauseStr(a - fixedNum, b - fixedNum)
      PROVE  z \in Seq(S)
  <2>1. PICK k, e, l : k = a - fixedNum /\ e = b - fixedNum /\ l = Len(comp)
    OBVIOUS
  <2>2. l \in Nat /\ k \in Int /\ e \in Int
    <3>1. PICK C : C = ClausesIn(S)
      OBVIOUS
    <3>2. comp \in Seq(C)
      BY <3>1
    <3>3. Len(comp) \in Nat
      BY <3>2
    <3>4. a - fixedNum \in Int /\ b - fixedNum \in Int
      BY <1>2
    <3> QED  BY <2>1, <3>3, <3>4
  <2>3. PICK end : end = IF e < 0 THEN Len(comp) ELSE e
    OBVIOUS
  <2>4. ~(k < 0 \/ k > Len(comp) \/ end > Len(comp) \/ k = end) /\ z = Reading(SubSeq(comp, k + 1, end))
    BY <1>4, <2>1, <2>3 DEF ImcClauseStr
  <2>5. k + 1 \in Nat \ {0} /\ end \in Int /\ end <= Len(comp)
    BY <2>1, <2>2, <2>3, <2>4
  <2>6. SubSeq(comp, k + 1, end) \in Seq(ClausesIn(S))
    <3>1. PICK C : C = ClausesIn(S)
      OBVIOUS
    <3>2. comp \in Seq(C)
      BY <3>1
    <3>3. SubSeq(comp, k + 1, end) \in Seq(C)
      BY <2>5, <3>2, PartType
    <3> QED  BY <3>1, <3>3
  <2> QED  BY <2>4, <2>6, ReadingType
<1>5. CASE b > 0 /\ b <= fixedNum
  BY <1>3, <1>5 DEF ClauseStr
<1>6. CASE ~(b > 0 /\ b <= fixedNum)
  <2>1. PICK z \in ImcClauseStr(a - fixedNum, b - fixedNum) : y = FixedStr(a, b) \o z
    BY <1>6 DEF ClauseStr
  <2>2. z \in Seq(S)
    BY <1>4
  <2> QED  BY <1>3, <2>1, <2>2, ConcatProperties
<1> QED  BY <1>5, <1>6

LEMMA CombinedLenIs ==
  ASSUME NEW S, comp \in Seq(ClausesIn(S)), fixedYomi \in Seq(Seq(S)), fixedNum = Len(fixedYomi),
         NEW a \in Nat, NEW b \in Int
  PROVE  CombinedLen(ClauseStr(a, b)) \in Nat
<1>1. CASE ClauseStr(a, b) = {}
  BY <1>1 DEF CombinedLen
<1>2. CASE ClauseStr(a, b) # {}
  <2>1. PICK y : y = CHOOSE z \in ClauseStr(a, b) : TRUE
    OBVIOUS
  <2>2. y \in ClauseStr(a, b)
    BY <1>2, <2>1
  <2>3. y \in Seq(S)
    BY <2>2, ClauseStrType
  <2>4. ZenLen(y) \in Nat
    BY <2>3, ZenLenIs
  <2> QED  BY <1>2, <2>1, <2>4 DEF CombinedLen
<1> QED  BY <1>1, <1>2

\* What is known of clauses stays so while they keep their readings and cells.
LEMMA KnownKept ==
  ASSUME NEW ci, NEW cls, NEW fn, NEW tl, Known(ci, cls, fn, tl),
         NEW ci2 \in Seq(Cells), NEW new, NEW fn2, fn2 = 0 => fn = 0, NEW tl2 \in SUBSET tl,
         fn2 = 0 => \A k \in tl2 : k < Len(new) /\ new[k + 1].yomi = cls[k + 1].yomi,
         \A k \in tl2 : k < Len(ci2) => k < Len(ci) /\ ci2[k + 1] \in {NoInfo, ci[k + 1]}
  PROVE  Known(ci2, new, fn2, tl2)
<1>1. tl2 \subseteq Nat
  BY DEF Known
<1>2. ASSUME fn2 = 0, NEW k \in tl2
      PROVE  /\ k < Len(new)
             /\ k < Len(ci2) => ci2[k + 1] \in {NoInfo, Listed(NoInfo, NumCands(new[k + 1].yomi))}
  <2>1. k < Len(ci) => ci[k + 1] \in {NoInfo, Listed(NoInfo, NumCands(cls[k + 1].yomi))}
    BY <1>2 DEF Known
  <2>2. k < Len(new) /\ new[k + 1].yomi = cls[k + 1].yomi
    BY <1>2
  <2>3. k < Len(ci2) => k < Len(ci) /\ ci2[k + 1] \in {NoInfo, ci[k + 1]}
    BY <1>2
  <2> QED  BY <2>1, <2>2, <2>3
<1> QED  BY <1>1, <1>2 DEF Known

LEMMA ResizePauseKeeps ==
  ASSUME ConvInv, NEW c \in Nat, NEW size \in Int, ResizePause(c, size)
  PROVE  ConvInv'
<1>1. phase \in {"conv", "auto"} /\ told' = {k \in told : k < c} /\ c < Total /\ bufStart' = bufStart
  BY DEF ResizePause, Settled, buffer
<1>2. PICK S : S = CharsIn(phase)
  OBVIOUS
<1>3. /\ Sound(S, comp) /\ Held(S, phase, result, fixedNum, fixedYomi)
      /\ Known(candInfo, comp, fixedNum, told) /\ bufStart \in Nat
  BY <1>1, <1>2, InvNow
<1>4. candInfo \in Seq(Cells) /\ told \subseteq Nat
  BY <1>3 DEF Known
<1>5. result \in Seq(Seq(S)) /\ fixedYomi \in Seq(Seq(S)) /\ fixedNum = Len(fixedYomi)
  BY <1>3, HeldIs
<1>6. fixedNum \in Nat
  BY <1>3, HeldIs
<1>7. comp \in Seq(ClausesIn(S)) /\ Len(comp) \in Nat
  BY <1>3, SoundIs
<1>8. PICK tl : tl = {k \in told : k < c} /\ tl \in SUBSET told
  OBVIOUS
<1>9. PICK diff : diff = (CASE size = -1 -> 1
                            [] size = -2 -> -1
                            [] size = 0 -> 0
                            [] OTHER -> size - CombinedLen(ClauseStr(c, c + 1)))
  OBVIOUS
<1>10. diff \in Int
  <2>1. c + 1 \in Int
    OBVIOUS
  <2>2. CombinedLen(ClauseStr(c, c + 1)) \in Nat
    BY <1>5, <1>7, <2>1, CombinedLenIs
  <2>3. PICK l \in Nat : l = CombinedLen(ClauseStr(c, c + 1))
    BY <2>2
  <2>4. size - l \in Int
    OBVIOUS
  <2>5. diff = 1 \/ diff = -1 \/ diff = 0 \/ diff = size - l
    BY <1>9, <2>3
  <2> QED  BY <2>4, <2>5
<1>11. PICK i, cls : i = c - fixedNum /\ cls = SetTarget(comp, c)
  OBVIOUS
<1>12. Sound(S, cls) /\ SameReadings(comp, cls) /\ cls \in Seq(ClausesIn(S)) /\ Len(cls) = Len(comp)
  <2>1. Sound(S, cls) /\ SameReadings(comp, cls)
    BY <1>3, <1>11, TargetSound
  <2> QED  BY <2>1, SoundIs DEF SameReadings
<1>13. /\ fixedNum = 0 => \A k \in tl : k < Len(comp)
       /\ \A k \in tl : k \in Nat /\ k < c
  BY <1>3, <1>4, <1>8 DEF Known
<1>14. ASSUME phase' = phase, Sound(S, comp'), Held(S, phase, result', fixedNum', fixedYomi'),
              Known(candInfo', comp', fixedNum', tl)
       PROVE  ConvInv'
  BY <1>1, <1>2, <1>3, <1>8, <1>14, InvNext
<1>15. ASSUME NEW new, NEW ci2 \in Seq(Cells), NEW fn2, fn2 = 0 => fixedNum = 0,
              fixedNum = 0 => \A k \in tl : k < Len(new) /\ new[k + 1].yomi = comp[k + 1].yomi,
              \A k \in tl : k < Len(ci2) => k < Len(candInfo) /\ ci2[k + 1] \in {NoInfo, candInfo[k + 1]}
       PROVE  Known(ci2, new, fn2, tl)
  BY <1>3, <1>8, <1>15, KnownKept
<1>16. ASSUME NEW new, SameReadings(comp, new), NEW fn2, fn2 = 0 => fixedNum = 0
       PROVE  Known(candInfo, new, fn2, tl)
  <2>1. fixedNum = 0 => \A k \in tl : k < Len(new) /\ new[k + 1].yomi = comp[k + 1].yomi
    <3> SUFFICES ASSUME fixedNum = 0, NEW k \in tl
                 PROVE  k < Len(new) /\ new[k + 1].yomi = comp[k + 1].yomi
      OBVIOUS
    <3>1. k \in Nat /\ k < Len(comp)
      BY <1>13
    <3>2. k + 1 \in 1 .. Len(comp)
      BY <1>7, <3>1
    <3> QED  BY <1>16, <3>1, <3>2 DEF SameReadings
  <2>2. \A k \in tl : k < Len(candInfo) => k < Len(candInfo) /\ candInfo[k + 1] \in {NoInfo, candInfo[k + 1]}
    OBVIOUS
  <2> QED  BY <1>4, <1>15, <1>16, <2>1, <2>2
<1>17. ASSUME NEW res \in Seq(Seq(S)), res = result \/ res = <<>>
       PROVE  Held(S, phase, res, fixedNum + Len(res), fixedYomi \o res)
  <2>1. phase \in {"idle", "conv"} => res = <<>>
    BY <1>3, <1>17 DEF Held
  <2> QED  BY <1>3, <1>17, <2>1, HeldMore
<1>18. ASSUME NEW res \in Seq(Seq(S))  PROVE fixedNum + Len(res) = 0 => fixedNum = 0
  <2>1. PICK n \in Nat : n = Len(res)
    <3>1. PICK R : R = Seq(S)
      OBVIOUS
    <3>2. res \in Seq(R)
      BY <1>18, <3>1
    <3> QED  BY <3>2
  <2> QED  BY <1>6, <2>1
<1>19. SameReadings(comp, comp)
  BY DEF SameReadings
<1>20. CASE c < fixedNum
  <2>1. /\ comp' = comp /\ result' = result /\ fixedNum' = fixedNum /\ fixedYomi' = fixedYomi
        /\ phase' = phase /\ candInfo' = candInfo
    BY <1>6, <1>20 DEF ResizePause, imc, fixed
  <2>2. Known(candInfo, comp, fixedNum, tl)
    BY <1>16, <1>19
  <2> QED  BY <1>3, <1>14, <2>1, <2>2
<1>21. ASSUME Reply(comp, result, c), phase' = phase, candInfo' = candInfo
       PROVE  ConvInv'
  <2>1. /\ comp' = comp /\ result' = result /\ fixedNum' = fixedNum + Len(result)
        /\ fixedYomi' = fixedYomi \o result
    BY <1>21, ReplyIs
  <2>2. Held(S, phase, result', fixedNum', fixedYomi')
    BY <1>5, <1>17, <2>1
  <2>3. fixedNum' = 0 => fixedNum = 0
    BY <1>5, <1>18, <2>1
  <2>4. Known(candInfo', comp', fixedNum', tl)
    BY <1>16, <1>19, <1>21, <2>1, <2>3
  <2> QED  BY <1>3, <1>14, <1>21, <2>1, <2>2, <2>4
<1>22. ASSUME phase' = "dead"  PROVE ConvInv'
  BY <1>22, DeadInv
<1>23. ASSUME comp' = cls, UNCHANGED <<phase, result, fixed, candInfo>>
       PROVE  ConvInv'
  <2>1. /\ comp' = cls /\ result' = result /\ fixedNum' = fixedNum /\ fixedYomi' = fixedYomi
        /\ phase' = phase /\ candInfo' = candInfo
    BY <1>23 DEF fixed
  <2>2. Known(candInfo, cls, fixedNum, tl)
    BY <1>12, <1>16
  <2> QED  BY <1>3, <1>12, <1>14, <2>1, <2>2
<1>24. ASSUME c >= fixedNum, NEW new \in Recuts(cls, i, diff),
              Reply(new, IF StaysAsIs(cls, i, diff) THEN result ELSE <<>>, c),
              candInfo' = (IF StaysAsIs(cls, i, diff) THEN candInfo ELSE Cleared(candInfo, c)),
              phase' = phase
       PROVE  ConvInv'
  <2>1. CASE StaysAsIs(cls, i, diff)
    <3>1. new = cls /\ Reply(cls, result, c) /\ candInfo' = candInfo
      BY <1>24, <2>1 DEF Recuts
    <3>2. /\ comp' = cls /\ result' = result /\ fixedNum' = fixedNum + Len(result)
          /\ fixedYomi' = fixedYomi \o result
      BY <3>1, ReplyIs
    <3>3. Held(S, phase, result', fixedNum', fixedYomi')
      BY <1>5, <1>17, <3>2
    <3>4. fixedNum' = 0 => fixedNum = 0
      BY <1>5, <1>18, <3>2
    <3>5. Known(candInfo', comp', fixedNum', tl)
      BY <1>12, <1>16, <3>1, <3>2, <3>4
    <3> QED  BY <1>12, <1>14, <1>24, <3>2, <3>3, <3>5
  <2>2. CASE ~StaysAsIs(cls, i, diff)
    <3>1. Reply(new, <<>>, c) /\ candInfo' = Cleared(candInfo, c)
      BY <1>24, <2>2
    <3>2. Held(S, phase, result', fixedNum', fixedYomi') /\ comp' = new
      BY <1>3, <3>1, ReplyHeld
    <3>3. fixedNum' = fixedNum
      BY <1>5, <1>6, <3>1, ReplyPlain
    <3>4. PICK k \in Nat : k = i /\ k < Len(cls)
      <4>1. c - fixedNum \in Nat /\ c - fixedNum < Len(comp)
        BY <1>1, <1>6, <1>7, <1>24 DEF Total
      <4> QED  BY <1>11, <1>12, <4>1
    <3>5. PICK len, r : len = NewLength(cls, k, diff) /\ r = Reading(Back(cls, k))
      OBVIOUS
    <3>6. Reads(new, S, Reading(cls)) /\ k < Len(new) /\ Fore(Yomis(new), k) = Fore(Yomis(cls), k)
      <4>1. Pieces(Yomis(cls)) /\ ~StaysAsIs(cls, k, diff) /\ new \in Recuts(cls, k, diff)
        BY <1>12, <1>24, <2>2, <3>4 DEF Sound
      <4> QED  BY <1>10, <1>12, <3>4, <3>5, <4>1, RecutsIs
    <3>7. Sound(S, new)
      BY <3>6, ReadsSound
    <3>8. Len(new) \in Nat /\ new \in Seq(ClausesIn(S))
      BY <3>7, SoundIs
    <3>9. ASSUME fixedNum = 0, NEW j \in tl
          PROVE  j < Len(new) /\ new[j + 1].yomi = comp[j + 1].yomi
      <4>1. j \in Nat /\ j < c /\ k = c
        BY <1>11, <1>13, <3>4, <3>9
      <4>2. j + 1 \in 1 .. k /\ j + 1 \in 1 .. Len(new) /\ j + 1 \in 1 .. Len(cls) /\ j < Len(new)
        BY <1>7, <1>12, <3>4, <3>6, <3>8, <4>1
      <4>3. PICK R, us, ps : R = Seq(S) /\ us = Yomis(new) /\ ps = Yomis(cls)
        OBVIOUS
      <4>4. us \in Seq(R) /\ ps \in Seq(R) /\ k <= Len(us) /\ k <= Len(ps)
        BY <1>7, <1>12, <3>4, <3>6, <3>7, <3>8, <4>3, SoundIs
      <4>5. Fore(us, k)[j + 1] = us[j + 1] /\ Fore(ps, k)[j + 1] = ps[j + 1]
        BY <3>4, <4>2, <4>4, FrontIs
      <4>6. us[j + 1] = new[j + 1].yomi
        BY <3>8, <4>2, <4>3, YomisIs
      <4>7. ps[j + 1] = cls[j + 1].yomi
        BY <1>12, <4>2, <4>3, YomisIs
      <4>8. cls[j + 1].yomi = comp[j + 1].yomi
        BY <1>12, <4>2 DEF SameReadings
      <4> QED  BY <3>6, <4>2, <4>3, <4>5, <4>6, <4>7, <4>8
    <3>10. PICK ci : ci = Cleared(candInfo, c)
      OBVIOUS
    <3>11. ci \in Seq(Cells) /\ Len(ci) = Len(candInfo)
      BY <1>4, <3>10, ClearedIs
    <3>12. ASSUME NEW j \in tl, j < Len(ci)  PROVE j < Len(candInfo) /\ ci[j + 1] \in {NoInfo, candInfo[j + 1]}
      <4>1. j \in Nat
        BY <1>13
      <4>2. j + 1 \in DOMAIN candInfo
        BY <1>4, <3>11, <3>12, <4>1
      <4> QED  BY <3>10, <3>11, <3>12, <4>2 DEF Cleared
    <3>13. Known(ci, new, fixedNum, tl)
      BY <1>15, <3>9, <3>11, <3>12
    <3> QED  BY <1>14, <1>24, <3>1, <3>2, <3>3, <3>7, <3>10, <3>13
  <2> QED  BY <2>1, <2>2
<1>25. \/ c < fixedNum
       \/ Reply(comp, result, c) /\ phase' = phase /\ candInfo' = candInfo
       \/ phase' = "dead"
       \/ comp' = cls /\ UNCHANGED <<phase, result, fixed, candInfo>>
       \/ c >= fixedNum /\ phase' = phase /\ \E new \in Recuts(cls, i, diff) :
             /\ Reply(new, IF StaysAsIs(cls, i, diff) THEN result ELSE <<>>, c)
             /\ candInfo' = (IF StaysAsIs(cls, i, diff) THEN candInfo ELSE Cleared(candInfo, c))
  <2>1. \/ c < fixedNum
        \/ Reply(comp, result, c) /\ UNCHANGED <<phase, candInfo>>
        \/ phase' = "dead"
        \/ comp' = cls /\ UNCHANGED <<result, fixed, candInfo>> /\ UNCHANGED phase
        \/ c >= fixedNum /\ UNCHANGED phase /\ 
             \E new \in IF Target(cls) = c \/ StaysAsIs(cls, i, diff) THEN Recuts(cls, i, diff) ELSE {} :
               /\ Reply(new, IF StaysAsIs(cls, i, diff) THEN result ELSE <<>>, c)
               /\ candInfo' = (IF StaysAsIs(cls, i, diff) THEN candInfo ELSE Cleared(candInfo, c))
    BY <1>9, <1>11, Zenon DEF ResizePause
  <2> QED  BY <2>1
<1> QED  BY <1>20, <1>21, <1>22, <1>23, <1>24, <1>25

---------------------------------------------------------------------------
(* The client's buffer.                                                    *)

ConvertedPieces == [i \in DOMAIN comp |-> IF IsConverted(comp[i]) THEN comp[i].yomi ELSE <<>>]
UnconvertedPieces == [i \in DOMAIN comp |-> IF IsConverted(comp[i]) THEN <<>> ELSE comp[i].yomi]

\* The reading so far is what is converted of it and what is not.
Divides(ps, cs, us, n) == Text(ps, n) = Text(cs, n) \o Text(us, n)

LEMMA PiecesAre ==
  ASSUME NEW S, comp \in Seq(ClausesIn(S))
  PROVE  /\ ConvertedPieces \in Seq(Seq(S)) /\ UnconvertedPieces \in Seq(Seq(S))
         /\ Len(ConvertedPieces) = Len(comp) /\ Len(UnconvertedPieces) = Len(comp)
         /\ \A i \in 1 .. Len(comp) :
               /\ ConvertedPieces[i] = (IF IsConverted(comp[i]) THEN comp[i].yomi ELSE <<>>)
               /\ UnconvertedPieces[i] = (IF IsConverted(comp[i]) THEN <<>> ELSE comp[i].yomi)
<1>1. PICK R, C : R = Seq(S) /\ C = ClausesIn(S)
  OBVIOUS
<1>2. comp \in Seq(C)
  BY <1>1
<1>3. PICK l \in Nat : l = Len(comp) /\ DOMAIN comp = 1 .. l
  BY <1>2
<1>4. ASSUME NEW i \in 1 .. l  PROVE comp[i].yomi \in R
  <2>1. comp[i] \in C
    BY <1>2, <1>3
  <2> QED  BY <1>1, <2>1 DEF ClausesIn
<1>5. <<>> \in R
  BY <1>1
<1>6. ConvertedPieces \in [1 .. l -> R]
  BY <1>3, <1>4, <1>5 DEF ConvertedPieces
<1>7. UnconvertedPieces \in [1 .. l -> R]
  BY <1>3, <1>4, <1>5 DEF UnconvertedPieces
<1>8. /\ ConvertedPieces \in Seq(R) /\ Len(ConvertedPieces) = l
      /\ UnconvertedPieces \in Seq(R) /\ Len(UnconvertedPieces) = l
  BY <1>6, <1>7, FunSeq
<1> QED  BY <1>1, <1>3, <1>8 DEF ConvertedPieces, UnconvertedPieces

LEMMA BufferIs ==
  ASSUME NEW S, Sound(S, comp)
  PROVE  /\ ConvertedReading \in Seq(S) /\ Unconverted \in Seq(S)
         /\ Reading(comp) = ConvertedReading \o Unconverted
<1>1. PICK R, ps, cs, us : R = Seq(S) /\ ps = Yomis(comp) /\ cs = ConvertedPieces /\ us = UnconvertedPieces
  OBVIOUS
<1>2. comp \in Seq(ClausesIn(S)) /\ ps \in Seq(Seq(S)) /\ Len(ps) = Len(comp) /\ ConvertedFirst(comp)
  BY <1>1, SoundIs
<1>3. /\ cs \in Seq(Seq(S)) /\ Len(cs) = Len(comp) /\ us \in Seq(Seq(S)) /\ Len(us) = Len(comp)
      /\ \A i \in 1 .. Len(comp) : /\ cs[i] = (IF IsConverted(comp[i]) THEN comp[i].yomi ELSE <<>>)
                                   /\ us[i] = (IF IsConverted(comp[i]) THEN <<>> ELSE comp[i].yomi)
  BY <1>1, <1>2, PiecesAre
<1>4. \A i \in 1 .. Len(comp) : ps[i] = comp[i].yomi
  BY <1>1, <1>2, YomisIs
<1>5. PICK l \in Nat : l = Len(comp)
  BY SoundIs
<1>6. Text(ps, 0) = <<>> /\ Text(cs, 0) = <<>> /\ Text(us, 0) = <<>>
  <2>1. ASSUME NEW qs \in Seq(R)  PROVE Text(qs, 0) = <<>>
    <3>1. Fore(qs, 0) = <<>>
      BY <2>1, FrontAll
    <3> QED  BY <3>1, FlattenEmpty DEF Text
  <2>2. ps \in Seq(R) /\ cs \in Seq(R) /\ us \in Seq(R)
    BY <1>1, <1>2, <1>3
  <2> QED  BY <2>1, <2>2
<1> DEFINE None(n) == n < l => (IsConverted(comp[n + 1]) => Text(us, n) = <<>>)
           Good(n) == Divides(ps, cs, us, n) /\ None(n)
           T == {n \in Nat : n <= l => Good(n)}
<1>7. 0 \in T
  <2>1. <<>> \o <<>> = <<>>
    OBVIOUS
  <2>2. Divides(ps, cs, us, 0)
    BY <1>6, <2>1, Zenon DEF Divides
  <2>3. None(0)
    BY <1>6
  <2> QED  BY <2>2, <2>3
<1>8. ASSUME NEW n \in Nat, n \in T  PROVE n + 1 \in T
  <2> SUFFICES ASSUME n + 1 <= l  PROVE Good(n + 1)
    OBVIOUS
  <2>1. PICK k \in Nat : k = n + 1
    OBVIOUS
  <2>2. n < l /\ k \in 1 .. l /\ n <= l
    BY <2>1
  <2>3. Divides(ps, cs, us, n) /\ None(n)
    BY <1>8, <2>2
  <2> HIDE DEF T, Good, None
  <2>4. PICK pt, ct, ut : pt = Text(ps, n) /\ ct = Text(cs, n) /\ ut = Text(us, n)
    OBVIOUS
  <2>5. n < Len(ps) /\ n < Len(cs) /\ n < Len(us)
    BY <1>2, <1>3, <1>5, <2>2
  <2>6. Text(ps, n + 1) = pt \o ps[n + 1] /\ pt \in Seq(S)
    BY <1>2, <2>4, <2>5, TextNext
  <2>7. Text(cs, n + 1) = ct \o cs[n + 1] /\ ct \in Seq(S)
    BY <1>3, <2>4, <2>5, TextNext
  <2>8. Text(us, n + 1) = ut \o us[n + 1] /\ ut \in Seq(S)
    BY <1>3, <2>4, <2>5, TextNext
  <2>9. PICK y : y = comp[k].yomi
    OBVIOUS
  <2>10. ps[k] = y /\ y \in Seq(S)
    <3>1. ps[k] = y
      BY <1>4, <1>5, <2>2, <2>9
    <3>2. ps[n + 1] \in Seq(S)
      BY <1>2, <2>5, TextNext
    <3> QED  BY <2>1, <3>1, <3>2
  <2>11. pt = ct \o ut
    BY <2>3, <2>4 DEF Divides
  <2>12. CASE IsConverted(comp[k])
    <3>1. cs[k] = y /\ us[k] = <<>>
      BY <1>3, <1>5, <2>2, <2>9, <2>12
    <3>2. ut = <<>>
      BY <2>1, <2>2, <2>3, <2>4, <2>12 DEF None
    <3>3. ct \o <<>> = ct /\ <<>> \o <<>> = <<>>
      BY <2>7, ConcatEmptySeq
    <3>4. Text(us, k) = <<>>
      BY <2>1, <2>8, <3>1, <3>2, <3>3, Zenon
    <3>5. Text(cs, k) = ct \o y /\ Text(ps, k) = pt \o y /\ pt = ct
      BY <2>1, <2>6, <2>7, <2>10, <2>11, <3>1, <3>2, <3>3, Zenon
    <3>6. (ct \o y) \o <<>> = ct \o y
      <4>1. PICK z : z = ct \o y
        OBVIOUS
      <4>2. z \in Seq(S)
        BY <2>7, <2>10, <4>1, ConcatProperties
      <4> QED  BY <4>1, <4>2, ConcatEmptySeq
    <3>7. Divides(ps, cs, us, k)
      BY <3>4, <3>5, <3>6, Zenon DEF Divides
    <3>8. None(k)
      BY <3>4 DEF None
    <3> QED  BY <2>1, <3>7, <3>8 DEF Good
  <2>13. CASE ~IsConverted(comp[k])
    <3>1. cs[k] = <<>> /\ us[k] = y
      BY <1>3, <1>5, <2>2, <2>9, <2>13
    <3>2. ct \o <<>> = ct
      BY <2>7, ConcatEmptySeq
    <3>3. Text(cs, k) = ct /\ Text(us, k) = ut \o y /\ Text(ps, k) = pt \o y
      BY <2>1, <2>6, <2>7, <2>8, <2>10, <3>1, <3>2, Zenon
    <3>4. (ct \o ut) \o y = ct \o (ut \o y)
      BY <2>7, <2>8, <2>10, ConcatAssociative, SMTT(60)
    <3>5. Divides(ps, cs, us, k)
      BY <2>11, <3>3, <3>4, Zenon DEF Divides
    <3>6. None(k)
      <4> SUFFICES ASSUME k < l, IsConverted(comp[k + 1])  PROVE FALSE
        BY DEF None
      <4>1. k \in 1 .. Len(comp) /\ k + 1 \in 1 .. Len(comp) /\ k < k + 1
        BY <1>5, <2>2
      <4>2. IsConverted(comp[k])
        BY <1>2, <4>1 DEF ConvertedFirst
      <4> QED  BY <2>13, <4>2
    <3> QED  BY <2>1, <3>5, <3>6 DEF Good
  <2> QED  BY <2>12, <2>13
<1>9. Divides(ps, cs, us, l)
  <2>1. l \in T
    <3> HIDE DEF T
    <3> QED  BY <1>7, <1>8, Induct
  <2> HIDE DEF None
  <2> QED  BY <2>1
<1>10. ASSUME NEW qs \in Seq(R), Len(qs) = l  PROVE Text(qs, l) = FlattenSeq(qs) /\ FlattenSeq(qs) \in Seq(S)
  <2>1. Fore(qs, l) = qs
    BY <1>10, FrontAll
  <2> QED  BY <1>1, <1>10, <2>1, FlattenType DEF Text
<1>11. FlattenSeq(ps) = FlattenSeq(cs) \o FlattenSeq(us) /\ FlattenSeq(cs) \in Seq(S) /\ FlattenSeq(us) \in Seq(S)
  <2>1. ps \in Seq(R) /\ cs \in Seq(R) /\ us \in Seq(R) /\ Len(ps) = l /\ Len(cs) = l /\ Len(us) = l
    BY <1>1, <1>2, <1>3, <1>5
  <2>2. Text(ps, l) = FlattenSeq(ps) /\ Text(cs, l) = FlattenSeq(cs) /\ Text(us, l) = FlattenSeq(us)
    BY <1>10, <2>1
  <2>3. FlattenSeq(cs) \in Seq(S) /\ FlattenSeq(us) \in Seq(S)
    BY <1>10, <2>1
  <2> QED  BY <1>9, <2>2, <2>3, Zenon DEF Divides
<1>12. ConvertedReading = FlattenSeq(cs) /\ Unconverted = FlattenSeq(us) /\ Reading(comp) = FlattenSeq(ps)
  BY <1>1 DEF ConvertedReading, Unconverted, Reading, ConvertedPieces, UnconvertedPieces
<1> QED  BY <1>11, <1>12, Zenon

\* What is past the first of two sequences is of the second.
PartsAt(a, b, k, n) == Fore(a \o b, n) = a \o Fore(b, k) /\ Back(a \o b, n) = Back(b, k)

LEMMA PastFirst ==
  ASSUME NEW S, NEW a \in Seq(S), NEW b \in Seq(S), NEW k \in Nat, k <= Len(b), NEW n, n = Len(a) + k
  PROVE  PartsAt(a, b, k, n)
<1>1. PICK f, g : f = Fore(b, k) /\ g = Back(b, k)
  OBVIOUS
<1>2. f \in Seq(S) /\ Len(f) = k /\ b = f \o g
  BY <1>1, FrontIs, FrontBack
<1>3. g \in Seq(S)
  <2>1. PICK m \in Nat : m = Len(b) - k
    OBVIOUS
  <2>2. Splits(b, k, m)
    BY <2>1 DEF Splits
  <2> QED  BY <1>1, <2>2, BackIs
<1>4. PICK h : h = a \o f
  OBVIOUS
<1>5. h \in Seq(S) /\ Len(h) = n
  BY <1>2, <1>4, ConcatProperties
<1>6. a \o (f \o g) = (a \o f) \o g
  BY <1>2, <1>3, ConcatAssociative, SMTT(60)
<1>7. a \o b = h \o g
  BY <1>2, <1>4, <1>6, Zenon
<1>8. Fore(h \o g, n) = h /\ Back(h \o g, n) = g
  BY <1>3, <1>5, Joined
<1> QED  BY <1>1, <1>4, <1>7, <1>8, Zenon DEF PartsAt

\* Characters b to e of r replaced by y: at the end, from the beginning, or
\* with what comes after them typed again.
Replaces(new, r, b, e, y) == new = (IF b >= Len(r) THEN r \o y
                                    ELSE IF e = 0 THEN y
                                    ELSE (Fore(r, b) \o y) \o Back(r, e))

\* What the edit makes of the reading is typed in automatic mode.
LEMMA EditedIs ==
  ASSUME NEW S, Sound(S, comp), fixedYomi \in Seq(Seq(S)), fixedNum = Len(fixedYomi),
         NEW b \in Nat, NEW e \in Nat, NEW y \in Seq(S), NEW new, new = Edited(b, e, y)
  PROVE  /\ new \in Seq(S)
         /\ fixedNum = 0 => Replaces(new, Reading(comp), b, e, y)
<1> USE DEF Replaces
<1>1. PICK cur : cur = IF ClauseStr(0, -1) = {} THEN <<>> ELSE CHOOSE r \in ClauseStr(0, -1) : TRUE
  OBVIOUS
<1>2. fixedNum \in Nat
  <2>1. PICK R : R = Seq(S)
    OBVIOUS
  <2>2. fixedYomi \in Seq(R)
    BY <2>1
  <2> QED  BY <2>2
<1>3. cur = Appended(0, -1)
  <2>1. FixedStr(0, -1) = <<>>
    BY <1>2, FixedPassed
  <2>2. PICK X, f : X = ClauseStr(0, -1) /\ f = FixedStr(0, -1)
    OBVIOUS
  <2>3. Appended(0, -1) = IF X = {} THEN f ELSE CHOOSE z \in X : TRUE
    BY <2>2 DEF Appended
  <2>4. cur = IF X = {} THEN <<>> ELSE CHOOSE z \in X : TRUE
    BY <1>1, <2>2
  <2> QED  BY <2>1, <2>2, <2>3, <2>4, Zenon
<1>4. comp \in Seq(ClausesIn(S)) /\ Pieces(Yomis(comp)) /\ Len(comp) \in Nat /\ Reading(comp) \in Seq(S)
  BY SoundIs
<1>5. cur \in Seq(S) /\ (fixedNum = 0 => cur = Reading(Back(comp, 0)))
  <2>1. PICK k \in Nat : k = 0
    OBVIOUS
  <2>2. k <= Len(comp)
    BY <1>4, <2>1
  <2>3. Appended(k, -1) \in Seq(S) /\ (fixedNum = 0 => Appended(k, -1) = Reading(Back(comp, k)))
    BY <1>4, <2>2, AppendedIs
  <2> QED  BY <1>3, <2>1, <2>3
<1>6. Back(comp, 0) = comp
  <2>1. PICK C : C = ClausesIn(S)
    OBVIOUS
  <2>2. comp \in Seq(C)
    BY <1>4, <2>1
  <2> QED  BY <2>2, FrontAll
<1>7. PICK r : r = Reading(comp)
  OBVIOUS
<1>8. r \in Seq(S) /\ (fixedNum = 0 => cur = r)
  BY <1>4, <1>5, <1>6, <1>7
<1>9. new = (IF b >= Len(cur) THEN r \o y
             ELSE IF e = 0 THEN y ELSE (Fore(cur, b) \o y) \o Back(cur, e))
  BY <1>1, <1>7, Zenon DEF Edited, Fore, Back
<1>10. r \o y \in Seq(S)
  BY <1>8, ConcatProperties
<1>11. CASE b >= Len(cur)
  BY <1>7, <1>8, <1>9, <1>10, <1>11
<1>12. CASE ~(b >= Len(cur)) /\ e = 0
  BY <1>7, <1>8, <1>9, <1>12
<1>13. CASE ~(b >= Len(cur)) /\ e # 0
  <2>1. PICK f, g : f = Fore(cur, b) /\ g = Back(cur, e)
    OBVIOUS
  <2>2. f \in Seq(S)
    <3>1. b <= Len(cur)
      BY <1>5, <1>13
    <3> QED  BY <1>5, <2>1, <3>1, FrontIs
  <2>3. g \in Seq(S)
    <3>1. e + 1 \in Nat \ {0} /\ Len(cur) \in Int /\ Len(cur) <= Len(cur)
      BY <1>5
    <3>2. SubSeq(cur, e + 1, Len(cur)) \in Seq(S)
      BY <1>5, <3>1, PartType
    <3> QED  BY <2>1, <3>2 DEF Back
  <2>4. new = (f \o y) \o g
    BY <1>9, <1>13, <2>1, Zenon
  <2>5. (f \o y) \o g \in Seq(S)
    BY <2>2, <2>3, ConcatProperties
  <2>6. fixedNum = 0 => f = Fore(r, b) /\ g = Back(r, e) /\ ~(b >= Len(r))
    BY <1>8, <1>13, <2>1
  <2>7. new \in Seq(S)
    BY <2>4, <2>5, Zenon
  <2> QED  BY <1>7, <1>13, <2>4, <2>6, <2>7, Zenon
<1> QED  BY <1>11, <1>12, <1>13

\* The buffer as the client asked, after what is converted already.
Edits(b, e, y) == FlattenSeq(result') \o Reading(comp') =
                     ConvertedReading \o SubSeq(Unconverted, 1, b) \o y \o SubSeq(Unconverted, e + 1, Len(Unconverted))

\* Where the buffer starts after what is converted, the edit is of it.
LEMMA EditedBuffer ==
  ASSUME NEW S, Sound(S, comp), fixedYomi \in Seq(Seq(S)), fixedNum = Len(fixedYomi), fixedNum = 0,
         NEW b \in Nat, NEW e \in Nat, b <= e, e <= Len(Unconverted), NEW y \in Seq(S),
         bufStart = Len(ConvertedReading), bufStart + e > 0
  PROVE  Edited(bufStart + b, bufStart + e, y) =
            ((ConvertedReading \o Fore(Unconverted, b)) \o y) \o Back(Unconverted, e)
<1>1. PICK cv, u, r : cv = ConvertedReading /\ u = Unconverted /\ r = Reading(comp)
  OBVIOUS
<1>2. cv \in Seq(S) /\ u \in Seq(S) /\ r = cv \o u
  BY <1>1, BufferIs
<1>3. PICK n, l \in Nat : n = Len(cv) /\ l = Len(u)
  BY <1>2
<1>4. n \in Nat /\ n = bufStart /\ e <= l /\ b <= l
  BY <1>1, <1>2, <1>3
<1>5. PICK bb, ee \in Nat : bb = n + b /\ ee = n + e
  BY <1>4
<1>6. bb \in Nat /\ ee \in Nat /\ ee # 0 /\ Len(r) = n + l
  <2>1. ee # 0
    BY <1>4, <1>5
  <2>2. Len(r) = n + l
    BY <1>2, <1>3
  <2> QED  BY <1>5, <2>1, <2>2
<1>7. PICK new : new = Edited(bb, ee, y)
  OBVIOUS
<1>8. new = (IF bb >= Len(r) THEN r \o y ELSE IF ee = 0 THEN y ELSE (Fore(r, bb) \o y) \o Back(r, ee))
  <2>1. Replaces(new, Reading(comp), bb, ee, y)
    BY <1>6, <1>7, EditedIs
  <2> QED  BY <1>1, <2>1, Zenon DEF Replaces
<1>9. new = ((cv \o Fore(u, b)) \o y) \o Back(u, e)
  <2>1. CASE bb >= Len(r)
    <3>1. b = l /\ e = l
      BY <1>4, <1>5, <1>6, <2>1
    <3>2. Fore(u, l) = u /\ Back(u, l) = <<>>
      BY <1>2, <1>3, FrontAll
    <3>3. PICK z : z = (cv \o u) \o y
      OBVIOUS
    <3>4. z \in Seq(S)
      BY <1>2, <3>3, ConcatProperties
    <3>5. z \o <<>> = z
      BY <3>4, ConcatEmptySeq
    <3>6. new = z
      BY <1>2, <1>8, <2>1, <3>3, Zenon
    <3> QED  BY <3>1, <3>2, <3>3, <3>5, <3>6, Zenon
  <2>2. CASE ~(bb >= Len(r))
    <3>1. b <= Len(u) /\ e <= Len(u) /\ bb = Len(cv) + b /\ ee = Len(cv) + e
      BY <1>3, <1>4, <1>5
    <3>2. cv \in Seq(S) /\ u \in Seq(S)
      BY <1>2
    <3>3. PartsAt(cv, u, b, bb)
      BY <3>1, <3>2, PastFirst
    <3>4. PartsAt(cv, u, e, ee)
      BY <3>1, <3>2, PastFirst
    <3>5. new = (Fore(r, bb) \o y) \o Back(r, ee)
      BY <1>6, <1>8, <2>2
    <3> QED  BY <1>2, <3>3, <3>4, <3>5, Zenon DEF PartsAt
  <2> QED  BY <2>1, <2>2
<1> QED  BY <1>1, <1>4, <1>5, <1>7, <1>9, Zenon

LEMMA SubstYomiIs ==
  ASSUME ConvInv, NEW b \in Nat, NEW e \in Nat, NEW y \in Inputs, SubstYomi(b, e, y)
  PROVE  /\ ConvInv'
         /\ fixedNum = 0 /\ comp' # comp /\ bufStart = Len(ConvertedReading) /\ bufStart + e > 0 => Edits(b, e, y)
<1>1. /\ phase = "auto" /\ told' = {} /\ phase' = phase /\ candInfo' = candInfo /\ Typable(y)
      /\ b <= e /\ e <= Len(Unconverted)
  BY DEF SubstYomi
<1>2. PICK S : S = CharsIn(phase)
  OBVIOUS
<1>3. /\ Sound(S, comp) /\ Held(S, phase, result, fixedNum, fixedYomi)
      /\ Known(candInfo, comp, fixedNum, told) /\ bufStart \in Nat
  BY <1>1, <1>2, InvNow
<1>4. candInfo' \in Seq(Cells) /\ phase \in {"conv", "auto"} /\ phase \notin {"idle", "conv"}
  BY <1>1, <1>3 DEF Known
<1>5. fixedYomi \in Seq(Seq(S)) /\ fixedNum = Len(fixedYomi)
  BY <1>3, HeldIs
<1>6. y \in Seq(S)
  BY <1>1, <1>2, InputIs
<1>7. PICK bb, ee \in Nat : bb = bufStart + b /\ ee = bufStart + e
  BY <1>3
<1>8. bb \in Nat
  BY <1>3, <1>7
<1>9. PICK new : new = Edited(bb, ee, y)
  OBVIOUS
<1>10. new \in Seq(S)
  BY <1>3, <1>5, <1>6, <1>8, <1>9, EditedIs
<1>11. Whole(new)
  BY <1>1, <1>2, <1>10, WholeWithoutMarks DEF CharsIn
<1>12. ASSUME BufStart(comp, fixedYomi), UNCHANGED <<imc, fixed>>
       PROVE  ConvInv' /\ comp' = comp
  <2>1. comp' = comp /\ result' = result /\ fixedNum' = fixedNum /\ fixedYomi' = fixedYomi
    BY <1>12 DEF imc, fixed
  <2>2. comp \in Seq(ClausesIn(S))
    BY <1>3, SoundIs
  <2>3. bufStart' \in Nat
    BY <1>3, <1>5, <1>12, <2>2, BufStartIs
  <2>4. Held(S, phase, result', fixedNum', fixedYomi') /\ Sound(S, comp')
    BY <1>3, <2>1
  <2>5. ConvInv'
    BY <1>1, <1>2, <1>4, <2>3, <2>4, ConvertedKeeps
  <2> QED  BY <2>1, <2>5
<1>13. ASSUME NEW t \in Typed(new), Reply(t.comp, t.result, 0), BufStart(t.comp, fixedYomi \o t.result)
       PROVE  /\ ConvInv'
              /\ fixedNum = 0 /\ bufStart = Len(ConvertedReading) /\ bufStart + e > 0 => Edits(b, e, y)
  <2>1. PICK cls, res, fy : cls = t.comp /\ res = t.result /\ fy = fixedYomi \o res
    OBVIOUS
  <2>2. /\ res \in Seq(Seq(S)) /\ cls \in Seq(ClausesIn(S))
        /\ Pieces(Yomis(cls)) /\ ConvertedFirst(cls)
        /\ FlattenSeq(res) \o Reading(cls) = new
    BY <1>10, <1>11, <1>13, <2>1, TypedIs
  <2>3. Sound(S, cls)
    BY <2>2 DEF Sound
  <2>4. comp' = cls /\ result' = res /\ fixedYomi' = fixedYomi \o res /\ fixedNum' = fixedNum + Len(res)
    <3>1. Reply(cls, res, 0)
      BY <1>13, <2>1, Zenon
    <3> QED  BY <3>1, ReplyIs
  <2>5. Held(S, phase, res, fixedNum + Len(res), fixedYomi \o res)
    BY <1>3, <1>4, <2>2, HeldMore
  <2>6. Held(S, phase, result', fixedNum', fixedYomi')
    BY <2>4, <2>5, Zenon
  <2>7. fy \in Seq(Seq(S)) /\ BufStart(cls, fy)
    <3>1. fy = fixedYomi'
      BY <2>1, <2>4
    <3>2. fy \in Seq(Seq(S))
      BY <2>6, <3>1, HeldIs
    <3> QED  BY <1>13, <2>1, <3>2, Zenon
  <2>8. bufStart' \in Nat
    BY <1>3, <2>2, <2>7, BufStartIs
  <2>9. ConvInv'
    BY <1>1, <1>2, <1>4, <2>3, <2>4, <2>6, <2>8, ConvertedKeeps
  <2>10. ASSUME fixedNum = 0, bufStart = Len(ConvertedReading), bufStart + e > 0  PROVE Edits(b, e, y)
    <3>1. Edited(bufStart + b, bufStart + e, y) =
             ((ConvertedReading \o Fore(Unconverted, b)) \o y) \o Back(Unconverted, e)
      BY <1>1, <1>3, <1>5, <1>6, <2>10, EditedBuffer, SMTT(30)
    <3>2. new = ((ConvertedReading \o Fore(Unconverted, b)) \o y) \o Back(Unconverted, e)
      BY <1>7, <1>9, <3>1, Zenon
    <3>3. FlattenSeq(result') \o Reading(comp') = new
      BY <2>2, <2>4, Zenon
    <3> QED  BY <3>2, <3>3, Zenon DEF Edits, Fore, Back
  <2> QED  BY <2>9, <2>10
<1>14. \/ BufStart(comp, fixedYomi) /\ UNCHANGED <<imc, fixed>>
       \/ \E t \in Typed(new) : Reply(t.comp, t.result, 0) /\ BufStart(t.comp, fixedYomi \o t.result)
  BY <1>7, <1>9, Zenon DEF SubstYomi
<1> QED  BY <1>12, <1>13, <1>14

---------------------------------------------------------------------------
(* The candidate chosen.                                                   *)

LEMMA BelowMin ==
  ASSUME NEW a \in Nat, NEW b \in Nat, NEW n \in Nat, n < Min({a, b})
  PROVE  n < a /\ n < b
<1>1. \E x \in {a, b} : \A y \in {a, b} : x <= y
  OBVIOUS
<1>2. Min({a, b}) = CHOOSE x \in {a, b} : \A y \in {a, b} : x <= y
  BY DEF Min
<1>3. PICK m : m = Min({a, b})
  OBVIOUS
<1>4. m \in {a, b} /\ \A y \in {a, b} : m <= y
  BY <1>1, <1>2, <1>3
<1> QED  BY <1>3, <1>4

\* Of the pages of a list of N candidates that has opened, one holds the n-th.
LEMMA PageHolds ==
  ASSUME NEW P \in Nat, P > 0, P = PageSize, NEW N \in Nat, NEW n \in Nat, n < N, n < 4 * P,
         NEW s0, s0 = OnPage(N, 0), NEW s1, s1 = OnPage(N, 1), NEW s2, s2 = OnPage(N, 2), NEW s3, s3 = OnPage(N, 3)
  PROVE  \/ s0 # 0 /\ n < s0
         \/ s0 # 0 /\ s1 # 0 /\ n >= s0 /\ n < s0 + s1
         \/ s0 # 0 /\ s1 # 0 /\ s2 # 0 /\ n >= s0 + s1 /\ n < s0 + s1 + s2
         \/ s0 # 0 /\ s1 # 0 /\ s2 # 0 /\ s3 # 0 /\ n >= s0 + s1 + s2 /\ n < s0 + s1 + s2 + s3
<1>1. s0 = IF N <= 0 THEN 0 ELSE IF N < P THEN N ELSE P
  BY DEF OnPage
<1>2. s1 = IF N <= P THEN 0 ELSE IF N < 2 * P THEN N - P ELSE P
  BY DEF OnPage
<1>3. s2 = IF N <= 2 * P THEN 0 ELSE IF N < 3 * P THEN N - 2 * P ELSE P
  BY DEF OnPage
<1>4. s3 = IF N <= 3 * P THEN 0 ELSE IF N < 4 * P THEN N - 3 * P ELSE P
  BY DEF OnPage
<1>5. CASE n < P
  BY <1>1, <1>5
<1>6. CASE n >= P /\ n < 2 * P
  BY <1>1, <1>2, <1>6
<1>7. CASE n >= 2 * P /\ n < 3 * P
  BY <1>1, <1>2, <1>3, <1>7
<1>8. CASE n >= 3 * P
  BY <1>1, <1>2, <1>3, <1>4, <1>8
<1> QED  BY <1>5, <1>6, <1>7, <1>8

LEMMA ChosenIs ==
  ASSUME NEW c \in Nat, NEW n \in Nat, candInfo \in Seq(Cells), c < Len(candInfo),
         AllCands(c) \in Nat \ {0}, candInfo[c + 1] = Listed(NoInfo, AllCands(c)), n < CandsOf(c)
  PROVE  Chosen(c, n) = n
<1>1. PICK N \in Nat : N = AllCands(c) /\ N > 0
  OBVIOUS
<1>2. PICK cell : cell = candInfo[c + 1]
  OBVIOUS
<1>3. /\ N <= OpenAfter => cell.seq = N
      /\ ~(N <= OpenAfter) => cell.seq = 0 /\ \A p \in Pages : cell.size[p] = OnPage(N, p)
  <2>1. N \in Nat \ {0} /\ cell = Listed(NoInfo, N)
    BY <1>1, <1>2
  <2> QED  BY <2>1, ListedIs
<1>4. ~(c >= Len(candInfo))
  <2>1. PICK C : C = Cells
    OBVIOUS
  <2>2. candInfo \in Seq(C)
    BY <2>1
  <2> QED  BY <2>2
<1>5. CASE n = 0
  BY <1>5 DEF Chosen
<1>6. CASE n # 0 /\ N <= OpenAfter
  <2>1. cell.seq > 0 /\ ~(n <= 0)
    BY <1>1, <1>3, <1>6
  <2>2. n < N
    BY <1>1, <1>6 DEF CandsOf
  <2>3. n % N = n
    BY <1>1, <2>2
  <2>4. Chosen(c, n) = n % N
    BY <1>1, <1>2, <1>4, <2>1, Zenon DEF Chosen
  <2> QED  BY <2>3, <2>4
<1>7. CASE n # 0 /\ ~(N <= OpenAfter)
  <2>1. cell.seq = 0 /\ ~(n <= 0) /\ ~(cell.seq > 0)
    BY <1>3, <1>7
  <2>2. PICK P \in Nat : P = PageSize /\ P > 0
    BY ClausesAssumption
  <2>3. n < N /\ n < 4 * P
    <3>1. PICK f \in Nat : f = 4 * P
      OBVIOUS
    <3>2. n < Min({N, f})
      BY <1>1, <1>7, <2>2, <3>1 DEF CandsOf
    <3> QED  BY <3>1, <3>2, BelowMin
  <2>4. PICK s0, s1, s2, s3 : /\ s0 = OnPage(N, 0) /\ s1 = OnPage(N, 1) /\ s2 = OnPage(N, 2) /\ s3 = OnPage(N, 3)
    OBVIOUS
  <2>5. /\ s0 \in Int /\ s1 \in Int /\ s2 \in Int /\ s3 \in Int
        /\ cell.size[0] = s0 /\ cell.size[1] = s1 /\ cell.size[2] = s2 /\ cell.size[3] = s3
    <3>1. cell.size[0] = s0 /\ cell.size[1] = s1 /\ cell.size[2] = s2 /\ cell.size[3] = s3
      BY <1>3, <1>7, <2>4 DEF Pages
    <3>2. s0 \in Int /\ s1 \in Int /\ s2 \in Int /\ s3 \in Int
      BY <2>2, <2>4 DEF OnPage
    <3> QED  BY <3>1, <3>2
  <2> DEFINE before(p) == IF p = 0 THEN 0 ELSE IF p = 1 THEN cell.size[0]
                          ELSE IF p = 2 THEN cell.size[0] + cell.size[1] ELSE SizeSum(cell) - cell.size[3]
             page == {p \in Pages : /\ \A q \in 0 .. p : cell.size[q] # 0
                                    /\ n >= before(p) /\ n < before(p) + cell.size[p]}
  <2>6. before(0) = 0 /\ before(1) = s0 /\ before(2) = s0 + s1 /\ before(3) = s0 + s1 + s2
    <3>1. before(3) = ((s0 + s1) + s2 + s3) - s3
      BY <2>5 DEF SizeSum
    <3>2. ((s0 + s1) + s2 + s3) - s3 = s0 + s1 + s2
      BY <2>5
    <3> QED  BY <2>5, <3>1, <3>2
  <2>7. page # {}
    <3>1. 0 .. 0 = {0} /\ 0 .. 1 = {0, 1} /\ 0 .. 2 = {0, 1, 2} /\ 0 .. 3 = {0, 1, 2, 3}
      OBVIOUS
    <3> HIDE DEF before
    <3>2. CASE s0 # 0 /\ n < s0
      <4>1. 0 \in page
        BY <2>5, <2>6, <3>1, <3>2 DEF Pages
      <4> QED  BY <4>1
    <3>3. CASE s0 # 0 /\ s1 # 0 /\ n >= s0 /\ n < s0 + s1
      <4>1. 1 \in page
        BY <2>5, <2>6, <3>1, <3>3 DEF Pages
      <4> QED  BY <4>1
    <3>4. CASE s0 # 0 /\ s1 # 0 /\ s2 # 0 /\ n >= s0 + s1 /\ n < s0 + s1 + s2
      <4>1. 2 \in page
        BY <2>5, <2>6, <3>1, <3>4 DEF Pages
      <4> QED  BY <4>1
    <3>5. CASE s0 # 0 /\ s1 # 0 /\ s2 # 0 /\ s3 # 0 /\ n >= s0 + s1 + s2 /\ n < s0 + s1 + s2 + s3
      <4>1. 3 \in page
        BY <2>5, <2>6, <3>1, <3>5 DEF Pages
      <4> QED  BY <4>1
    <3> QED  BY <2>2, <2>3, <2>4, <3>2, <3>3, <3>4, <3>5, PageHolds
  <2>8. Chosen(c, n) = IF page = {} THEN 0 ELSE n
    BY <1>1, <1>2, <1>4, <2>1, Zenon DEF Chosen
  <2> QED  BY <2>7, <2>8
<1> QED  BY <1>5, <1>6, <1>7

LEMMA EndConvPicks ==
  ASSUME ConvInv, NEW c \in Nat, NEW n \in Nat, EndConv(c, n), fixedNum = 0,
         c < Len(candInfo), candInfo[c + 1] # NoInfo, n < CandsOf(c)
  PROVE  answer' = n
<1>1. phase \in {"conv", "auto"} /\ c \in told /\ answer' = Chosen(c, n)
  BY DEF EndConv
<1>2. PICK S : S = CharsIn(phase)
  OBVIOUS
<1>3. Sound(S, comp) /\ Known(candInfo, comp, fixedNum, told)
  BY <1>1, <1>2, InvNow
<1>4. candInfo \in Seq(Cells) /\ c < Len(comp)
      /\ candInfo[c + 1] \in {NoInfo, Listed(NoInfo, NumCands(comp[c + 1].yomi))}
  BY <1>1, <1>3 DEF Known
<1>5. NumCands(comp[c + 1].yomi) \in Nat \ {0}
  BY <1>3, <1>4, SoundIs
<1>6. AllCands(c) = NumCands(comp[c + 1].yomi)
  <2>1. c - fixedNum + 1 = c + 1
    OBVIOUS
  <2> QED  BY <2>1 DEF AllCands
<1> QED  BY <1>1, <1>4, <1>5, <1>6, ChosenIs

---------------------------------------------------------------------------
(* The invariant holds, and what the requests keep.                        *)

LEMMA ConvStep == ConvInv /\ [CNext]_clauseVars => ConvInv'
<1> SUFFICES ASSUME ConvInv, [CNext]_clauseVars  PROVE ConvInv'
  OBVIOUS
<1>1. Clausenums \subseteq Nat /\ Sizes \subseteq Int
  BY ClausesAssumption DEF Clausenums, Sizes
<1>2. ASSUME NEW y \in Inputs, NEW m \in Modes, BeginConv(y, m)  PROVE ConvInv'
  BY <1>2, BeginConvKeeps
<1>3. ASSUME NEW m \in Modes, AutoConv(m) \/ FlushYomi(m)  PROVE ConvInv'
  BY <1>3, AutoConvKeeps, FlushYomiKeeps
<1>4. ASSUME NEW c \in Nat, GetCandiList(c) \/ GetStatus(c) \/ GetYomi(c) \/ RemoveYomi(c)  PROVE ConvInv'
  BY <1>4, GetCandiListKeeps, GetStatusKeeps, YomiAsked, RemoveYomiIs
<1>5. ASSUME NEW c, NEW n, EndConv(c, n)  PROVE ConvInv'
  BY <1>5, EndConvKeeps
<1>6. ASSUME NEW c \in Nat, NEW y \in Inputs, StoreYomi(c, y) \/ StoreRange(c, y)  PROVE ConvInv'
  BY <1>6, StoreYomiIs, StoreRangeIs
<1>7. ASSUME NEW c \in Nat, NEW size \in Int, ResizePause(c, size)  PROVE ConvInv'
  BY <1>7, ResizePauseKeeps
<1>8. ASSUME NEW b \in Nat, NEW e \in Nat, NEW y \in Inputs, SubstYomi(b, e, y)  PROVE ConvInv'
  BY <1>8, SubstYomiIs
<1>9. ASSUME EndPlain \/ GetLastYomi \/ Restart \/ UNCHANGED clauseVars  PROVE ConvInv'
  BY <1>9, EndPlainKeeps, YomiAsked, RestartKeeps
<1> QED  BY <1>1, <1>2, <1>3, <1>4, <1>5, <1>6, <1>7, <1>8, <1>9 DEF CNext

\* Whatever is asked, in whatever order: clauses begin whole, fixed ones are
\* those counted, and what the server remembers of a clause whose list the
\* client holds is that list or nothing (apisup.c:718-784, canna.c:848-903).
THEOREM ConversionInvariant == CSpec => []ConvInv
<1>1. CInit => ConvInv
  BY InitInv
<1> QED  BY <1>1, ConvStep, PTL DEF CSpec

\* Every request is told apart by its name.
LEMMA RequestNamed ==
  /\ \A y, m : BeginConv(y, m) => request'[1] = "BeginConv"
  /\ \A m : AutoConv(m) => request'[1] = "AutoConv"
  /\ \A m : FlushYomi(m) => request'[1] = "FlushYomi"
  /\ \A c : GetCandiList(c) => request'[1] = "GetCandiList"
  /\ \A c : GetStatus(c) => request'[1] = "GetStatus"
  /\ \A c : GetYomi(c) => request'[1] = "GetYomi"
  /\ \A c, size : ResizePause(c, size) => request'[1] = "ResizePause"
  /\ EndPlain => request'[1] = "EndPlain"
  /\ GetLastYomi => request'[1] = "GetLastYomi"
  /\ Restart => request'[1] = "Restart"
<1>1. \A y, m : BeginConv(y, m) => request'[1] = "BeginConv"
  <2>1. \A y, m : BeginConv(y, m) => request' = <<"BeginConv">>
    BY Zenon DEF BeginConv
  <2> QED  BY <2>1
<1>2. \A m : AutoConv(m) => request'[1] = "AutoConv"
  <2>1. \A m : AutoConv(m) => request' = <<"AutoConv">>
    BY Zenon DEF AutoConv
  <2> QED  BY <2>1
<1>3. \A m : FlushYomi(m) => request'[1] = "FlushYomi"
  <2>1. \A m : FlushYomi(m) => request' = <<"FlushYomi">>
    BY Zenon DEF FlushYomi
  <2> QED  BY <2>1
<1>4. \A c : GetCandiList(c) => request'[1] = "GetCandiList"
  <2>1. \A c : GetCandiList(c) => request' = <<"GetCandiList", c>>
    BY Zenon DEF GetCandiList
  <2> QED  BY <2>1
<1>5. \A c : GetStatus(c) => request'[1] = "GetStatus"
  <2>1. \A c : GetStatus(c) => request' = <<"GetStatus", c>>
    BY Zenon DEF GetStatus
  <2> QED  BY <2>1
<1>6. \A c : GetYomi(c) => request'[1] = "GetYomi"
  <2>1. \A c : GetYomi(c) => request' = <<"GetYomi", c>>
    BY Zenon DEF GetYomi
  <2> QED  BY <2>1
<1>7. \A c, size : ResizePause(c, size) => request'[1] = "ResizePause"
  <2>1. \A c, size : ResizePause(c, size) => request' = <<"ResizePause", c, size>>
    BY ZenonT(60) DEF ResizePause
  <2> QED  BY <2>1
<1>8. EndPlain => request'[1] = "EndPlain"
  BY DEF EndPlain
<1>9. GetLastYomi => request'[1] = "GetLastYomi"
  BY DEF GetLastYomi
<1>10. Restart => request'[1] = "Restart"
  BY DEF Restart
<1> QED  BY <1>1, <1>2, <1>3, <1>4, <1>5, <1>6, <1>7, <1>8, <1>9, <1>10

\* The requests that the properties are about.
EditRequests == {"StoreYomi", "StoreRange", "RemoveYomi", "SubstYomi", "EndConv"}

LEMMA RequestIs ==
  ASSUME CNext
  PROVE  /\ request'[1] = "StoreYomi" =>
               \E c \in Nat, y \in Inputs : StoreYomi(c, y) /\ request'[2] = c /\ request'[3] = y
         /\ request'[1] = "StoreRange" =>
               \E c \in Nat, y \in Inputs : StoreRange(c, y) /\ request'[2] = c /\ request'[3] = y
         /\ request'[1] = "RemoveYomi" => \E c \in Nat : RemoveYomi(c) /\ request'[2] = c
         /\ request'[1] = "EndConv" => \E c, n \in Nat : EndConv(c, n) /\ request'[2] = c /\ request'[3] = n
         /\ request'[1] = "SubstYomi" =>
               \E b, e \in Nat, y \in Inputs :
                  SubstYomi(b, e, y) /\ request'[2] = b /\ request'[3] = e /\ request'[4] = y
<1>1. Clausenums \subseteq Nat
  BY ClausesAssumption DEF Clausenums
<1>2. \A c, y : StoreYomi(c, y) => request' = <<"StoreYomi", c, y>>
  BY Zenon DEF StoreYomi
<1>3. \A c, y : StoreRange(c, y) => request' = <<"StoreRange", c, y>>
  BY Zenon DEF StoreRange
<1>4. \A c : RemoveYomi(c) => request' = <<"RemoveYomi", c>>
  BY Zenon DEF RemoveYomi
<1>5. \A c, n : EndConv(c, n) => request' = <<"EndConv", c, n>>
  BY Zenon DEF EndConv
<1>6. \A b, e, y : SubstYomi(b, e, y) => request' = <<"SubstYomi", b, e, y>>
  BY Zenon DEF SubstYomi
<1>7. \/ \E c \in Nat, y \in Inputs : StoreYomi(c, y)
      \/ \E c \in Nat, y \in Inputs : StoreRange(c, y)
      \/ \E c \in Nat : RemoveYomi(c)
      \/ \E c, n \in Nat : EndConv(c, n)
      \/ \E b, e \in Nat, y \in Inputs : SubstYomi(b, e, y)
      \/ request'[1] \notin EditRequests
  BY <1>1, RequestNamed DEF CNext, EditRequests
<1>8. CASE request'[1] \notin EditRequests
  BY <1>8 DEF EditRequests
<1>9. ASSUME NEW c \in Nat, NEW y \in Inputs, StoreYomi(c, y)
      PROVE  StoreYomi(c, y) /\ request'[1] = "StoreYomi" /\ request'[2] = c /\ request'[3] = y
  BY <1>2, <1>9
<1>10. ASSUME NEW c \in Nat, NEW y \in Inputs, StoreRange(c, y)
       PROVE  StoreRange(c, y) /\ request'[1] = "StoreRange" /\ request'[2] = c /\ request'[3] = y
  BY <1>3, <1>10
<1>11. ASSUME NEW c \in Nat, RemoveYomi(c)
       PROVE  RemoveYomi(c) /\ request'[1] = "RemoveYomi" /\ request'[2] = c
  BY <1>4, <1>11
<1>12. ASSUME NEW c \in Nat, NEW n \in Nat, EndConv(c, n)
       PROVE  EndConv(c, n) /\ request'[1] = "EndConv" /\ request'[2] = c /\ request'[3] = n
  BY <1>5, <1>12
<1>13. ASSUME NEW b \in Nat, NEW e \in Nat, NEW y \in Inputs, SubstYomi(b, e, y)
       PROVE  /\ SubstYomi(b, e, y) /\ request'[1] = "SubstYomi"
              /\ request'[2] = b /\ request'[3] = e /\ request'[4] = y
  BY <1>6, <1>13
<1> QED  BY <1>7, <1>8, <1>9, <1>10, <1>11, <1>12, <1>13

\* As long as the IME has fixed no clause, StoreYomi and RemoveYomi change
\* what they are asked to and nothing else of the reading, however the IME
\* cuts the rest (canna.c:1247-1269, 1599-1607).
THEOREM OneClauseEdited == CSpec => EditsOneClause
<1>1. ASSUME ConvInv, CNext, fixedNum = 0
      PROVE  /\ Asked("StoreYomi") /\ answer' # -1 =>
                   Reading(comp') = Before(request'[2]) \o request'[3] \o After(request'[2])
             /\ Asked("RemoveYomi") => Reading(comp') = After(request'[2])
  <2>1. ASSUME Asked("StoreYomi"), answer' # -1
        PROVE  Reading(comp') = Before(request'[2]) \o request'[3] \o After(request'[2])
    <3>1. request'[1] = "StoreYomi" /\ phase' # "dead"
      BY <2>1 DEF Asked
    <3>2. PICK c \in Nat, y \in Inputs : StoreYomi(c, y) /\ request'[2] = c /\ request'[3] = y
      BY <1>1, <3>1, RequestIs
    <3>3. Stored(c, y)
      BY <1>1, <2>1, <3>1, <3>2, StoreYomiIs
    <3> QED  BY <3>2, <3>3, Zenon DEF Stored
  <2>2. ASSUME Asked("RemoveYomi")  PROVE Reading(comp') = After(request'[2])
    <3>1. PICK c \in Nat : RemoveYomi(c) /\ request'[2] = c
      BY <1>1, <2>2, RequestIs DEF Asked
    <3> QED  BY <1>1, <3>1, RemoveYomiIs
  <2> QED  BY <2>1, <2>2
<1>2. ConvInv /\ [CNext]_clauseVars =>
        [fixedNum = 0 =>
          /\ Asked("StoreYomi") /\ answer' # -1 =>
                Reading(comp') = Before(request'[2]) \o request'[3] \o After(request'[2])
          /\ Asked("RemoveYomi") => Reading(comp') = After(request'[2])]_clauseVars
  BY <1>1
<1> QED  BY <1>2, ConversionInvariant, PTL DEF CSpec, EditsOneClause

\* Clauses in front of the one before the clause whose reading is stored are
\* cut as they were, unless the IME refuses a boundary (canna.c:1334-1356).
THEOREM LeftAsCut == CSpec => LeftKept
<1>1. ASSUME ConvInv, CNext, Asked("StoreYomi"), answer' # -1, fixedNum = 0
      PROVE  SubSeq(Yomis(comp'), 1, request'[2] - 1) = SubSeq(Yomis(comp), 1, request'[2] - 1)
  <2>1. request'[1] = "StoreYomi" /\ phase' # "dead"
    BY <1>1 DEF Asked
  <2>2. PICK c \in Nat, y \in Inputs : StoreYomi(c, y) /\ request'[2] = c /\ request'[3] = y
    BY <1>1, <2>1, RequestIs
  <2>3. Stored(c, y)
    BY <1>1, <2>1, <2>2, StoreYomiIs
  <2> QED  BY <2>2, <2>3, Zenon DEF Stored
<1>2. ConvInv /\ [CNext]_clauseVars =>
        [Asked("StoreYomi") /\ answer' # -1 /\ fixedNum = 0 =>
          SubSeq(Yomis(comp'), 1, request'[2] - 1) = SubSeq(Yomis(comp), 1, request'[2] - 1)]_clauseVars
  BY <1>1
<1> QED  BY <1>2, ConversionInvariant, PTL DEF CSpec, LeftKept

\* StoreRange that the IME has not refused leaves the other clauses cut as
\* they were, and makes the new reading one (canna.c:1455-1467).
THEOREM OthersAsCut == CSpec => OthersKept
<1>1. ASSUME ConvInv, CNext, Asked("StoreRange"), answer' # -1
      PROVE  Yomis(comp') = [Yomis(comp) EXCEPT ![request'[2] + 1] = request'[3]]
  <2>1. PICK c \in Nat, y \in Inputs : StoreRange(c, y) /\ request'[2] = c /\ request'[3] = y
    BY <1>1, RequestIs DEF Asked
  <2>2. Yomis(comp') = [Yomis(comp) EXCEPT ![c + 1] = y]
    BY <1>1, <2>1, StoreRangeIs
  <2> QED  BY <2>1, <2>2, Zenon
<1>2. ConvInv /\ [CNext]_clauseVars =>
        [Asked("StoreRange") /\ answer' # -1 =>
          Yomis(comp') = [Yomis(comp) EXCEPT ![request'[2] + 1] = request'[3]]]_clauseVars
  BY <1>1
<1> QED  BY <1>2, ConversionInvariant, PTL DEF CSpec, OthersKept

\* EndConv commits the candidate named, from whichever page of the list it is,
\* if the server still has the information on the clause (canna.c:610-679).
THEOREM ListedPicked == CSpec => PicksListed
<1>1. ASSUME ConvInv, CNext, Asked("EndConv"), fixedNum = 0
      PROVE  LET c == request'[2]
             IN  c < Len(candInfo) /\ candInfo[c + 1] # NoInfo /\ request'[3] < CandsOf(c) => answer' = request'[3]
  <2>1. PICK c, n \in Nat : EndConv(c, n) /\ request'[2] = c /\ request'[3] = n
    BY <1>1, RequestIs DEF Asked
  <2>2. c < Len(candInfo) /\ candInfo[c + 1] # NoInfo /\ n < CandsOf(c) => answer' = n
    BY <1>1, <2>1, EndConvPicks
  <2> QED  BY <2>1, <2>2, Zenon
<1>2. ConvInv /\ [CNext]_clauseVars =>
        [Asked("EndConv") /\ fixedNum = 0 =>
          LET c == request'[2]
          IN  c < Len(candInfo) /\ candInfo[c + 1] # NoInfo /\ request'[3] < CandsOf(c) => answer' = request'[3]]_clauseVars
  BY <1>1
<1> QED  BY <1>2, ConversionInvariant, PTL DEF CSpec, PicksListed

\* An edit of the client's buffer, where the server takes that to start after
\* what is converted, changes the buffer as asked and nothing that is
\* converted already (canna.c:1176-1215).
THEOREM BufferEdited == CSpec => SubstEdits
<1>1. ASSUME ConvInv, CNext, Asked("SubstYomi"), fixedNum = 0, comp' # comp,
             bufStart = Len(ConvertedReading), bufStart + request'[3] > 0
      PROVE  FlattenSeq(result') \o Reading(comp') =
                ConvertedReading \o SubSeq(Unconverted, 1, request'[2]) \o request'[4]
                    \o SubSeq(Unconverted, request'[3] + 1, Len(Unconverted))
  <2>1. PICK b, e \in Nat, y \in Inputs :
                SubstYomi(b, e, y) /\ request'[2] = b /\ request'[3] = e /\ request'[4] = y
    BY <1>1, RequestIs DEF Asked
  <2>2. Edits(b, e, y)
    BY <1>1, <2>1, SubstYomiIs
  <2> QED  BY <2>1, <2>2, Zenon DEF Edits
<1>2. ConvInv /\ [CNext]_clauseVars =>
        [Asked("SubstYomi") /\ fixedNum = 0 /\ comp' # comp /\ bufStart = Len(ConvertedReading)
           /\ bufStart + request'[3] > 0 =>
          FlattenSeq(result') \o Reading(comp') =
              ConvertedReading \o SubSeq(Unconverted, 1, request'[2]) \o request'[4]
                  \o SubSeq(Unconverted, request'[3] + 1, Len(Unconverted))]_clauseVars
  BY <1>1
<1> QED  BY <1>2, ConversionInvariant, PTL DEF CSpec, SubstEdits

=============================================================================
