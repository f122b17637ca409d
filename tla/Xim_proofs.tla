---------------------------- MODULE Xim_proofs ----------------------------
(***************************************************************************)
(* Proofs about the XIM server.                                            *)
(*                                                                         *)
(* Steps are seen from Queue, the messages put aside, the one to be put     *)
(* aside, and X's events, in one sequence: a step takes a message out of it, *)
(* or adds one at its end.  QInv says of each client, of each WxContext and  *)
(* of each message in Queue how they fit together; Owned says that each IC   *)
(* has its context.  The parts:                                            *)
(*   sequences of messages, and recursion;                                 *)
(*   the invariant;                                                        *)
(*   what of it a step keeps that carries the queue on (Carried);          *)
(*   what each handler leaves (lemmas named ...Turns);                     *)
(*   types, then QInv, action by action (lemmas named ...Kept), then Owned; *)
(*   the theorems.                                                         *)
(***************************************************************************)
EXTENDS Xim, FiniteSetTheorems, SequenceTheorems, WellFoundedInduction, TLAPS

---------------------------------------------------------------------------
(* The queue: what has been put aside, what is to be, and what X brings,    *)
(* one after the other.  A step takes one message out of it, or adds one.   *)

\* Two sequences in one, and three.
LEMMA Joined ==
  ASSUME NEW T, NEW s \in Seq(T), NEW t \in Seq(T), NEW m, NEW k, Len(s) = m, Len(t) = k
  PROVE  /\ s \o t \in Seq(T)
         /\ Len(s \o t) = m + k
         /\ \A j \in 1 .. m + k : (s \o t)[j] = IF j <= m THEN s[j] ELSE t[j - m]
BY ConcatProperties

Parts(q, a, b, c, k, l, n) ==
    /\ Len(q) = k + l + n
    /\ \A i \in 1 .. k + l + n :
          q[i] = IF i <= k THEN a[i] ELSE IF i <= k + l THEN b[i - k] ELSE c[i - k - l]
LEMMA ThreeInOne ==
  ASSUME NEW T, NEW a \in Seq(T), NEW b \in Seq(T), NEW c \in Seq(T),
         NEW k \in Nat, NEW l \in Nat, NEW n \in Nat,
         k = Len(a), l = Len(b), n = Len(c)
  PROVE  a \o b \o c \in Seq(T) /\ Parts(a \o b \o c, a, b, c, k, l, n)
<1>1. /\ a \o b \in Seq(T) /\ Len(a \o b) = k + l
      /\ \A i \in 1 .. k + l : (a \o b)[i] = IF i <= k THEN a[i] ELSE b[i - k]
  BY Joined
<1> DEFINE ab == a \o b
<1>2. PICK kl \in Nat : kl = k + l
  OBVIOUS
<1>3. /\ ab \o c \in Seq(T) /\ Len(ab \o c) = kl + n
      /\ \A i \in 1 .. kl + n : (ab \o c)[i] = IF i <= kl THEN ab[i] ELSE c[i - kl]
  <2>1. ab \in Seq(T) /\ Len(ab) = kl
    BY <1>1, <1>2
  <2> HIDE DEF ab
  <2> QED  BY <2>1, Joined
<1>4. ASSUME NEW i \in 1 .. k + l + n
      PROVE  (ab \o c)[i] = IF i <= k THEN a[i]
                            ELSE IF i <= k + l THEN b[i - k] ELSE c[i - k - l]
  <2>1. i <= k + l => ab[i] = IF i <= k THEN a[i] ELSE b[i - k]
    BY <1>1
  <2>2. i <= k => i <= k + l
    OBVIOUS
  <2>3. i - kl = i - k - l /\ i \in 1 .. kl + n
    BY <1>2
  <2> HIDE DEF ab
  <2> QED  BY <1>2, <1>3, <2>1, <2>2, <2>3
<1> QED  BY <1>2, <1>3, <1>4 DEF Parts

\* An element is taken out of a sequence.
Came(j, p) == IF j < p THEN j ELSE j + 1
Shorter(r, q, p, n) == Len(r) = n - 1 /\ \A j \in 1 .. n - 1 : r[j] = q[Came(j, p)]
LEMMA Removal ==
  ASSUME NEW T, NEW s \in Seq(T), NEW n \in Nat, n = Len(s), NEW i \in 1 .. n
  PROVE  RemoveAt(s, i) \in Seq(T) /\ Shorter(RemoveAt(s, i), s, i, n)
<1> DEFINE l == SubSeq(s, 1, i - 1)
           r == SubSeq(s, i + 1, n)
<1>1. \A j \in 1 .. n : s[j] \in T
  BY ElementOfSeq
<1>2. l \in Seq(T) /\ Len(l) = i - 1 /\ \A j \in 1 .. i - 1 : l[j] = s[j]
  <2>1. 1 \in Int /\ i - 1 \in Int /\ \A j \in 1 .. i - 1 : s[j] \in T
    BY <1>1
  <2>2. /\ l \in Seq(T) /\ Len(l) = IF 1 <= i - 1 THEN i - 1 - 1 + 1 ELSE 0
        /\ \A j \in 1 .. i - 1 - 1 + 1 : l[j] = s[1 + j - 1]
    BY <2>1, SubSeqProperties
  <2> HIDE DEF l
  <2> QED  BY <2>2
<1>3. r \in Seq(T) /\ Len(r) = n - i /\ \A j \in 1 .. n - i : r[j] = s[i + j]
  <2>1. i + 1 \in Int /\ n \in Int /\ \A j \in i + 1 .. n : s[j] \in T
    BY <1>1
  <2>2. /\ r \in Seq(T) /\ Len(r) = IF i + 1 <= n THEN n - (i + 1) + 1 ELSE 0
        /\ \A j \in 1 .. n - (i + 1) + 1 : r[j] = s[(i + 1) + j - 1]
    BY <2>1, SubSeqProperties
  <2> HIDE DEF r
  <2> QED  BY <2>2
<1>4. RemoveAt(s, i) = l \o r
  BY DEF RemoveAt
<1> HIDE DEF l, r
<1>5. PICK k \in Nat, m \in Nat : k = i - 1 /\ m = n - i
  <2>1. i - 1 \in Nat /\ n - i \in Nat
    OBVIOUS
  <2> QED  BY <2>1
<1>6. /\ l \o r \in Seq(T) /\ Len(l \o r) = k + m
      /\ \A j \in 1 .. k + m : (l \o r)[j] = IF j <= k THEN l[j] ELSE r[j - k]
  <2>1. l \in Seq(T) /\ r \in Seq(T) /\ Len(l) = k /\ Len(r) = m
    BY <1>2, <1>3, <1>5
  <2>2. /\ l \o r \in Seq(T) /\ Len(l \o r) = Len(l) + Len(r)
        /\ \A j \in 1 .. Len(l) + Len(r) :
              (l \o r)[j] = IF j <= Len(l) THEN l[j] ELSE r[j - Len(l)]
    BY <2>1, ConcatProperties
  <2> QED  BY <2>1, <2>2
<1>7. k + m = n - 1
  BY <1>5
<1>8. ASSUME NEW j \in 1 .. n - 1  PROVE (l \o r)[j] = s[Came(j, i)]
  <2>1. CASE j < i
    <3>1. j <= k /\ j \in 1 .. i - 1 /\ j \in 1 .. k + m
      BY <1>5, <2>1
    <3> QED  BY <1>2, <1>6, <2>1, <3>1 DEF Came
  <2>2. CASE ~(j < i)
    <3>1. ~(j <= k) /\ j - k \in 1 .. n - i /\ i + (j - k) = j + 1 /\ j \in 1 .. k + m
      BY <1>5, <2>2
    <3>2. r[j - k] = s[i + (j - k)]
      BY <1>3, <3>1
    <3> QED  BY <1>6, <2>2, <3>1, <3>2 DEF Came
  <2> QED  BY <2>1, <2>2
<1> QED  BY <1>4, <1>6, <1>7, <1>8 DEF Shorter

\* q without its p-th element, or q2 is that with the server's own error
\* message at the end.
ErrorMessage == [t |-> "MESSAGE", from |-> "self", major |-> "ERROR", imid |-> 0, arg |-> ""]
Drops(q, p, r) ==
    /\ p \in 1 .. Len(q) /\ Len(r) \in {Len(q) - 1, Len(q)}
    /\ \A j \in 1 .. Len(r) : IF j < Len(q) THEN r[j] = q[Came(j, p)] ELSE r[j] = ErrorMessage

\* The event at the head is the one after what has been put aside.
LEMMA HeadDrops ==
  ASSUME NEW T, NEW a \in Seq(T), NEW c \in Seq(T), c # <<>>, NEW k \in Nat, k = Len(a)
  PROVE  /\ k + 1 \in 1 .. Len(a \o <<>> \o c) /\ (a \o <<>> \o c)[k + 1] = Head(c)
         /\ Tail(c) \in Seq(T)
         /\ Drops(a \o <<>> \o c, k + 1, a \o <<>> \o Tail(c))
         /\ Len(a \o <<>> \o Tail(c)) = Len(a \o <<>> \o c) - 1
<1>1. PICK n \in Nat : n = Len(c)
  OBVIOUS
<1>2. PICK m \in Nat : m = n - 1 /\ n > 0
  BY <1>1, EmptySeq
<1>3. Tail(c) \in Seq(T) /\ Len(Tail(c)) = m /\ \A i \in 1 .. m : Tail(c)[i] = c[i + 1]
  BY <1>1, <1>2, HeadTailProperties
<1>4. PICK d : d = Tail(c)
  OBVIOUS
<1>5. PICK z : z = <<>> /\ z \in Seq(T) /\ Len(z) = 0
  BY EmptySeq
<1>6. d \in Seq(T) /\ Len(d) = m /\ \A i \in 1 .. m : d[i] = c[i + 1]
  BY <1>3, <1>4
<1>7. PICK o \in Nat : o = 0 /\ o = Len(z)
  BY <1>5
<1>8. Parts(a \o z \o c, a, z, c, k, o, n)
  BY <1>1, <1>5, <1>7, ThreeInOne
<1>9. Parts(a \o z \o d, a, z, d, k, o, m)
  <2>1. m = Len(d)
    BY <1>6
  <2> QED  BY <1>5, <1>6, <1>7, <2>1, ThreeInOne
<1>10. PICK q, r : q = a \o z \o c /\ r = a \o z \o d
  OBVIOUS
<1>11. /\ Len(q) = k + n /\ Len(r) = k + n - 1
       /\ \A i \in 1 .. k + n : q[i] = IF i <= k THEN a[i] ELSE c[i - k]
       /\ \A i \in 1 .. k + n - 1 : r[i] = IF i <= k THEN a[i] ELSE d[i - k]
  BY <1>2, <1>7, <1>8, <1>9, <1>10 DEF Parts
<1>12. ASSUME NEW j \in 1 .. k + n - 1  PROVE r[j] = q[Came(j, k + 1)]
  <2>1. CASE j <= k
    <3>1. j \in 1 .. k + n /\ j < k + 1
      BY <1>2, <2>1
    <3>2. r[j] = a[j] /\ q[j] = a[j]
      BY <1>11, <2>1, <3>1
    <3> QED  BY <3>1, <3>2 DEF Came
  <2>2. CASE j > k
    <3>1. j - k \in 1 .. m /\ j + 1 \in 1 .. k + n /\ (j + 1) - k = (j - k) + 1
      BY <1>2, <2>2
    <3>2. d[j - k] = c[(j - k) + 1]
      BY <1>6, <3>1
    <3>3. q[j + 1] = c[(j + 1) - k]
      BY <1>11, <2>2, <3>1
    <3>4. r[j] = d[j - k]
      <4>1. ~(j <= k)
        BY <2>2
      <4> QED  BY <1>11, <4>1
    <3>5. Came(j, k + 1) = j + 1
      BY <2>2 DEF Came
    <3> QED  BY <3>1, <3>2, <3>3, <3>4, <3>5
  <2> QED  BY <2>1, <2>2
<1>13. Drops(q, k + 1, r)
  BY <1>2, <1>11, <1>12 DEF Drops
<1>14. q[k + 1] = Head(c) /\ Len(r) = Len(q) - 1
  <2>1. q[k + 1] = c[1]
    <3>1. k + 1 \in 1 .. k + n /\ ~(k + 1 <= k) /\ (k + 1) - k = 1
      BY <1>2
    <3> QED  BY <1>11, <3>1
  <2>2. Len(r) = Len(q) - 1
    BY <1>11
  <2> QED  BY <2>1, <2>2
<1> QED  BY <1>2, <1>3, <1>4, <1>5, <1>10, <1>11, <1>13, <1>14

\* A message that was put aside is taken out.
LEMMA AsideDrops ==
  ASSUME NEW T, NEW a \in Seq(T), NEW b \in Seq(T), NEW c \in Seq(T),
         NEW k \in Nat, k = Len(a), NEW i \in 1 .. k
  PROVE  /\ i \in 1 .. Len(a \o b \o c) /\ (a \o b \o c)[i] = a[i]
         /\ RemoveAt(a, i) \in Seq(T) /\ Shorter(RemoveAt(a, i), a, i, k)
         /\ Drops(a \o b \o c, i, RemoveAt(a, i) \o b \o c)
         /\ Len(RemoveAt(a, i) \o b \o c) = Len(a \o b \o c) - 1
<1>1. PICK l \in Nat, n \in Nat : l = Len(b) /\ n = Len(c)
  OBVIOUS
<1>2. PICK d : d = RemoveAt(a, i)
  OBVIOUS
<1>3. d \in Seq(T) /\ Len(d) = k - 1 /\ \A j \in 1 .. k - 1 : d[j] = IF j < i THEN a[j] ELSE a[j + 1]
  <2>1. RemoveAt(a, i) \in Seq(T) /\ Shorter(RemoveAt(a, i), a, i, k)
    BY Removal
  <2> QED  BY <1>2, <2>1 DEF Shorter, Came
<1>4. PICK m \in Nat : m = k - 1 /\ k > 0
  <2>1. k - 1 \in Nat /\ k > 0
    OBVIOUS
  <2> QED  BY <2>1
<1>5. PICK q, r : q = a \o b \o c /\ r = d \o b \o c
  OBVIOUS
<1>6. /\ Len(q) = k + l + n
      /\ \A j \in 1 .. k + l + n :
            q[j] = IF j <= k THEN a[j] ELSE IF j <= k + l THEN b[j - k] ELSE c[j - k - l]
  <2>1. Parts(a \o b \o c, a, b, c, k, l, n)
    BY <1>1, ThreeInOne
  <2> QED  BY <1>5, <2>1 DEF Parts
<1>7. /\ Len(r) = m + l + n
      /\ \A j \in 1 .. m + l + n :
            r[j] = IF j <= m THEN d[j] ELSE IF j <= m + l THEN b[j - m] ELSE c[j - m - l]
  <2>0. d \in Seq(T) /\ m = Len(d)
    BY <1>3, <1>4
  <2>1. Parts(d \o b \o c, d, b, c, m, l, n)
    BY <1>1, <1>4, <2>0, ThreeInOne
  <2> QED  BY <1>5, <2>1 DEF Parts
<1>8. ASSUME NEW j \in 1 .. k + l + n - 1  PROVE r[j] = q[Came(j, i)]
  <2>0. i \in 1 .. k /\ j \in 1 .. m + l + n /\ j + 1 \in 1 .. k + l + n /\ j \in 1 .. k + l + n
    BY <1>1, <1>4
  <2>1. CASE j < i
    BY <1>3, <1>4, <1>6, <1>7, <2>0, <2>1 DEF Came
  <2>2. CASE j >= i /\ j <= m
    <3>1. r[j] = d[j]
      BY <1>7, <2>0, <2>2
    <3>0. d[j] = a[j + 1]
      BY <1>3, <1>4, <2>0, <2>2
    <3>2. q[j + 1] = a[j + 1]
      BY <1>4, <1>6, <2>0, <2>2
    <3> QED  BY <2>2, <2>0, <3>0, <3>1, <3>2 DEF Came
  <2>3. CASE j > m /\ j <= m + l
    <3>1. r[j] = b[j - m]
      BY <1>7, <2>0, <2>3
    <3>2. q[j + 1] = b[(j + 1) - k] /\ (j + 1) - k = j - m
      BY <1>4, <1>6, <2>0, <2>3
    <3> QED  BY <1>4, <2>3, <2>0, <3>1, <3>2 DEF Came
  <2>4. CASE j > m + l
    <3>1. r[j] = c[j - m - l]
      <4>1. ~(j <= m) /\ ~(j <= m + l)
        BY <2>0, <2>4
      <4> QED  BY <1>7, <2>0, <4>1
    <3>2. q[j + 1] = c[(j + 1) - k - l] /\ (j + 1) - k - l = j - m - l
      BY <1>4, <1>6, <2>0, <2>4
    <3>3. ~(j < i)
      BY <1>4, <2>4, <2>0
    <3> QED  BY <3>1, <3>2, <3>3 DEF Came
  <2> QED  BY <1>4, <2>1, <2>2, <2>3, <2>4
<1>9. Drops(q, i, r)
  BY <1>1, <1>4, <1>6, <1>7, <1>8 DEF Drops
<1>10. i \in 1 .. Len(q) /\ q[i] = a[i] /\ Len(r) = Len(q) - 1
  BY <1>1, <1>4, <1>6, <1>7
<1>11. Shorter(RemoveAt(a, i), a, i, k)
  BY Removal
<1> QED  BY <1>1, <1>2, <1>3, <1>5, <1>9, <1>10, <1>11

\* Putting aside the message at the head leaves the whole as it is.
LEMMA HeadAside ==
  ASSUME NEW T, NEW a \in Seq(T), NEW c \in Seq(T), c # <<>>
  PROVE  a \o <<Head(c)>> \o Tail(c) = a \o <<>> \o c
<1>1. Head(c) \in T /\ Tail(c) \in Seq(T) /\ <<Head(c)>> \o Tail(c) = c
  <2>0. PICK n \in Nat : n = Len(c) /\ n >= 1
    <3>1. Len(c) \in Nat /\ Len(c) >= 1
      BY EmptySeq
    <3> QED  BY <3>1
  <2>1. PICK one \in Nat : n = Len(c) /\ n >= 1 /\ one = 1
    BY <2>0
  <2>x. PICK h, d : h = Head(c) /\ d = Tail(c)
    OBVIOUS
  <2>2. PICK m \in Nat : h = Head(c) /\ d = Tail(c) /\ m = n - 1
    <3>1. n - 1 \in Nat
      BY <2>1
    <3> QED  BY <2>x, <3>1
  <2>3. /\ h \in T /\ d \in Seq(T) /\ Len(d) = m /\ h = c[1]
        /\ \A i \in 1 .. m : d[i] = c[i + 1]
    BY <2>1, <2>2, HeadTailProperties
  <2>4. <<h>> \in Seq(T) /\ Len(<<h>>) = one /\ <<h>>[1] = h
    BY <2>1, <2>3
  <2>5. PICK f : f = <<h>>
    OBVIOUS
  <2>6. /\ f \o d \in Seq(T) /\ Len(f \o d) = one + m
        /\ \A j \in 1 .. one + m : (f \o d)[j] = IF j <= one THEN f[j] ELSE d[j - one]
    BY <2>3, <2>4, <2>5, Joined
  <2>7. ASSUME NEW j \in 1 .. n  PROVE (f \o d)[j] = c[j]
    <3>1. (f \o d)[j] = IF j <= one THEN f[j] ELSE d[j - one]
      BY <2>1, <2>2, <2>6
    <3>2. CASE j = 1
      BY <2>1, <2>3, <2>4, <2>5, <3>1, <3>2
    <3>3. CASE j > 1
      <4>1. j - one \in 1 .. m /\ (j - one) + 1 = j /\ ~(j <= one)
        BY <2>1, <2>2, <3>3
      <4>2. d[j - one] = c[(j - one) + 1]
        BY <2>3, <4>1
      <4> QED  BY <3>1, <4>1, <4>2
    <3>4. j = 1 \/ j > 1
      OBVIOUS
    <3> QED  BY <3>2, <3>3, <3>4
  <2>8. Len(f \o d) = Len(c)
    BY <2>1, <2>2, <2>6
  <2>9. f \o d = c
    <3>1. PICK q \in Seq(T) : q = f \o d
      BY <2>6
    <3>2. Len(q) = Len(c) /\ \A i \in 1 .. Len(q) : q[i] = c[i]
      BY <2>1, <2>7, <2>8, <3>1
    <3> QED  BY <3>1, <3>2, SeqEqual
  <2> QED  BY <2>2, <2>3, <2>5, <2>9
<1>2. <<Head(c)>> \in Seq(T)
  BY <1>1
<1>3. (a \o <<Head(c)>>) \o Tail(c) = a \o (<<Head(c)>> \o Tail(c))
  BY <1>1, <1>2, ConcatAssociative
<1>4. a \o <<>> = a
  BY ConcatEmptySeq
<1> QED  BY <1>1, <1>3, <1>4

\* An event comes in at the end.
Longer(r, q, x, n) == /\ Len(r) = n + 1 /\ r[n + 1] = x
                      /\ \A j \in 1 .. n : r[j] = q[j]
LEMMA EndComes ==
  ASSUME NEW T, NEW a \in Seq(T), NEW b \in Seq(T), NEW c \in Seq(T), NEW x \in T,
         NEW n \in Nat, n = Len(a \o b \o c)
  PROVE  Longer(a \o b \o Append(c, x), a \o b \o c, x, n)
<1>1. PICK ab \in Seq(T) : ab = a \o b
  BY ConcatProperties
<1>2. ab \o Append(c, x) = Append(ab \o c, x)
  <2>1. Append(c, x) = c \o <<x>> /\ <<x>> \in Seq(T)
    BY AppendIsConcat
  <2>2. ab \o (c \o <<x>>) = (ab \o c) \o <<x>>
    BY <2>1, ConcatAssociative
  <2>3. ab \o c \in Seq(T)
    BY ConcatProperties
  <2>4. Append(ab \o c, x) = (ab \o c) \o <<x>>
    BY <2>3, AppendIsConcat
  <2> QED  BY <2>1, <2>2, <2>4
<1>3. PICK q \in Seq(T) : q = ab \o c
  BY ConcatProperties
<1>4. n = Len(q)
  BY <1>1, <1>3
<1>5. /\ Len(Append(q, x)) = n + 1
      /\ \A i \in 1 .. n : Append(q, x)[i] = q[i]
      /\ Append(q, x)[n + 1] = x
  BY <1>4, AppendProperties
<1> QED  BY <1>1, <1>2, <1>3, <1>5 DEF Longer

\* And the server's error may come in where one went.
LEMMA ErrorAfter ==
  ASSUME NEW T, NEW q \in Seq(T), NEW r \in Seq(T), NEW z, NEW p, NEW n \in Nat, n = Len(r),
         Drops(q, p, r), n = Len(q) - 1, Longer(z, r, ErrorMessage, n)
  PROVE  Drops(q, p, z)
<1>1. PICK l \in Nat : l = Len(q)
  OBVIOUS
<1>2. Len(z) = l /\ p \in 1 .. l
  BY <1>1 DEF Longer, Drops
<1>3. ASSUME NEW j \in 1 .. l
      PROVE  IF j < l THEN z[j] = q[Came(j, p)] ELSE z[j] = ErrorMessage
  <2>1. CASE j < l
    <3>1. j \in 1 .. n
      BY <1>1, <2>1
    <3>2. z[j] = r[j] /\ r[j] = q[Came(j, p)]
      BY <1>1, <2>1, <3>1 DEF Longer, Drops
    <3> QED  BY <2>1, <3>2
  <2>2. CASE ~(j < l)
    <3>1. j = n + 1
      BY <1>1, <2>2
    <3> QED  BY <2>2, <3>1 DEF Longer
  <2> QED  BY <2>1, <2>2
<1> QED  BY <1>1, <1>2, <1>3 DEF Drops

---------------------------------------------------------------------------
(* Least numbers, and recursion.                                           *)

\* Every set of naturals that is not empty has a least element.
LEMMA LeastNat ==
  ASSUME NEW T, T \subseteq Nat, T # {}
  PROVE  \E m \in T : \A k \in T : m <= k
<1> DEFINE Below == {0 .. k : k \in T}
<1>1. Below \subseteq FiniteSubsetsOf(Nat)
  <2> SUFFICES ASSUME NEW k \in T  PROVE 0 .. k \in FiniteSubsetsOf(Nat)
    OBVIOUS
  <2>1. IsFiniteSet(0 .. k)
    BY FS_Interval
  <2> QED  BY <2>1 DEF FiniteSubsetsOf
<1>2. PICK B \in Below : \A C \in Below : <<C, B>> \notin StrictSubsetOrdering(Nat)
  <2>1. Below # {}
    OBVIOUS
  <2> HIDE DEF Below
  <2> QED  BY <1>1, <2>1, WFMin, FS_StrictSubsetOrderingWellFounded
<1>3. PICK m \in T : B = 0 .. m
  OBVIOUS
<1>4. ASSUME NEW k \in T, k < m  PROVE FALSE
  <2>1. 0 .. k \in Below
    OBVIOUS
  <2>2. /\ 0 .. k \subseteq 0 .. m /\ 0 .. k # 0 .. m
        /\ 0 .. k \subseteq Nat /\ 0 .. m \subseteq Nat
    BY <1>4
  <2>3. <<0 .. k, B>> \in StrictSubsetOrdering(Nat)
    BY <1>3, <2>2 DEF StrictSubsetOrdering
  <2> QED  BY <1>2, <2>1, <2>3
<1> QED  BY <1>4

\* A step repeated n times has a course, whose every value is in D if the
\* step never leaves D.
Course(s, D, b, n, step) == /\ s \in [0 .. n -> D] /\ s[0] = b
                            /\ \A i \in 1 .. n : s[i] = step[<<s[i - 1], i>>]

LEMMA Iterated ==
  ASSUME NEW D, NEW b \in D, NEW n \in Nat, NEW step,
         \A d \in D, i \in 1 .. n : step[<<d, i>>] \in D
  PROVE  \E s : Course(s, D, b, n, step)
<1> USE DEF Course
<1> DEFINE Up(s, k) == Course(s, D, b, k, step)
           T == {k \in 0 .. n : ~ \E s : Up(s, k)}
<1>1. T = {}
  <2> SUFFICES ASSUME T # {}  PROVE FALSE
    OBVIOUS
  <2>1. T \subseteq Nat
    OBVIOUS
  <2>2. PICK k \in T : \A j \in T : k <= j
    <3> HIDE DEF T
    <3> QED  BY <2>1, LeastNat
  <2>3. Up([i \in 0 .. 0 |-> b], 0)
    OBVIOUS
  <2>4. k # 0 /\ k \in 1 .. n
    <3> HIDE DEF Up
    <3> QED  BY <2>2, <2>3
  <2>5. PICK s : Up(s, k - 1)
    <3>1. k - 1 \in 0 .. n /\ ~(k <= k - 1)
      BY <2>4
    <3> HIDE DEF Up
    <3> QED  BY <2>2, <3>1
  <2> DEFINE t == [i \in 0 .. k |-> IF i = k THEN step[<<s[k - 1], k>>] ELSE s[i]]
  <2>6. s[k - 1] \in D /\ step[<<s[k - 1], k>>] \in D
    BY <2>4, <2>5
  <2>7. t \in [0 .. k -> D]
    BY <2>4, <2>5, <2>6
  <2>8. t[0] = b
    BY <2>4, <2>5
  <2>9. ASSUME NEW i \in 1 .. k  PROVE t[i] = step[<<t[i - 1], i>>]
    <3>1. i - 1 \in 0 .. k /\ i - 1 # k /\ i \in 0 .. k
      BY <2>4
    <3>2. t[i - 1] = s[i - 1]
      BY <3>1
    <3>3. CASE i = k
      BY <3>1, <3>2, <3>3
    <3>4. CASE i # k
      BY <2>4, <2>5, <3>1, <3>2, <3>4
    <3> QED  BY <3>3, <3>4
  <2>10. Up(t, k)
    BY <2>7, <2>8, <2>9
  <2> QED  BY <2>10
<1> QED  BY <1>1

---------------------------------------------------------------------------
(* The invariant.                                                          *)

Phases == {"new", "asked", "met", "connected", "open", "closed", "left", "gone"}
Present == {"met", "connected", "open", "closed"}
Majors == {"", "CONNECT", "OPEN", "CLOSE", "DISCONNECT", "QUERY_EXT", "ENCODING", "GET_IM",
           "CREATE_IC", "START_REPLY", "ERROR"} \cup OfIc
Args == Styles \cup {"", "ctext", "other"}
Windows == {"none", "own", "made", "destroyed"}
IcType == [used : BOOLEAN, valid : BOOLEAN, cxn : Nat, style : Args, preedit : Nat,
           focus : BOOLEAN, window : Windows, made : BOOLEAN]
SlotType == [client : Clients, valid : BOOLEAN, closed : BOOLEAN, sync : {"", "START_REPLY"},
             encoding : Args, ic : IcType]
ClientType == [phase : Phases, awaits : Majors, imid : Nat, ic : BOOLEAN, style : Args,
               owes : Nat, shown : Nat, window : Windows]
CxnType == [open : BOOLEAN, comp : Nat, compWin : BOOLEAN, focus : BOOLEAN]
EventType == [t : {"CONNECT", "MESSAGE", "DESTROYED", "RESTART"}, from : Clients \cup {"self"},
              major : Majors, imid : Nat, arg : Args]
Asked == {m \in EventType : m.t = "MESSAGE" /\ m.from \in Clients /\ m.major # "START_REPLY"}

Types ==
    /\ slots \in Seq(SlotType)
    /\ eventQ \in Seq(Asked) /\ held \in Seq(Asked) /\ events \in Seq(EventType)
    /\ scan \in Nat /\ Len(held) <= 1 /\ (scan = 0 => held = <<>>)
    /\ IsFiniteSet(DOMAIN cxns) /\ \A k \in DOMAIN cxns : k \in Nat /\ cxns[k] \in CxnType
    /\ errors \subseteq Clients \cup {"other"} /\ early \in BOOLEAN
    /\ client \in [Clients -> ClientType]

\* Nobody knows of a WxContext that is not there, and the server says nothing
\* to itself but that a restart or an error came.
Sound(m) == /\ m.imid <= Len(slots)
            /\ m.from = "self" => m.t = "RESTART" \/ (m.t = "MESSAGE" /\ m.major = "ERROR")
SoundQueue == \A i \in DOMAIN Queue : Sound(Queue[i])

\* A client connects once, so that it is found in one place at most.
OneSlot == \A r, s \in DOMAIN slots : slots[r].client = slots[s].client => r = s

\* A client whose connection has not been taken has no WxContext and has sent
\* nothing.
NoneAsked(c) == \A i \in DOMAIN Queue : ~Asks(Queue[i], c)
Dials(m, c) == m.t = "CONNECT" /\ m.from = c
Calling(c) == \E i \in DOMAIN Queue : Dials(Queue[i], c)
Unmet(c) == client[c].phase \in {"new", "asked"} \/ Calling(c)
Introduced(c) ==
    /\ Unmet(c) => /\ \A s \in DOMAIN slots : slots[s].client # c
                   /\ NoneAsked(c)
                   /\ client[c].imid = 0 /\ ~client[c].ic /\ client[c].awaits = ""
    /\ Calling(c) => client[c].phase \in {"asked", "gone"}
    /\ \A i, j \in DOMAIN Queue : Dials(Queue[i], c) /\ Dials(Queue[j], c) => i = j

\* What comes of a client that has gone: errors, and after all it has sent the
\* notice of it.
Leaves(m, c) == m.t = "DESTROYED" /\ m.from = c
Departed(c) ==
    /\ c \in errors => Gone(c)
    /\ \A j \in DOMAIN Queue : Leaves(Queue[j], c) =>
          Gone(c) /\ \A i \in DOMAIN Queue : i > j => ~Asks(Queue[i], c)

\* A client that is connected has a WxContext.
Valid == {s \in DOMAIN slots : slots[s].valid}
Placed(c) == /\ client[c].imid <= Len(slots)
             /\ client[c].phase \in Present => \E s \in Valid : Sender(s) = c

\* A client asks one thing at a time that is answered, and what has not been
\* done it might ask again.
InTurn(c) ==
    /\ \A i, j \in DOMAIN Queue : Asks(Queue[i], c) /\ Asks(Queue[j], c) /\ i < j
          => Queue[i].major \in Unanswered
    /\ \A i \in DOMAIN Queue : Asks(Queue[i], c) /\ ~Gone(c) =>
          /\ Queue[i].major \notin Unanswered => client[c].awaits # ""
          /\ <<Queue[i].major, Queue[i].arg>> \in Steps(c)

\* What a client has asked fits its WxContext s, and so does what it knows.
Fits(m, s) ==
    /\ m.major \in {"CONNECT", "OPEN"} => ~Ic(s).used
    /\ m.major \in OfIc <=> Ic(s).valid
    /\ m.major # "DISCONNECT" => ~slots[s].closed
    /\ m.major \notin ByProxy => m.imid = s
Knows(c, s) ==
    LET k == client[c]
    IN  /\ k.phase \in Present
        /\ k.imid \in {0, s} /\ (k.phase = "open" => k.imid = s)
        /\ k.ic = Ic(s).valid /\ (k.ic => k.phase = "open")
        /\ k.phase # "closed" => ~slots[s].closed
        /\ k.phase \in {"met", "connected"} => ~Ic(s).used

\* What has been looked at and left waits for a START_REPLY.
Reviewed(j) == /\ j <= Len(eventQ) + Len(held)
               /\ scan = 0 \/ j < scan \/ j > Len(eventQ)

\* A WxContext that is marked as bad leaves nothing but requests about its IC.
Fitting(s) ==
    /\ ~Gone(Sender(s)) => Knows(Sender(s), s)
    /\ Ic(s).valid => Ic(s).used /\ ~slots[s].closed
    /\ slots[s].sync # "" => Ic(s).valid
    /\ \A i \in DOMAIN Queue : Asks(Queue[i], Sender(s)) =>
          /\ Fits(Queue[i], s)
          /\ Reviewed(i) => slots[s].sync # ""
          /\ Sender(s) \in errors => Queue[i].major \in OfIc

\* A request for a WxContext that the sender has no more was about its IC.
\* The new owner has none as long as there are such requests: they come before
\* its own, and are looked at when it has connected, before it can open.
Stray(m, s) == /\ m.t = "MESSAGE" /\ m.major \notin ByProxy \cup {"START_REPLY"} /\ m.imid = s
               /\ m.from # Sender(s) \/ ~slots[s].valid
Connected(s) == \/ ~Gone(Sender(s)) /\ client[Sender(s)].phase # "met"
                \/ \E i \in DOMAIN Queue : Asks(Queue[i], Sender(s)) /\ Queue[i].major # "CONNECT"
Rests(s, p) ==
    /\ ~Ic(s).used /\ slots[s].sync = ""
    /\ ~Gone(Sender(s)) => client[Sender(s)].phase \in {"met", "connected"}
    /\ \A j \in DOMAIN Queue : Asks(Queue[j], Sender(s)) =>
          /\ Queue[j].major \in {"CONNECT", "OPEN"}
          /\ j > p /\ j > Len(eventQ) + Len(held)
    /\ Connected(s) => scan > 0 /\ scan <= p /\ p <= Len(eventQ)
Cleared(s) == \A p \in DOMAIN Queue : Stray(Queue[p], s) =>
                  Queue[p].major \in OfIc /\ (slots[s].valid => Rests(s, p))

QInv == /\ SoundQueue /\ OneSlot
        /\ \A c \in Clients : Introduced(c) /\ Departed(c) /\ Placed(c) /\ InTurn(c)
        /\ \A s \in Valid : Fitting(s)
        /\ \A s \in DOMAIN slots : Cleared(s)

---------------------------------------------------------------------------
(* Steps as they look from the queue.                                      *)

QueueForm ==
    /\ Queue \in Seq(EventType) /\ DOMAIN Queue = 1 .. Len(Queue) /\ Len(Queue) \in Nat
    /\ Len(eventQ) \in Nat /\ Len(held) \in Nat /\ Len(eventQ) + Len(held) <= Len(Queue)
    /\ \A i \in DOMAIN Queue : Queue[i] \in EventType
    /\ \A i \in 1 .. Len(eventQ) + Len(held) : Queue[i] \in Asked
    /\ \A i \in 1 .. Len(eventQ) : Queue[i] = eventQ[i]
LEMMA QueueFacts == Types => QueueForm
<1> SUFFICES ASSUME Types  PROVE QueueForm
  OBVIOUS
<1>1. /\ eventQ \in Seq(EventType) /\ held \in Seq(EventType) /\ events \in Seq(EventType)
      /\ eventQ \in Seq(Asked) /\ held \in Seq(Asked)
  BY SeqMonotonic DEF Types, Asked
<1>2. PICK k \in Nat, l \in Nat, n \in Nat :
         k = Len(eventQ) /\ l = Len(held) /\ n = Len(events)
  BY <1>1
<1>3. Queue \in Seq(EventType) /\ Parts(Queue, eventQ, held, events, k, l, n)
  BY <1>1, <1>2, ThreeInOne DEF Queue
<1>4. Len(Queue) = k + l + n
  BY <1>3 DEF Parts
<1>5. ASSUME NEW i \in 1 .. k + l  PROVE Queue[i] \in Asked
  <2>1. i \in 1 .. k + l + n
    OBVIOUS
  <2>2. Queue[i] = IF i <= k THEN eventQ[i] ELSE held[i - k]
    BY <1>3, <2>1 DEF Parts
  <2>3. CASE i <= k
    BY <1>1, <1>2, <2>2, <2>3
  <2>4. CASE i > k
    <3>1. i - k \in 1 .. l /\ ~(i <= k)
      BY <2>4
    <3> QED  BY <1>1, <1>2, <2>2, <3>1
  <2> QED  BY <2>3, <2>4
<1>6. \A i \in 1 .. k : Queue[i] = eventQ[i]
  BY <1>3 DEF Parts
<1> QED  BY <1>2, <1>3, <1>4, <1>5, <1>6 DEF QueueForm
LEMMA QueueFactsNext == Types' => QueueForm'
BY QueueFacts, PTL

\* The queue goes on with messages it had, from the places f, in their order,
\* and with new ones where f is 0; no more of the old are reviewed, and what
\* a review has ahead stays ahead.
Carried(f) ==
    /\ f \in [DOMAIN Queue' -> Nat]
    /\ \A i \in DOMAIN Queue' : f[i] # 0 => f[i] \in DOMAIN Queue /\ Queue'[i] = Queue[f[i]]
    /\ \A i, j \in DOMAIN Queue' : i < j /\ f[i] # 0 /\ f[j] # 0 => f[i] < f[j]
    /\ \A i \in DOMAIN Queue' : f[i] # 0 /\ Reviewed(i)' => Reviewed(f[i])
    /\ \A i \in DOMAIN Queue' : f[i] > Len(eventQ) + Len(held) => i > Len(eventQ') + Len(held')
    /\ \A i \in DOMAIN Queue' : scan > 0 /\ scan <= f[i] /\ f[i] <= Len(eventQ)
                                   => scan' > 0 /\ scan' <= i /\ i <= Len(eventQ')

\* Where a message was before one was taken out, or 0 for the server's error.
WasAt(p) == [i \in DOMAIN Queue' |-> IF i < Len(Queue) THEN Came(i, p) ELSE 0]

LEMMA DropsCarried ==
  ASSUME Types, Types', NEW p \in Nat, Drops(Queue, p, Queue'),
         \/ /\ scan = 0 /\ p = Len(eventQ) + 1 /\ eventQ' = eventQ /\ held' = <<>>
            /\ scan' \in {0, 1}
         \/ /\ scan = p /\ p <= Len(eventQ) /\ Len(eventQ') = Len(eventQ) - 1 /\ held' = held
            /\ scan' = 1
  PROVE  /\ Carried(WasAt(p))
         /\ \A i \in DOMAIN Queue' : WasAt(p)[i] # p
         /\ \A i \in DOMAIN Queue' : WasAt(p)[i] = 0 => Queue'[i] = ErrorMessage
         /\ \A i \in DOMAIN Queue' : WasAt(p)[i] # 0 => WasAt(p)[i] = Came(i, p)
         /\ scan' = 1 /\ held' = <<>> => \A i \in DOMAIN Queue' : ~Reviewed(i)'
<1>1. PICK n \in Nat, m \in Nat, e \in Nat, h \in Nat, e2 \in Nat, h2 \in Nat :
         /\ n = Len(Queue) /\ m = Len(Queue') /\ e = Len(eventQ) /\ h = Len(held)
         /\ e2 = Len(eventQ') /\ h2 = Len(held') /\ e + h <= n
  <2>1. /\ Len(Queue) \in Nat /\ Len(Queue') \in Nat /\ Len(eventQ) \in Nat /\ Len(held) \in Nat
        /\ Len(eventQ') \in Nat /\ Len(held') \in Nat /\ Len(eventQ) + Len(held) <= Len(Queue)
    BY QueueFacts, QueueFactsNext DEF QueueForm
  <2> QED  BY <2>1
<1>2. /\ DOMAIN Queue = 1 .. n /\ DOMAIN Queue' = 1 .. m /\ m \in {n - 1, n} /\ p \in 1 .. n
      /\ \A j \in 1 .. m : IF j < n THEN Queue'[j] = Queue[Came(j, p)] ELSE Queue'[j] = ErrorMessage
  <2>1. /\ DOMAIN Queue = 1 .. n /\ DOMAIN Queue' = 1 .. m
    BY <1>1, QueueFacts, QueueFactsNext DEF QueueForm
  <2> QED  BY <1>1, <2>1 DEF Drops
<1> DEFINE f == WasAt(p)
<1>3. /\ f \in [1 .. m -> Nat]
      /\ \A i \in 1 .. m : f[i] = IF i < n THEN Came(i, p) ELSE 0
  BY <1>1, <1>2 DEF WasAt, Came
<1>4. \/ /\ scan = 0 /\ p = e + 1 /\ e2 = e /\ h2 = 0 /\ scan' \in {0, 1}
         /\ h = 0
      \/ /\ scan = p /\ p <= e /\ e2 = e - 1 /\ h2 = h /\ scan' = 1
  BY <1>1, EmptySeq DEF Types
<1> HIDE DEF f
<1>5. ASSUME NEW i \in 1 .. m, f[i] = 0  PROVE Queue'[i] = ErrorMessage
  BY <1>1, <1>2, <1>3, <1>5 DEF Came
<1>6. ASSUME NEW i \in 1 .. m, f[i] # 0
      PROVE  f[i] \in 1 .. n /\ Queue'[i] = Queue[f[i]] /\ f[i] = Came(i, p) /\ f[i] # p /\ i < n
  BY <1>1, <1>2, <1>3, <1>6 DEF Came
<1>7. ASSUME NEW i \in 1 .. m, NEW j \in 1 .. m, i < j, f[i] # 0, f[j] # 0  PROVE f[i] < f[j]
  BY <1>6, <1>7 DEF Came
<1>8. ASSUME NEW i \in 1 .. m, f[i] # 0, Reviewed(i)'  PROVE Reviewed(f[i])
  <2>1. f[i] = Came(i, p)
    BY <1>6, <1>8
  <2>2. i <= e2 + h2 /\ (scan' = 0 \/ i < scan' \/ i > e2)
    BY <1>1, <1>8 DEF Reviewed
  <2>3. f[i] <= e + h /\ (scan = 0 \/ f[i] < scan \/ f[i] > e)
    BY <1>4, <2>1, <2>2 DEF Came
  <2> QED  BY <1>1, <2>3 DEF Reviewed
<1>9. ASSUME NEW i \in 1 .. m, f[i] > e + h  PROVE i > e2 + h2
  <2>1. f[i] # 0
    BY <1>9
  <2>2. f[i] = Came(i, p)
    BY <1>6, <2>1
  <2> QED  BY <1>4, <1>9, <2>2 DEF Came
<1>10. ASSUME NEW i \in 1 .. m, scan > 0, scan <= f[i], f[i] <= e
       PROVE  scan' > 0 /\ scan' <= i /\ i <= e2
  <2>1. scan \in Nat /\ f[i] # 0
    BY <1>1, <1>3, <1>10 DEF Types
  <2>2. scan = p /\ e2 = e - 1 /\ scan' = 1
    BY <1>4, <1>10, <2>1
  <2>3. f[i] = Came(i, p) /\ f[i] # p
    BY <1>6, <2>1
  <2>4. i >= p
    BY <1>10, <2>2, <2>3 DEF Came
  <2> QED  BY <1>1, <1>10, <2>2, <2>3, <2>4 DEF Came
<1>11. Carried(f)
  BY <1>1, <1>2, <1>3, <1>6, <1>7, <1>8, <1>9, <1>10 DEF Carried
<1>12. \A i \in 1 .. m : f[i] # p
  BY <1>2, <1>6
<1>13. ASSUME scan' = 1, held' = <<>>, NEW i \in 1 .. m  PROVE ~Reviewed(i)'
  <2>1. h2 = 0
    BY <1>1, <1>13, EmptySeq
  <2> QED  BY <1>1, <1>13, <2>1 DEF Reviewed
<1> QED  BY <1>2, <1>5, <1>6, <1>11, <1>12, <1>13 DEF f
\* As WasAt, when nothing is taken out.
Still == [i \in DOMAIN Queue' |-> IF i <= Len(Queue) THEN i ELSE 0]
LEMMA StillCarried ==
  ASSUME Types, Types', UNCHANGED <<eventQ, held, scan>>, NEW x,
         Queue' = Queue \/ Longer(Queue', Queue, x, Len(Queue))
  PROVE  /\ Carried(Still)
         /\ \A i \in DOMAIN Queue' : Still[i] = 0 => Queue' # Queue /\ Queue'[i] = x
<1>1. PICK n \in Nat, m \in Nat : n = Len(Queue) /\ m = Len(Queue')
  <2>1. Len(Queue) \in Nat /\ Len(Queue') \in Nat
    BY QueueFacts, QueueFactsNext DEF QueueForm
  <2> QED  BY <2>1
<1>2. DOMAIN Queue = 1 .. n /\ DOMAIN Queue' = 1 .. m
  BY <1>1, QueueFacts, QueueFactsNext DEF QueueForm
<1>3. /\ m \in {n, n + 1} /\ \A i \in 1 .. n : Queue'[i] = Queue[i]
      /\ m = n + 1 => Queue'[n + 1] = x /\ Queue' # Queue
  <2>1. CASE Queue' = Queue
    BY <1>1, <2>1
  <2>2. CASE Longer(Queue', Queue, x, Len(Queue))
    BY <1>1, <2>2 DEF Longer
  <2> QED  BY <2>1, <2>2
<1> DEFINE f == Still
<1>4. f \in [1 .. m -> Nat] /\ \A i \in 1 .. m : f[i] = IF i <= n THEN i ELSE 0
  BY <1>1, <1>2 DEF Still
<1>5. \A j \in Nat : Reviewed(j)' <=> Reviewed(j)
  BY DEF Reviewed
<1> HIDE DEF f
<1>6. \A i \in 1 .. m : f[i] # 0 => f[i] \in 1 .. n /\ f[i] = i
  BY <1>4
<1>7. Carried(f)
  <2>1. \A i \in 1 .. m : f[i] # 0 /\ Reviewed(i)' => Reviewed(f[i])
    BY <1>5, <1>6
  <2>2. \A i \in 1 .. m : f[i] > Len(eventQ) + Len(held) => i > Len(eventQ') + Len(held')
    BY <1>4, <1>6, QueueFacts DEF QueueForm
  <2>3. \A i \in 1 .. m : scan > 0 /\ scan <= f[i] /\ f[i] <= Len(eventQ)
                             => scan' > 0 /\ scan' <= i /\ i <= Len(eventQ')
    <3>1. scan \in Nat
      BY DEF Types
    <3>2. \A i \in 1 .. m : scan > 0 /\ scan <= f[i] => f[i] = i
      BY <1>4, <3>1
    <3> QED  BY <3>2
  <2> QED  BY <1>2, <1>3, <1>4, <1>6, <2>1, <2>2, <2>3 DEF Carried
<1>8. \A i \in 1 .. m : f[i] = 0 => Queue' # Queue /\ Queue'[i] = x
  BY <1>3, <1>4
<1> QED  BY <1>2, <1>7, <1>8 DEF f

LEMMA SenderFacts ==
  ASSUME Types, NEW s \in DOMAIN slots
  PROVE  Sender(s) \in Clients /\ slots[s] \in SlotType /\ Ic(s) \in IcType /\ s \in Nat /\ s > 0
<1>1. slots[s] \in SlotType
  BY DEF Types
<1>2. s \in Nat /\ s > 0
  BY DEF Types
<1> QED  BY <1>1, <1>2 DEF SlotType, Sender, Ic

LEMMA NumberOfSlots ==
  ASSUME Types, Types'
  PROVE  /\ DOMAIN slots = 1 .. Len(slots) /\ DOMAIN slots' = 1 .. Len(slots')
         /\ Len(slots) \in Nat /\ Len(slots') \in Nat
         /\ Len(slots') = Len(slots) => DOMAIN slots' = DOMAIN slots /\ Len(slots') >= Len(slots)
BY DEF Types

---------------------------------------------------------------------------
(* What a step of which the queue goes on keeps, clause by clause.          *)

\* The slot s is the same client's, which knows of it what it knew, and asks
\* for the same things, if for any.
Same(s) == /\ slots'[s].client = Sender(s) /\ slots'[s].closed = slots[s].closed
           /\ slots'[s].ic.used = Ic(s).used /\ slots'[s].ic.valid = Ic(s).valid
Alike(c) == /\ client'[c].phase = client[c].phase /\ client'[c].imid = client[c].imid
            /\ client'[c].ic = client[c].ic

LEMMA SoundKept ==
  ASSUME Types, Types', NEW f, Carried(f), SoundQueue, Len(slots') >= Len(slots),
         \A i \in DOMAIN Queue' : f[i] = 0 => Sound(Queue[i])'
  PROVE  SoundQueue'
<1>1. ASSUME NEW i \in DOMAIN Queue', f[i] # 0  PROVE Sound(Queue[i])'
  <2>1. f[i] \in DOMAIN Queue /\ Queue'[i] = Queue[f[i]]
    BY <1>1 DEF Carried
  <2>2. Sound(Queue[f[i]])
    BY <2>1 DEF SoundQueue
  <2>3. Queue[f[i]].imid \in Nat /\ Len(slots) \in Nat /\ Len(slots') \in Nat
    <3>1. Queue[f[i]] \in EventType
      BY <2>1, QueueFacts DEF QueueForm
    <3> QED  BY <3>1 DEF EventType, Types
  <2> QED  BY <2>1, <2>2, <2>3 DEF Sound
<1> QED  BY <1>1 DEF SoundQueue

\* Nothing new comes from c, or about it.
Aloof(m, c) == ~Asks(m, c) /\ ~Dials(m, c)
NewAloof(f, c) == \A i \in DOMAIN Queue' : f[i] = 0 => Aloof(Queue'[i], c)
NoLeaves(f, c) == \A i \in DOMAIN Queue' : f[i] = 0 => ~Leaves(Queue'[i], c)

\* What is in the queue now of c's was there.
LEMMA WasThere ==
  ASSUME NEW f, Carried(f), NEW c, NewAloof(f, c), NEW i \in DOMAIN Queue',
         ~Aloof(Queue'[i], c)
  PROVE  f[i] # 0 /\ f[i] \in DOMAIN Queue /\ Queue'[i] = Queue[f[i]]
BY DEF Carried, NewAloof

\* Carried messages keep their order.
LEMMA Order ==
  ASSUME Types', NEW f, Carried(f), NEW i \in DOMAIN Queue', NEW j \in DOMAIN Queue',
         f[i] # 0, f[j] # 0
  PROVE  (f[i] = f[j] => i = j) /\ (f[i] > f[j] => i > j) /\ (i > j => f[i] > f[j])
<1>1. PICK n \in Nat : DOMAIN Queue' = 1 .. n
  BY QueueFactsNext DEF QueueForm
<1>2. f[i] \in Nat /\ f[j] \in Nat
  BY DEF Carried
<1>3. (i < j => f[i] < f[j]) /\ (j < i => f[j] < f[i])
  BY DEF Carried
<1>4. PICK a \in Nat, b \in Nat : a = f[i] /\ b = f[j]
  BY <1>2
<1> QED  BY <1>1, <1>3, <1>4

LEMMA IntroducedKept ==
  ASSUME Types, Types', NEW f, Carried(f), NEW c \in Clients, NewAloof(f, c), Introduced(c),
         \A s \in DOMAIN slots' : slots'[s].client = c => s \in DOMAIN slots /\ slots[s].client = c,
         \/ Alike(c) /\ client'[c].awaits = client[c].awaits
         \/ ~Unmet(c) /\ client'[c].phase \notin {"new", "asked"}
         \/ /\ client'[c].phase = "gone" /\ client[c].phase \notin {"new", "gone"}
            /\ client'[c].imid = client[c].imid /\ ~client'[c].ic /\ client'[c].awaits = ""
  PROVE  Introduced(c)'
<1>1. ASSUME NEW i \in DOMAIN Queue', Dials(Queue'[i], c)
      PROVE  f[i] # 0 /\ f[i] \in DOMAIN Queue /\ Queue'[i] = Queue[f[i]] /\ Dials(Queue[f[i]], c)
  BY <1>1, WasThere DEF Aloof
<1>2. Calling(c)' => Calling(c)
  BY <1>1 DEF Calling, Dials
<1>3. NoneAsked(c) => NoneAsked(c)'
  <2>1. ASSUME NEW i \in DOMAIN Queue', Asks(Queue'[i], c)
        PROVE  f[i] \in DOMAIN Queue /\ Asks(Queue[f[i]], c)
    BY <2>1, WasThere DEF Aloof
  <2> QED  BY <2>1 DEF NoneAsked, Asks
<1>4. Unmet(c)' => Unmet(c)
  BY <1>2 DEF Unmet, Alike
<1>5. Unmet(c)' => /\ \A s \in DOMAIN slots' : slots'[s].client # c
                   /\ NoneAsked(c)'
                   /\ client'[c].imid = 0 /\ ~client'[c].ic /\ client'[c].awaits = ""
  <2> SUFFICES ASSUME Unmet(c)'
               PROVE  /\ \A s \in DOMAIN slots' : slots'[s].client # c
                      /\ NoneAsked(c)'
                      /\ client'[c].imid = 0 /\ ~client'[c].ic /\ client'[c].awaits = ""
    OBVIOUS
  <2>1. Unmet(c)
    BY <1>4
  <2>2. /\ \A s \in DOMAIN slots : slots[s].client # c
        /\ NoneAsked(c)
        /\ client[c].imid = 0 /\ ~client[c].ic /\ client[c].awaits = ""
    BY <2>1 DEF Introduced
  <2>3. \/ Alike(c) /\ client'[c].awaits = client[c].awaits
        \/ client'[c].imid = client[c].imid /\ ~client'[c].ic /\ client'[c].awaits = ""
    BY <2>1
  <2> QED  BY <1>3, <2>2, <2>3 DEF Alike
<1>6. Calling(c)' => client'[c].phase \in {"asked", "gone"}
  <2>1. Calling(c) => client[c].phase \in {"asked", "gone"} /\ Unmet(c)
    BY DEF Introduced, Unmet
  <2> QED  BY <1>2, <2>1 DEF Alike
<1>7. ASSUME NEW i \in DOMAIN Queue', NEW j \in DOMAIN Queue',
             Dials(Queue'[i], c), Dials(Queue'[j], c)
      PROVE  i = j
  <2>1. f[i] # 0 /\ f[j] # 0 /\ f[i] = f[j]
    BY <1>1, <1>7 DEF Introduced
  <2> QED  BY <2>1, Order
<1> QED  BY <1>5, <1>6, <1>7 DEF Introduced, Dials

LEMMA DepartedKept ==
  ASSUME Types, Types', NEW f, Carried(f), NEW c \in Clients, NewAloof(f, c), NoLeaves(f, c), Departed(c),
         Gone(c) => Gone(c)', c \in errors' => Gone(c)'
  PROVE  Departed(c)'
<1> SUFFICES ASSUME NEW j \in DOMAIN Queue', Leaves(Queue'[j], c)
             PROVE  Gone(c)' /\ \A i \in DOMAIN Queue' : i > j => ~Asks(Queue'[i], c)
  BY DEF Departed, Leaves, Asks
<1>1. f[j] # 0 /\ f[j] \in DOMAIN Queue /\ Queue'[j] = Queue[f[j]]
  BY DEF Carried, NoLeaves
<1>2. ASSUME NEW i \in DOMAIN Queue', i > j, Asks(Queue'[i], c)  PROVE FALSE
  <2>1. f[i] # 0 /\ f[i] \in DOMAIN Queue /\ Queue'[i] = Queue[f[i]]
    BY <1>2, WasThere DEF Aloof
  <2>2. f[i] > f[j]
    BY <1>1, <1>2, <2>1, Order
  <2> QED  BY <1>1, <1>2, <2>1, <2>2 DEF Departed
<1> QED  BY <1>1, <1>2 DEF Departed

LEMMA InTurnKept ==
  ASSUME Types, Types', NEW f, Carried(f), NEW c \in Clients, NewAloof(f, c), InTurn(c),
         \/ Gone(c)'
         \/ /\ client'[c].awaits = client[c].awaits /\ client'[c].phase = client[c].phase
            /\ client'[c].ic = client[c].ic
  PROVE  InTurn(c)'
<1>1. ASSUME NEW i \in DOMAIN Queue', Asks(Queue'[i], c)
      PROVE  f[i] # 0 /\ f[i] \in DOMAIN Queue /\ Queue'[i] = Queue[f[i]] /\ Asks(Queue[f[i]], c)
  BY <1>1, WasThere DEF Aloof
<1>2. ASSUME NEW i \in DOMAIN Queue', NEW j \in DOMAIN Queue',
             Asks(Queue'[i], c), Asks(Queue'[j], c), i < j
      PROVE  Queue'[i].major \in Unanswered
  <2>1. f[i] < f[j]
    BY <1>1, <1>2 DEF Carried
  <2> QED  BY <1>1, <1>2, <2>1 DEF InTurn
<1>3. ASSUME NEW i \in DOMAIN Queue', Asks(Queue'[i], c), ~Gone(c)'
      PROVE  /\ Queue'[i].major \notin Unanswered => client'[c].awaits # ""
             /\ <<Queue'[i].major, Queue'[i].arg>> \in Steps(c)'
  <2>1. /\ Queue[f[i]].major \notin Unanswered => client[c].awaits # ""
        /\ <<Queue[f[i]].major, Queue[f[i]].arg>> \in Steps(c)
    BY <1>1, <1>3 DEF InTurn, Gone
  <2>2. Steps(c)' = Steps(c)
    BY <1>3 DEF Steps, Gone
  <2> QED  BY <1>1, <1>3, <2>1, <2>2
<1>4. Unanswered' = Unanswered
  BY DEF Unanswered
<1> QED  BY <1>2, <1>3 DEF InTurn, Asks, Gone

\* What fits the slot s of a client fits it still.
LEMMA FittingKept ==
  ASSUME Types, Types', NEW f, Carried(f), NEW s \in DOMAIN slots', s \in DOMAIN slots,
         NEW c \in Clients, c = Sender(s), NewAloof(f, c), Fitting(s), Same(s),
         Gone(c)' \/ Alike(c),
         slots'[s].sync # "" => Ic(s).valid,
         slots'[s].sync = slots[s].sync \/
            \A i \in DOMAIN Queue' : Asks(Queue'[i], c) /\ Reviewed(i)' => slots'[s].sync # "",
         c \in errors' => c \in errors \/ Ic(s).valid
  PROVE  Fitting(s)'
<1>1. slots'[s].client = c /\ Sender(s)' = c
  BY DEF Same, Sender
<1>2. ASSUME NEW i \in DOMAIN Queue', Asks(Queue'[i], c)
      PROVE  f[i] # 0 /\ f[i] \in DOMAIN Queue /\ Queue'[i] = Queue[f[i]] /\ Asks(Queue[f[i]], c)
  BY <1>2, WasThere DEF Aloof
<1>3. ~Gone(c)' => Knows(c, s)'
  <2> SUFFICES ASSUME ~Gone(c)'  PROVE Knows(c, s)'
    OBVIOUS
  <2>1. Alike(c) /\ ~Gone(c)
    BY DEF Alike, Gone
  <2>2. Knows(c, s)
    BY <2>1 DEF Fitting
  <2> QED  BY <2>1, <2>2 DEF Knows, Alike, Same, Ic
<1>4. slots'[s].ic.valid => slots'[s].ic.used /\ ~slots'[s].closed
  BY DEF Fitting, Same, Ic
<1>5. slots'[s].sync # "" => slots'[s].ic.valid
  BY DEF Same
<1>6. ASSUME NEW i \in DOMAIN Queue', Asks(Queue'[i], c)
      PROVE  /\ Fits(Queue[i], s)'
             /\ Reviewed(i)' => slots'[s].sync # ""
             /\ c \in errors' => Queue'[i].major \in OfIc
  <2>0. f[i] \in DOMAIN Queue /\ Queue'[i] = Queue[f[i]] /\ Asks(Queue[f[i]], Sender(s))
    BY <1>2, <1>6
  <2>1. /\ Fits(Queue[f[i]], s)
        /\ Reviewed(f[i]) => slots[s].sync # ""
        /\ Sender(s) \in errors => Queue[f[i]].major \in OfIc
    BY <2>0 DEF Fitting
  <2>2. Fits(Queue[i], s)'
    BY <2>0, <2>1 DEF Fits, Same, Ic
  <2>3. Reviewed(i)' => slots'[s].sync # ""
    <3>1. Reviewed(i)' => Reviewed(f[i])
      BY <1>2, <1>6 DEF Carried
    <3> QED  BY <1>6, <2>1, <3>1
  <2>4. c \in errors' => Queue'[i].major \in OfIc
    BY <2>0, <2>1 DEF Fits
  <2> QED  BY <2>2, <2>3, <2>4
<1>7. ~Gone(Sender(s))' => Knows(Sender(s), s)'
  BY <1>1, <1>3 DEF Gone, Knows
<1>8. \A i \in DOMAIN Queue' : Asks(Queue'[i], Sender(s)') =>
         /\ Fits(Queue[i], s)'
         /\ Reviewed(i)' => slots'[s].sync # ""
         /\ Sender(s)' \in errors' => Queue'[i].major \in OfIc
  BY <1>1, <1>6
<1> QED  BY <1>4, <1>5, <1>7, <1>8 DEF Fitting, Ic, Asks

\* Of a client that asks nothing, only what it knows matters.
LEMMA FittingIfNone ==
  ASSUME NEW s \in DOMAIN slots', NEW c, slots'[s].client = c, NoneAsked(c)',
         Gone(c)' \/ Knows(c, s)',
         slots'[s].ic.valid => slots'[s].ic.used /\ ~slots'[s].closed, slots'[s].sync = ""
  PROVE  Fitting(s)'
<1>1. Sender(s)' = c
  BY DEF Sender
<1>2. ~Gone(Sender(s))' => Knows(Sender(s), s)'
  BY <1>1 DEF Gone, Knows
<1>3. \A i \in DOMAIN Queue' : ~Asks(Queue'[i], Sender(s)')
  BY <1>1 DEF NoneAsked, Asks
<1> QED  BY <1>2, <1>3 DEF Fitting, Ic, Asks

LEMMA ClearedKept ==
  ASSUME Types, Types', NEW f, Carried(f), NEW s \in DOMAIN slots', s \in DOMAIN slots,
         NEW c \in Clients, c = Sender(s), slots'[s].client = c, NewAloof(f, c),
         \A i \in DOMAIN Queue' : f[i] = 0 => ~Stray(Queue[i], s)',
         Cleared(s),
         slots'[s].valid => /\ slots[s].valid /\ slots'[s].ic.used = Ic(s).used
                            /\ slots'[s].sync = "" \/ Ic(s).used
                            /\ client'[c].phase = client[c].phase \/ Gone(c)',
         slots[s].valid /\ ~slots'[s].valid =>
            \A i \in DOMAIN Queue' : Asks(Queue'[i], c) /\ Queue'[i].major \notin ByProxy
               => Queue'[i].major \in OfIc
  PROVE  Cleared(s)'
<1>1. Sender(s)' = c
  BY DEF Sender
<1>2. ASSUME NEW i \in DOMAIN Queue', Asks(Queue'[i], c)
      PROVE  f[i] # 0 /\ f[i] \in DOMAIN Queue /\ Queue'[i] = Queue[f[i]] /\ Asks(Queue[f[i]], c)
  <2>1. f[i] # 0
    BY <1>2 DEF Aloof, NewAloof
  <2>2. f[i] \in DOMAIN Queue /\ Queue'[i] = Queue[f[i]]
    BY <2>1 DEF Carried
  <2> QED  BY <1>2, <2>1, <2>2
<1>3. ASSUME NEW p \in DOMAIN Queue', Stray(Queue[p], s)'
      PROVE  Queue'[p].major \in OfIc /\ (slots'[s].valid => Rests(s, p)')
  <2>3. f[p] # 0 /\ f[p] \in DOMAIN Queue /\ Queue'[p] = Queue[f[p]]
    BY <1>3 DEF Carried
  <2>m. /\ Queue'[p].t = "MESSAGE" /\ Queue'[p].major \notin ByProxy \cup {"START_REPLY"}
        /\ Queue'[p].imid = s /\ (Queue'[p].from # c \/ ~slots'[s].valid)
    BY <1>1, <1>3 DEF Stray
  <2>4. CASE ~slots'[s].valid
    <3>1. CASE Stray(Queue[f[p]], s)
      BY <2>3, <2>4, <3>1 DEF Cleared
    <3>2. CASE ~Stray(Queue[f[p]], s)
      <4>1. Queue'[p].from = c /\ slots[s].valid
        BY <2>3, <2>m, <3>2 DEF Stray
      <4>2. Asks(Queue'[p], c) /\ Queue'[p].major \notin ByProxy
        BY <2>m, <4>1 DEF Asks
      <4> QED  BY <2>4, <4>1, <4>2
    <3> QED  BY <3>1, <3>2
  <2>5. CASE slots'[s].valid
    <3>1. Stray(Queue[f[p]], s)
      BY <2>3, <2>5, <2>m DEF Stray
    <3>2. Queue[f[p]].major \in OfIc /\ Rests(s, f[p])
      BY <2>3, <2>5, <3>1 DEF Cleared
    <3>3. /\ ~slots'[s].ic.used /\ slots'[s].sync = ""
          /\ ~Gone(c)' => client'[c].phase \in {"met", "connected"}
      <4>1. ~Gone(c)' => ~Gone(c) /\ client'[c].phase = client[c].phase
        BY <2>5 DEF Gone
      <4> QED  BY <2>5, <3>2, <4>1 DEF Rests
    <3>4. ASSUME NEW j \in DOMAIN Queue', Asks(Queue'[j], c)
          PROVE  /\ Queue'[j].major \in {"CONNECT", "OPEN"}
                 /\ j > p /\ j > Len(eventQ') + Len(held')
      <4>1. /\ Queue[f[j]].major \in {"CONNECT", "OPEN"}
            /\ f[j] > f[p] /\ f[j] > Len(eventQ) + Len(held)
        BY <1>2, <3>2, <3>4 DEF Rests
      <4>2. j > Len(eventQ') + Len(held')
        BY <4>1 DEF Carried
      <4>3. j > p
        BY <1>2, <2>3, <3>4, <4>1, Order
      <4> QED  BY <1>2, <3>4, <4>1, <4>2, <4>3
    <3>5. Connected(s)' => Connected(s)
      <4> SUFFICES ASSUME Connected(s)'  PROVE Connected(s)
        OBVIOUS
      <4>1. CASE ~Gone(c)' /\ client'[c].phase # "met"
        <5>1. ~Gone(c) /\ client[c].phase # "met"
          BY <2>5, <4>1 DEF Gone
        <5> QED  BY <5>1 DEF Connected
      <4>2. CASE \E i \in DOMAIN Queue' : Asks(Queue'[i], c) /\ Queue'[i].major # "CONNECT"
        <5>1. PICK i \in DOMAIN Queue' : Asks(Queue'[i], c) /\ Queue'[i].major # "CONNECT"
          BY <4>2
        <5> QED  BY <1>2, <5>1, ZenonT(60) DEF Connected
      <4> QED  BY <1>1, <4>1, <4>2 DEF Connected, Asks, Gone
    <3>6. Connected(s)' => scan' > 0 /\ scan' <= p /\ p <= Len(eventQ')
      BY <3>2, <3>5 DEF Rests, Carried
    <3>7. Rests(s, p)'
      BY <1>1, <3>3, <3>4, <3>6 DEF Rests, Ic, Asks, Gone
    <3> QED  BY <2>3, <2>5, <3>2, <3>7
  <2> QED  BY <2>4, <2>5
<1> QED  BY <1>3 DEF Cleared, OfIc

\* Nothing new comes that the clauses speak of.
Quiet(f) ==
    \A i \in DOMAIN Queue' : f[i] = 0 =>
        /\ \A c \in Clients : Aloof(Queue'[i], c) /\ ~Leaves(Queue'[i], c)
        /\ Sound(Queue[i])'
        /\ Queue'[i].t = "MESSAGE" => Queue'[i].major \in ByProxy \cup {"START_REPLY"}

\* A client stays as the server knows it.
ClientFades(c) ==
    /\ Alike(c) /\ client'[c].awaits = client[c].awaits
    /\ c \in errors' => c \in errors \/ Gone(c)
    /\ \A s \in DOMAIN slots' : slots'[s].client = c => s \in DOMAIN slots /\ slots[s].client = c
    /\ client[c].phase \in Present => \A s \in Valid : Sender(s) = c =>
          s \in DOMAIN slots' /\ slots'[s].valid /\ slots'[s].client = c
LEMMA ClientKept ==
  ASSUME Types, Types', NEW f, Carried(f), NEW c \in Clients, NewAloof(f, c), NoLeaves(f, c),
         Introduced(c), Departed(c), Placed(c), InTurn(c), ClientFades(c),
         Len(slots') >= Len(slots)
  PROVE  Introduced(c)' /\ Departed(c)' /\ Placed(c)' /\ InTurn(c)'
<1>0. /\ Alike(c) /\ client'[c].awaits = client[c].awaits
      /\ c \in errors' => c \in errors \/ Gone(c)
      /\ \A s \in DOMAIN slots' : slots'[s].client = c => s \in DOMAIN slots /\ slots[s].client = c
      /\ client[c].phase \in Present => \A s \in Valid : Sender(s) = c =>
            s \in DOMAIN slots' /\ slots'[s].valid /\ slots'[s].client = c
  BY DEF ClientFades
<1>1. Introduced(c)'
  BY <1>0, IntroducedKept
<1>2. Gone(c) => Gone(c)'
  BY <1>0 DEF Alike, Gone
<1>3. c \in errors' => Gone(c)'
  BY <1>0, <1>2 DEF Departed
<1>4. Departed(c)'
  BY <1>2, <1>3, DepartedKept
<1>5. InTurn(c)'
  BY <1>0, InTurnKept DEF Alike
<1>6. client'[c].imid <= Len(slots')
  <2>1. client[c].imid <= Len(slots) /\ client'[c].imid = client[c].imid
    BY <1>0 DEF Placed, Alike
  <2>2. client[c].imid \in Nat /\ Len(slots) \in Nat /\ Len(slots') \in Nat
    BY DEF Types, ClientType
  <2> QED  BY <2>1, <2>2
<1>7. client'[c].phase \in Present => \E s \in Valid' : Sender(s)' = c
  <2> SUFFICES ASSUME client'[c].phase \in Present  PROVE \E s \in Valid' : Sender(s)' = c
    OBVIOUS
  <2>1. PICK s \in Valid : Sender(s) = c
    BY <1>0 DEF Placed, Alike
  <2>2. s \in DOMAIN slots' /\ slots'[s].valid /\ slots'[s].client = c
    BY <1>0, <2>1 DEF Alike
  <2> QED  BY <2>2 DEF Valid, Sender
<1>8. Placed(c)'
  BY <1>6, <1>7 DEF Placed, Present
<1> QED  BY <1>1, <1>4, <1>5, <1>8

\* So does a slot, if it stays valid, and if not, its client has asked nothing
\* more but what is of its IC.
SlotFades(s) ==
    LET c == Sender(s)
    IN  /\ slots'[s].client = c /\ (slots'[s].valid => slots[s].valid /\ Same(s))
        /\ slots'[s].valid /\ slots'[s].sync # "" => Ic(s).valid
        /\ slots'[s].valid => \/ slots'[s].sync = slots[s].sync
                              \/ \A i \in DOMAIN Queue' :
                                    Asks(Queue'[i], c) /\ Reviewed(i)' => slots'[s].sync # ""
        /\ slots[s].valid /\ ~slots'[s].valid =>
              \A i \in DOMAIN Queue' : Asks(Queue'[i], c) /\ Queue'[i].major \notin ByProxy
                 => Queue'[i].major \in OfIc
LEMMA SlotKept ==
  ASSUME Types, Types', NEW f, Carried(f), NEW s \in DOMAIN slots', s \in DOMAIN slots,
         NEW c \in Clients, c = Sender(s), NewAloof(f, c),
         \A i \in DOMAIN Queue' : f[i] = 0 => ~Stray(Queue[i], s)',
         s \in Valid => Fitting(s), Cleared(s), SlotFades(s), Alike(c),
         slots'[s].valid /\ c \in errors' => c \in errors \/ Ic(s).valid
  PROVE  (s \in Valid' => Fitting(s)') /\ Cleared(s)'
<1>0. /\ slots'[s].client = c /\ (slots'[s].valid => slots[s].valid /\ Same(s))
      /\ slots'[s].valid /\ slots'[s].sync # "" => Ic(s).valid
      /\ slots'[s].valid => \/ slots'[s].sync = slots[s].sync
                            \/ \A i \in DOMAIN Queue' :
                                  Asks(Queue'[i], c) /\ Reviewed(i)' => slots'[s].sync # ""
      /\ slots[s].valid /\ ~slots'[s].valid =>
            \A i \in DOMAIN Queue' : Asks(Queue'[i], c) /\ Queue'[i].major \notin ByProxy
               => Queue'[i].major \in OfIc
  BY DEF SlotFades
<1>1. ASSUME slots'[s].valid  PROVE Fitting(s)'
  <2>1. Fitting(s) /\ Same(s)
    BY <1>0, <1>1 DEF Valid
  <2>2. c \in errors' => c \in errors \/ Ic(s).valid
    BY <1>1
  <2>3. slots'[s].sync # "" => Ic(s).valid
    BY <1>0, <1>1
  <2>4. \/ slots'[s].sync = slots[s].sync
        \/ \A i \in DOMAIN Queue' : Asks(Queue'[i], c) /\ Reviewed(i)' => slots'[s].sync # ""
    BY <1>0, <1>1
  <2> QED  BY <2>1, <2>2, <2>3, <2>4, FittingKept
<1>2. slots'[s].valid => /\ slots[s].valid /\ slots'[s].ic.used = Ic(s).used
                         /\ slots'[s].sync = "" \/ Ic(s).used
                         /\ client'[c].phase = client[c].phase \/ Gone(c)'
  <2> SUFFICES ASSUME slots'[s].valid
               PROVE  /\ slots[s].valid /\ slots'[s].ic.used = Ic(s).used
                      /\ slots'[s].sync = "" \/ Ic(s).used
                      /\ client'[c].phase = client[c].phase \/ Gone(c)'
    OBVIOUS
  <2>1. s \in Valid /\ Same(s)
    BY <1>0 DEF Valid
  <2>2. Ic(s).valid => Ic(s).used
    BY <2>1 DEF Fitting
  <2> QED  BY <1>0, <2>1, <2>2 DEF Same, Alike, Valid
<1>3. Cleared(s)'
  BY <1>0, <1>2, ClearedKept
<1> QED  BY <1>1, <1>3 DEF Valid

\* In a step that only lets the clauses fade, they all stay.
LEMMA Faded ==
  ASSUME Types, Types', QInv, NEW f, Carried(f), Quiet(f), DOMAIN slots' = DOMAIN slots,
         \A c \in Clients : ClientFades(c), \A s \in DOMAIN slots : SlotFades(s),
         \A s \in Valid : Sender(s) \in errors' => Sender(s) \in errors \/ Ic(s).valid
  PROVE  QInv'
<1>1. Len(slots') = Len(slots) /\ Len(slots) \in Nat
  <2>1. DOMAIN slots = 1 .. Len(slots) /\ DOMAIN slots' = 1 .. Len(slots')
        /\ Len(slots) \in Nat /\ Len(slots') \in Nat
    BY DEF Types
  <2> QED  BY <2>1
<1>2. SoundQueue'
  <2>1. \A i \in DOMAIN Queue' : f[i] = 0 => Sound(Queue[i])'
    BY DEF Quiet
  <2>2. Len(slots') >= Len(slots)
    BY <1>1
  <2> QED  BY <2>1, <2>2, SoundKept DEF QInv
<1>3. OneSlot'
  <2>1. \A s \in DOMAIN slots : slots'[s].client = slots[s].client
    BY DEF SlotFades, Sender
  <2> QED  BY <2>1 DEF QInv, OneSlot
<1>4. ASSUME NEW c \in Clients
      PROVE  Introduced(c)' /\ Departed(c)' /\ Placed(c)' /\ InTurn(c)'
  <2>1. NewAloof(f, c) /\ NoLeaves(f, c)
    BY DEF Quiet, NewAloof, NoLeaves
  <2>2. Len(slots') >= Len(slots)
    BY <1>1
  <2> QED  BY <2>1, <2>2, ClientKept DEF QInv
<1>5. ASSUME NEW s \in DOMAIN slots'
      PROVE  (s \in Valid' => Fitting(s)') /\ Cleared(s)'
  <2>0. s \in DOMAIN slots
    OBVIOUS
  <2>1. PICK c \in Clients : c = Sender(s)
    BY <2>0, SenderFacts
  <2>2. NewAloof(f, c)
    BY DEF Quiet, NewAloof
  <2>3. \A i \in DOMAIN Queue' : f[i] = 0 => ~Stray(Queue[i], s)'
    BY DEF Quiet, Stray, ByProxy
  <2>4. Alike(c)
    BY DEF ClientFades
  <2>6. (s \in Valid => Fitting(s)) /\ Cleared(s) /\ SlotFades(s)
    BY <2>0 DEF QInv
  <2>5. slots'[s].valid /\ c \in errors' => c \in errors \/ Ic(s).valid
    BY <2>0, <2>1, <2>6 DEF SlotFades, Valid
  <2> QED  BY <2>0, <2>1, <2>2, <2>3, <2>4, <2>5, <2>6, SlotKept
<1> QED  BY <1>2, <1>3, <1>4, <1>5 DEF QInv, Valid

\* One slot s and its client c change, and of c's nothing is left in the queue.
LEMMA Handled ==
  ASSUME Types, Types', QInv, NEW f, Carried(f), Quiet(f), Len(slots') = Len(slots),
         NEW s \in Valid, NEW c \in Clients, c = Sender(s), NoneAsked(c)',
         \A r \in DOMAIN slots : r # s => slots'[r] = slots[r],
         \A d \in Clients : d # c => client'[d] = client[d],
         \A d \in Clients : d \in errors' => d \in errors \/ (d = c /\ Gone(c)),
         Sender(s)' = c, slots'[s].sync = "",
         Gone(c) => client'[c] = client[c],
         ~Gone(c) => /\ client'[c].phase \notin {"new", "asked", "gone"}
                     /\ client'[c].imid <= Len(slots)
                     /\ client'[c].phase \in Present => slots'[s].valid
                     /\ slots'[s].valid => Knows(c, s)',
         slots'[s].ic.valid => slots'[s].ic.used /\ ~slots'[s].closed,
         Cleared(s)'
  PROVE  QInv'
<1>0. /\ SoundQueue /\ OneSlot
      /\ \A d \in Clients : Introduced(d) /\ Departed(d) /\ Placed(d) /\ InTurn(d)
      /\ \A r \in Valid : Fitting(r)
      /\ \A r \in DOMAIN slots : Cleared(r)
  BY DEF QInv
<1>1. DOMAIN slots' = DOMAIN slots /\ Len(slots') >= Len(slots)
  BY NumberOfSlots
<1>2. s \in DOMAIN slots /\ slots[s].valid /\ slots[s].client = c /\ slots'[s].client = c
  BY DEF Valid, Sender
<1>3. SoundQueue'
  <2>1. \A i \in DOMAIN Queue' : f[i] = 0 => Sound(Queue[i])'
    BY DEF Quiet
  <2> QED  BY <1>0, <1>1, <2>1, SoundKept
<1>4. \A r \in DOMAIN slots : slots'[r].client = slots[r].client
  BY <1>2
<1>5. OneSlot'
  BY <1>0, <1>1, <1>4 DEF OneSlot
<1>6. Introduced(c)' /\ Departed(c)' /\ Placed(c)' /\ InTurn(c)'
  <2>0. NewAloof(f, c) /\ NoLeaves(f, c)
    BY DEF Quiet, NewAloof, NoLeaves
  <2>1. ~Unmet(c)
    BY <1>0, <1>2 DEF Introduced
  <2>2. client'[c].phase \notin {"new", "asked"}
    BY <2>1 DEF Unmet
  <2>3. Introduced(c)'
    BY <1>0, <1>1, <1>4, <2>0, <2>1, <2>2, IntroducedKept
  <2>4. Departed(c)'
    <3>1. Gone(c) => Gone(c)'
      BY DEF Gone
    <3>2. c \in errors' => Gone(c)'
      BY <1>0, <3>1 DEF Departed
    <3> QED  BY <1>0, <2>0, <3>1, <3>2, DepartedKept
  <2>5. Placed(c)'
    <3>1. client'[c].imid <= Len(slots')
      BY <1>0 DEF Placed
    <3>2. client'[c].phase \in Present => s \in Valid' /\ Sender(s)' = c
      BY <1>1, <1>2 DEF Valid, Gone, Present
    <3> QED  BY <3>1, <3>2 DEF Placed, Present
  <2>6. InTurn(c)'
    BY DEF InTurn, NoneAsked, Asks
  <2> QED  BY <2>3, <2>4, <2>5, <2>6
<1>7. Fitting(s)' \/ s \notin Valid'
  <2>1. slots'[s].valid => Gone(c)' \/ Knows(c, s)'
    BY DEF Gone
  <2> QED  BY <1>1, <1>2, <2>1, FittingIfNone DEF Valid
<1>8. ASSUME NEW d \in Clients, d # c
      PROVE  Introduced(d)' /\ Departed(d)' /\ Placed(d)' /\ InTurn(d)'
  <2>0. NewAloof(f, d) /\ NoLeaves(f, d)
    BY DEF Quiet, NewAloof, NoLeaves
  <2>1. Alike(d) /\ client'[d].awaits = client[d].awaits
    BY <1>8 DEF Alike
  <2>2. \A r \in Valid : Sender(r) = d => r \in DOMAIN slots' /\ slots'[r].valid /\ slots'[r].client = d
    BY <1>1, <1>2, <1>8 DEF Valid, Sender
  <2>3. ClientFades(d)
    BY <1>1, <1>4, <2>1, <2>2 DEF ClientFades
  <2> QED  BY <1>0, <1>1, <2>0, <2>3, ClientKept
<1>9. ASSUME NEW r \in DOMAIN slots', r # s
      PROVE  (r \in Valid' => Fitting(r)') /\ Cleared(r)'
  <2>0. r \in DOMAIN slots /\ slots'[r] = slots[r]
    BY <1>1, <1>9
  <2>1. PICK d \in Clients : d = Sender(r)
    BY <2>0, SenderFacts
  <2>2. d # c
    BY <1>0, <1>2, <1>9, <2>0, <2>1, ZenonT(60) DEF OneSlot, Sender
  <2>3. NewAloof(f, d)
    BY DEF Quiet, NewAloof
  <2>4. \A i \in DOMAIN Queue' : f[i] = 0 => ~Stray(Queue[i], r)'
    BY DEF Quiet, Stray, ByProxy
  <2>5. Alike(d)
    BY <2>2 DEF Alike
  <2>6. (r \in Valid => Fitting(r)) /\ Cleared(r)
    BY <1>0, <2>0
  <2>7. SlotFades(r)
    <3>1. slots'[r].client = Sender(r) /\ Same(r)
      BY <2>0 DEF Same, Sender, Ic
    <3>2. slots'[r].valid => slots[r].valid /\ (slots'[r].sync # "" => Ic(r).valid)
      BY <2>0, <2>6 DEF Valid, Fitting
    <3> QED  BY <2>0, <3>1, <3>2 DEF SlotFades
  <2>8. slots'[r].valid /\ d \in errors' => d \in errors \/ Ic(r).valid
    BY <2>0, <2>1, <2>2 DEF Valid
  <2> QED  BY <2>0, <2>1, <2>3, <2>4, <2>5, <2>6, <2>7, <2>8, SlotKept
<1> QED  BY <1>2, <1>3, <1>5, <1>6, <1>7, <1>8, <1>9 DEF QInv, Valid

---------------------------------------------------------------------------
(* What the handlers leave.                                                *)

LEMMA NoChange ==
  ASSUME NEW r, r \in SlotType \/ r \in ClientType \/ r \in CxnType
  PROVE  Updated(r, <<>>) = r
<1>1. DOMAIN <<>> = {}
  OBVIOUS
<1>2. Updated(r, <<>>) = [f \in DOMAIN r |-> r[f]]
  BY <1>1 DEF Updated
<1>3. r = [f \in DOMAIN r |-> r[f]]
  BY DEF SlotType, ClientType, CxnType
<1> QED  BY <1>2, <1>3

\* Of a slot, and of what a client knows, with other fields than were.
SlotIs(x, r, valid, closed, sync, ic) ==
    /\ x \in SlotType /\ x.client = r.client /\ x.valid = valid /\ x.closed = closed
    /\ x.sync = sync /\ x.ic = ic
LEMMA SlotChanges ==
  ASSUME NEW q \in SlotType, NEW v \in BOOLEAN, NEW i \in IcType, NEW y \in {"", "START_REPLY"},
         NEW e \in Args
  PROVE  LET r == [q EXCEPT !.sync = ""]
         IN  /\ SlotIs(Updated(r, <<>>), q, q.valid, q.closed, "", q.ic)
             /\ SlotIs(Updated(r, [closed |-> v]), q, q.valid, v, "", q.ic)
             /\ SlotIs(Updated(r, [encoding |-> e]), q, q.valid, q.closed, "", q.ic)
             /\ SlotIs(Updated(r, [ic |-> i]), q, q.valid, q.closed, "", i)
             /\ SlotIs(Updated(r, [valid |-> v, ic |-> i]), q, v, q.closed, "", i)
             /\ SlotIs(Updated(r, [ic |-> i, sync |-> y]), q, q.valid, q.closed, y, i)
<1>1. PICK r \in SlotType : r = [q EXCEPT !.sync = ""]
  BY DEF SlotType
<1>2. r.client = q.client /\ r.valid = q.valid /\ r.closed = q.closed /\ r.sync = "" /\ r.ic = q.ic
  BY <1>1 DEF SlotType
<1>3. SlotIs(Updated(r, <<>>), r, r.valid, r.closed, "", r.ic)
  BY <1>2, NoChange DEF SlotIs
<1>4. SlotIs(Updated(r, [closed |-> v]), r, r.valid, v, r.sync, r.ic)
  BY DEF Updated, SlotType, SlotIs
<1>5. SlotIs(Updated(r, [encoding |-> e]), r, r.valid, r.closed, r.sync, r.ic)
  BY DEF Updated, SlotType, SlotIs
<1>6. SlotIs(Updated(r, [ic |-> i]), r, r.valid, r.closed, r.sync, i)
  BY DEF Updated, SlotType, SlotIs
<1>7. SlotIs(Updated(r, [valid |-> v, ic |-> i]), r, v, r.closed, r.sync, i)
  BY DEF Updated, SlotType, SlotIs
<1>8. SlotIs(Updated(r, [ic |-> i, sync |-> y]), r, r.valid, r.closed, y, i)
  BY DEF Updated, SlotType, SlotIs
<1> QED  BY <1>1, <1>2, <1>3, <1>4, <1>5, <1>6, <1>7, <1>8 DEF SlotIs

KnowsIs(k, phase, awaits, imid, ic) ==
    /\ k \in ClientType /\ k.phase = phase /\ k.awaits = awaits /\ k.imid = imid /\ k.ic = ic
LEMMA ClientChanges ==
  ASSUME NEW r \in ClientType, NEW p \in Phases, NEW n \in Nat, NEW st \in Args
  PROVE  /\ KnowsIs(Updated(r, <<>>), r.phase, r.awaits, r.imid, r.ic)
         /\ KnowsIs(Updated(r, [phase |-> p]), p, r.awaits, r.imid, r.ic)
         /\ KnowsIs(Updated(r, [awaits |-> ""]), r.phase, "", r.imid, r.ic)
         /\ KnowsIs(Updated(r, [phase |-> p, awaits |-> ""]), p, "", r.imid, r.ic)
         /\ KnowsIs(Updated(r, [phase |-> p, imid |-> n]), p, r.awaits, n, r.ic)
         /\ KnowsIs(Updated(r, [window |-> "own"]), r.phase, r.awaits, r.imid, r.ic)
         /\ KnowsIs(Updated(r, [shown |-> n]), r.phase, r.awaits, r.imid, r.ic)
         /\ KnowsIs(Updated(r, [owes |-> n]), r.phase, r.awaits, r.imid, r.ic)
         /\ KnowsIs(Updated(r, [owes |-> n, shown |-> 0]), r.phase, r.awaits, r.imid, r.ic)
         /\ KnowsIs(Updated(r, [awaits |-> "", ic |-> TRUE, style |-> st, shown |-> 0, window |-> "none"]),
                    r.phase, "", r.imid, TRUE)
<1>1. KnowsIs(Updated(r, <<>>), r.phase, r.awaits, r.imid, r.ic)
  BY NoChange DEF KnowsIs
<1>2. KnowsIs(Updated(r, [phase |-> p]), p, r.awaits, r.imid, r.ic)
  BY DEF Updated, ClientType, KnowsIs, Majors, Windows
<1>3. KnowsIs(Updated(r, [awaits |-> ""]), r.phase, "", r.imid, r.ic)
  BY DEF Updated, ClientType, KnowsIs, Majors, Windows
<1>4. KnowsIs(Updated(r, [phase |-> p, awaits |-> ""]), p, "", r.imid, r.ic)
  BY DEF Updated, ClientType, KnowsIs, Majors, Windows
<1>5. KnowsIs(Updated(r, [phase |-> p, imid |-> n]), p, r.awaits, n, r.ic)
  BY DEF Updated, ClientType, KnowsIs, Majors, Windows
<1>6. KnowsIs(Updated(r, [window |-> "own"]), r.phase, r.awaits, r.imid, r.ic)
  BY DEF Updated, ClientType, KnowsIs, Majors, Windows
<1>7. KnowsIs(Updated(r, [shown |-> n]), r.phase, r.awaits, r.imid, r.ic)
  BY DEF Updated, ClientType, KnowsIs, Majors, Windows
<1>8. KnowsIs(Updated(r, [owes |-> n]), r.phase, r.awaits, r.imid, r.ic)
  BY DEF Updated, ClientType, KnowsIs, Majors, Windows
<1>9. KnowsIs(Updated(r, [owes |-> n, shown |-> 0]), r.phase, r.awaits, r.imid, r.ic)
  BY DEF Updated, ClientType, KnowsIs, Majors, Windows
<1>10. KnowsIs(Updated(r, [awaits |-> "", ic |-> TRUE, style |-> st, shown |-> 0, window |-> "none"]),
              r.phase, "", r.imid, TRUE)
  BY DEF Updated, ClientType, KnowsIs, Majors, Windows
<1> QED  BY <1>1, <1>2, <1>3, <1>4, <1>5, <1>6, <1>7, <1>8, <1>9, <1>10

\* A handler changes its own slot and what the client of it knows, unless that
\* has gone; of one that has gone come errors.
SlotBecomes(s, valid, closed, sync, ic) ==
    \E x : slots' = [slots EXCEPT ![s] = x] /\ SlotIs(x, slots[s], valid, closed, sync, ic)
ClientBecomes(c, phase, awaits, imid, ic) ==
    \E k : /\ client' = IF Gone(c) THEN client ELSE [client EXCEPT ![c] = k]
           /\ KnowsIs(k, phase, awaits, imid, ic)
ErrorsOf(c) == errors' \subseteq errors \cup {"other"} \cup (IF Gone(c) THEN {c} ELSE {})

LEMMA SlotTurns ==
  ASSUME Types, NEW s \in DOMAIN slots, NEW v, NEW cl, NEW y, NEW i, SlotBecomes(s, v, cl, y, i)
  PROVE  /\ slots' \in Seq(SlotType) /\ Len(slots') = Len(slots) /\ DOMAIN slots' = DOMAIN slots
         /\ slots'[s].client = slots[s].client /\ slots'[s].valid = v /\ slots'[s].closed = cl
         /\ slots'[s].sync = y /\ slots'[s].ic = i
         /\ \A r \in DOMAIN slots : r # s => slots'[r] = slots[r]
<1>1. PICK x \in SlotType : slots' = [slots EXCEPT ![s] = x] /\ SlotIs(x, slots[s], v, cl, y, i)
  BY DEF SlotBecomes, SlotIs
<1>2. /\ slots' \in Seq(SlotType) /\ Len(slots') = Len(slots) /\ slots'[s] = x
      /\ DOMAIN slots' = DOMAIN slots
      /\ \A r \in DOMAIN slots : r # s => slots'[r] = slots[r]
  BY <1>1 DEF Types
<1> QED  BY <1>1, <1>2 DEF SlotIs

LEMMA ClientTurns ==
  ASSUME Types, NEW c \in Clients, NEW p, NEW a, NEW n, NEW i, ClientBecomes(c, p, a, n, i)
  PROVE  /\ client' \in [Clients -> ClientType]
         /\ \A d \in Clients : d # c => client'[d] = client[d]
         /\ Gone(c) => client'[c] = client[c]
         /\ ~Gone(c) => /\ client'[c].phase = p /\ client'[c].awaits = a
                        /\ client'[c].imid = n /\ client'[c].ic = i
<1>1. PICK k \in ClientType : /\ client' = IF Gone(c) THEN client ELSE [client EXCEPT ![c] = k]
                              /\ KnowsIs(k, p, a, n, i)
  BY DEF ClientBecomes, KnowsIs
<1>2. client \in [Clients -> ClientType]
  BY DEF Types
<1>3. /\ client' \in [Clients -> ClientType]
      /\ \A d \in Clients : d # c => client'[d] = client[d]
      /\ client'[c] = IF Gone(c) THEN client[c] ELSE k
  BY <1>1, <1>2
<1> QED  BY <1>1, <1>3 DEF KnowsIs

LEMMA ErrorTurns ==
  ASSUME Types, NEW c \in Clients, ErrorsOf(c)
  PROVE  /\ errors' \subseteq Clients \cup {"other"}
         /\ \A d \in Clients : d \in errors' => d \in errors \/ (d = c /\ Gone(c))
<1>1. errors' \subseteq Clients \cup {"other"}
  BY DEF ErrorsOf, Types
<1>2. \A d \in Clients : d \in errors' => d \in errors \/ (d = c /\ Gone(c))
  BY XimAssumption DEF ErrorsOf
<1> QED  BY <1>1, <1>2

LEMMA CallErrors ==
  ASSUME NEW c, NEW windows, Calls(c, windows)
  PROVE  ErrorsOf(c)
<1> SUFFICES ASSUME NEW e \in errors', e \notin errors, e # "other"
             PROVE  Gone(c) /\ e = c
  BY DEF ErrorsOf
<1>1. PICK w \in {v \in windows : Fails(c, v)} : e = IF w = "comm" THEN c ELSE "other"
  BY DEF Calls
<1>2. w = "comm" /\ e = c /\ Gone(c)
  BY <1>1 DEF Fails
<1> QED  BY <1>2

\* What settling the slot comes to.
LEMMA SettleTurns ==
  ASSUME Types, NEW s \in DOMAIN slots, NEW changes, Settle(s, changes), NEW v, NEW cl, NEW y, NEW i,
         SlotIs(Updated([slots[s] EXCEPT !.sync = ""], changes), slots[s], v, cl, y, i)
  PROVE  SlotBecomes(s, v, cl, y, i)
<1>1. PICK x : x = Updated([slots[s] EXCEPT !.sync = ""], changes)
  OBVIOUS
<1>2. slots' = [slots EXCEPT ![s] = x]
  BY <1>1 DEF Settle, Types
<1> QED  BY <1>1, <1>2 DEF SlotBecomes

LEMMA AnsweredTurns ==
  ASSUME Types, NEW s \in DOMAIN slots, NEW c \in Clients, c = Sender(s),
         NEW told, NEW changes, Answered(s, told, changes), NEW v, NEW cl, NEW i,
         SlotIs(Updated([slots[s] EXCEPT !.sync = ""], changes), slots[s], v, cl, "", i),
         NEW p, NEW n, NEW ci,
         KnowsIs(Updated([client[c] EXCEPT !.awaits = ""], told), p, "", n, ci)
  PROVE  /\ SlotBecomes(s, v, cl, "", i) /\ ClientBecomes(c, p, "", n, ci) /\ ErrorsOf(c)
         /\ UNCHANGED <<cxns, early>>
<1>1. ClientBecomes(c, p, "", n, ci)
  BY DEF Answered, Becomes, ClientBecomes
<1>2. SlotBecomes(s, v, cl, "", i)
  BY SettleTurns DEF Answered
<1>3. ErrorsOf(c)
  BY CallErrors DEF Answered
<1> QED  BY <1>1, <1>2, <1>3 DEF Answered

\* The slot and what the client knows stay as far as the invariant goes.
Stays(s) == SlotBecomes(s, slots[s].valid, slots[s].closed, "", Ic(s))
Hears(c, p, n) == ClientBecomes(c, p, "", n, client[c].ic)

LEMMA Answers ==
  ASSUME Types, NEW s \in DOMAIN slots, NEW c \in Clients, c = Sender(s), NEW st \in Args
  PROVE  /\ Connect(s) => /\ Stays(s) /\ Hears(c, "connected", client[c].imid)
                          /\ ErrorsOf(c) /\ UNCHANGED <<cxns, early>>
         /\ Open(s) => /\ Stays(s) /\ Hears(c, "open", s)
                       /\ ErrorsOf(c) /\ UNCHANGED <<cxns, early>>
         /\ Close(s) => /\ SlotBecomes(s, slots[s].valid, TRUE, "", Ic(s))
                        /\ Hears(c, "closed", client[c].imid)
                        /\ ErrorsOf(c) /\ UNCHANGED <<cxns, early>>
         /\ QueryExtension(s) \/ GetImValues(s) \/ GetIcValues(s) \/ EncodingNego(s, st) \/ ResetIc(s)
               => /\ Stays(s) /\ Hears(c, client[c].phase, client[c].imid)
                  /\ ErrorsOf(c) /\ UNCHANGED <<cxns, early>>
         /\ SetIcValues(s)
               => /\ SlotBecomes(s, slots[s].valid, slots[s].closed, "", [Ic(s) EXCEPT !.window = "own"])
                  /\ Hears(c, client[c].phase, client[c].imid)
                  /\ ErrorsOf(c) /\ UNCHANGED <<cxns, early>>
<1>1. PICK q \in SlotType, n \in Nat : q = slots[s] /\ n = s
  BY SenderFacts
<1>2. PICK k, kn : k \in ClientType /\ k = client[c] /\ kn = [k EXCEPT !.awaits = ""]
  BY DEF Types
<1>3. /\ kn \in ClientType /\ kn.phase = k.phase /\ kn.awaits = "" /\ kn.imid = k.imid
      /\ kn.ic = k.ic /\ kn.phase \in Phases /\ kn.imid \in Nat
  BY <1>2 DEF ClientType, Majors
<1>4. /\ KnowsIs(Updated(kn, <<>>), k.phase, "", k.imid, k.ic)
      /\ KnowsIs(Updated(kn, [phase |-> "connected"]), "connected", "", k.imid, k.ic)
      /\ KnowsIs(Updated(kn, [phase |-> "closed"]), "closed", "", k.imid, k.ic)
      /\ KnowsIs(Updated(kn, [phase |-> "open", imid |-> n]), "open", "", n, k.ic)
      /\ KnowsIs(Updated(kn, [window |-> "own"]), k.phase, "", k.imid, k.ic)
      /\ KnowsIs(Updated(kn, [shown |-> 0]), k.phase, "", k.imid, k.ic)
  <2>1. "connected" \in Phases /\ "closed" \in Phases /\ "open" \in Phases /\ 0 \in Nat
        /\ "" \in Args
    BY DEF Phases, Args
  <2> QED  BY <1>3, <2>1, ClientChanges
<1>5. PICK r : r = [q EXCEPT !.sync = ""]
  OBVIOUS
<1>6. PICK e \in Args, i \in IcType, w \in IcType :
         /\ e = (IF st = "ctext" THEN "" ELSE st) /\ i = Ic(s) /\ w = [Ic(s) EXCEPT !.window = "own"]
  <2>1. Ic(s) \in IcType
    BY SenderFacts
  <2>2. [Ic(s) EXCEPT !.window = "own"] \in IcType
    BY <2>1 DEF IcType, Windows
  <2>3. (IF st = "ctext" THEN "" ELSE st) \in Args
    BY DEF Args
  <2> QED  BY <2>1, <2>2, <2>3
<1>7. /\ SlotIs(Updated(r, <<>>), q, q.valid, q.closed, "", i)
      /\ SlotIs(Updated(r, [closed |-> TRUE]), q, q.valid, TRUE, "", i)
      /\ SlotIs(Updated(r, [encoding |-> e]), q, q.valid, q.closed, "", i)
      /\ SlotIs(Updated(r, [ic |-> w]), q, q.valid, q.closed, "", w)
  <2>1. q.ic = i /\ "" \in {"", "START_REPLY"} /\ TRUE \in BOOLEAN
    BY <1>1, <1>6 DEF Ic
  <2> QED  BY <1>5, <2>1, SlotChanges
<1> DEFINE ks == [client[c] EXCEPT !.awaits = ""]
           rs == [slots[s] EXCEPT !.sync = ""]
           Result(v, cl, y, p, m) == /\ SlotBecomes(s, v, cl, "", y) /\ Hears(c, p, m)
                                     /\ ErrorsOf(c) /\ UNCHANGED <<cxns, early>>
<1>8. /\ KnowsIs(Updated(ks, <<>>), client[c].phase, "", client[c].imid, client[c].ic)
      /\ KnowsIs(Updated(ks, [phase |-> "connected"]), "connected", "", client[c].imid, client[c].ic)
      /\ KnowsIs(Updated(ks, [phase |-> "closed"]), "closed", "", client[c].imid, client[c].ic)
      /\ KnowsIs(Updated(ks, [phase |-> "open", imid |-> s]), "open", "", s, client[c].ic)
      /\ KnowsIs(Updated(ks, [window |-> "own"]), client[c].phase, "", client[c].imid, client[c].ic)
      /\ KnowsIs(Updated(ks, [shown |-> 0]), client[c].phase, "", client[c].imid, client[c].ic)
  BY <1>1, <1>2, <1>4
<1>9. /\ SlotIs(Updated(rs, <<>>), slots[s], slots[s].valid, slots[s].closed, "", Ic(s))
      /\ SlotIs(Updated(rs, [closed |-> TRUE]), slots[s], slots[s].valid, TRUE, "", Ic(s))
      /\ SlotIs(Updated(rs, [encoding |-> e]), slots[s], slots[s].valid, slots[s].closed, "", Ic(s))
      /\ SlotIs(Updated(rs, [ic |-> w]), slots[s], slots[s].valid, slots[s].closed, "", w)
  BY <1>1, <1>5, <1>6, <1>7
<1>10. ASSUME NEW told, NEW changes, Answered(s, told, changes), NEW v, NEW cl, NEW y, NEW p, NEW m,
              SlotIs(Updated(rs, changes), slots[s], v, cl, "", y),
              KnowsIs(Updated(ks, told), p, "", m, client[c].ic)
       PROVE  Result(v, cl, y, p, m)
  BY <1>10, AnsweredTurns DEF Hears
<1> HIDE DEF ks, rs, Result
<1>11. Connect(s) => Result(slots[s].valid, slots[s].closed, Ic(s), "connected", client[c].imid)
  BY <1>8, <1>9, <1>10 DEF Connect
<1>12. Open(s) => Result(slots[s].valid, slots[s].closed, Ic(s), "open", s)
  BY <1>8, <1>9, <1>10 DEF Open
<1>13. Close(s) => Result(slots[s].valid, TRUE, Ic(s), "closed", client[c].imid)
  BY <1>8, <1>9, <1>10 DEF Close
<1>14. QueryExtension(s) \/ GetImValues(s) \/ GetIcValues(s) \/ EncodingNego(s, st) \/ ResetIc(s)
         => Result(slots[s].valid, slots[s].closed, Ic(s), client[c].phase, client[c].imid)
  <2>1. Answered(s, <<>>, <<>>) \/ Answered(s, [shown |-> 0], <<>>) \/ Answered(s, <<>>, [encoding |-> e])
         => Result(slots[s].valid, slots[s].closed, Ic(s), client[c].phase, client[c].imid)
    BY <1>8, <1>9, <1>10
  <2>2. QueryExtension(s) \/ GetImValues(s) \/ GetIcValues(s) \/ EncodingNego(s, st) \/ ResetIc(s)
          => Answered(s, <<>>, <<>>) \/ Answered(s, [shown |-> 0], <<>>) \/ Answered(s, <<>>, [encoding |-> e])
    BY <1>6 DEF QueryExtension, GetImValues, GetIcValues, EncodingNego, ResetIc
  <2> QED  BY <2>1, <2>2
<1>15. SetIcValues(s) => Result(slots[s].valid, slots[s].closed, w, client[c].phase, client[c].imid)
  BY <1>6, <1>8, <1>9, <1>10 DEF SetIcValues
<1> QED  BY <1>6, <1>11, <1>12, <1>13, <1>14, <1>15 DEF Result, Stays

\* The library always has a number that is free.
LEMMA FreeIsFree ==
  ASSUME NEW K, IsFiniteSet(K)
  PROVE  FreeCxn(K) \in Nat /\ FreeCxn(K) \notin K
<1>1. PICK n \in Nat : n = Cardinality(K)
  BY FS_CardinalityType
<1> DEFINE S == (1 .. n + 1) \ K
<1>2. S # {}
  <2> SUFFICES ASSUME 1 .. n + 1 \subseteq K  PROVE FALSE
    OBVIOUS
  <2>1. Cardinality(1 .. n + 1) <= Cardinality(K)
    BY FS_Subset
  <2>2. Cardinality(1 .. n + 1) = n + 1
    BY FS_Interval
  <2> QED  BY <1>1, <2>1, <2>2
<1>3. PICK m \in S : \A k \in S : m <= k
  <2>1. S \subseteq Nat
    OBVIOUS
  <2> HIDE DEF S
  <2> QED  BY <1>2, <2>1, LeastNat
<1>4. FreeCxn(K) = CHOOSE x \in S : \A y \in S : x <= y
  BY <1>1 DEF FreeCxn, Min
<1>5. FreeCxn(K) \in S
  <2> HIDE DEF S
  <2> QED  BY <1>3, <1>4
<1> QED  BY <1>5

\* A new context, and one that goes.
LEMMA CreateTurns ==
  ASSUME Types, NEW s \in DOMAIN slots, NEW c \in Clients, c = Sender(s), NEW st \in Args,
         CreateIc(s, st)
  PROVE  /\ \E i \in IcType :
              /\ SlotBecomes(s, slots[s].valid, slots[s].closed, "", i)
              /\ i.used = TRUE /\ i.valid = TRUE /\ i.cxn = FreeCxn(DOMAIN cxns) /\ i.focus = FALSE
         /\ ClientBecomes(c, client[c].phase, "", client[c].imid, TRUE) /\ ErrorsOf(c)
         /\ cxns' = With(cxns, FreeCxn(DOMAIN cxns), NewCxn)
         /\ early' = (early \/ \E j \in DOMAIN events : events[j].t = "RESTART")
<1>1. PICK k \in Nat : k = FreeCxn(DOMAIN cxns)
  BY FreeIsFree DEF Types
<1>2. PICK j : j = [NoIc EXCEPT !.used = TRUE, !.valid = TRUE, !.cxn = k]
  OBVIOUS
<1>3. j \in IcType /\ j.used = TRUE /\ j.valid = TRUE /\ j.cxn = k /\ j.focus = FALSE
  <2>1. "none" \in Windows /\ "" \in Args
    BY DEF Windows, Args
  <2> QED  BY <1>2, <2>1 DEF NoIc, IcType
<1>4. PICK i \in IcType : /\ i = SetInputStyle(j, st)
                          /\ i.used = TRUE /\ i.valid = TRUE /\ i.cxn = k /\ i.focus = FALSE
  <2>1. PICK i : i = [j EXCEPT !.style = st]
    OBVIOUS
  <2>2. /\ i \in IcType /\ i.used = j.used /\ i.valid = j.valid /\ i.cxn = j.cxn
        /\ i.focus = j.focus
    BY <1>3, <2>1 DEF IcType
  <2>3. i.used = TRUE /\ i.valid = TRUE /\ i.cxn = k /\ i.focus = FALSE
    BY <1>3, <2>2
  <2>4. i = SetInputStyle(j, st)
    BY <2>1 DEF SetInputStyle
  <2> QED  BY <2>2, <2>3, <2>4
<1>5. SlotBecomes(s, slots[s].valid, slots[s].closed, "", i)
  <2>1. slots[s] \in SlotType
    BY SenderFacts
  <2>2. "" \in {"", "START_REPLY"} /\ "" \in Args /\ TRUE \in BOOLEAN
    BY DEF Args
  <2>3. SlotIs(Updated([slots[s] EXCEPT !.sync = ""], [ic |-> i]),
               slots[s], slots[s].valid, slots[s].closed, "", i)
    BY <2>1, <2>2, SlotChanges
  <2>4. Settle(s, [ic |-> i])
    BY <1>1, <1>2, <1>4 DEF CreateIc
  <2> QED  BY <2>3, <2>4, SettleTurns
<1>6. ClientBecomes(c, client[c].phase, "", client[c].imid, TRUE)
  <2>1. KnowsIs(Updated(client[c], [awaits |-> "", ic |-> TRUE, style |-> st, shown |-> 0, window |-> "none"]),
                client[c].phase, "", client[c].imid, TRUE)
    <3>1. client[c] \in ClientType /\ "gone" \in Phases /\ 0 \in Nat
      BY DEF Types, Phases
    <3> QED  BY <3>1, ClientChanges
  <2> QED  BY <2>1 DEF CreateIc, Tell, Becomes, ClientBecomes
<1>7. ErrorsOf(c)
  BY CallErrors DEF CreateIc
<1> QED  BY <1>1, <1>4, <1>5, <1>6, <1>7 DEF CreateIc

\* DestroyIcIf says what told says, and closes wime's context.
LEMMA DestroyTold ==
  ASSUME Types, NEW s \in DOMAIN slots, NEW c \in Clients, c = Sender(s), NEW told,
         DestroyIcIf(s, told), NEW p, NEW a,
         \A k \in ClientType : KnowsIs(Updated(k, told),
                                       IF p = "" THEN k.phase ELSE p,
                                       IF a = "" THEN "" ELSE k.awaits, k.imid, k.ic)
  PROVE  /\ ClientBecomes(c, IF p = "" THEN client[c].phase ELSE p,
                          IF a = "" THEN "" ELSE client[c].awaits, client[c].imid, FALSE)
         /\ cxns' = [k \in DOMAIN cxns \ {Ic(s).cxn} |-> cxns[k]]
<1>1. PICK k \in ClientType : k = [client[c] EXCEPT !.ic = FALSE]
  BY DEF Types, ClientType
<1>2. k.phase = client[c].phase /\ k.awaits = client[c].awaits /\ k.imid = client[c].imid /\ k.ic = FALSE
  BY <1>1 DEF Types, ClientType
<1>3. PICK l : l = Updated(k, told)
  OBVIOUS
<1>4. KnowsIs(l, IF p = "" THEN client[c].phase ELSE p,
              IF a = "" THEN "" ELSE client[c].awaits, client[c].imid, FALSE)
  <2>1. KnowsIs(Updated(k, told), IF p = "" THEN k.phase ELSE p,
                IF a = "" THEN "" ELSE k.awaits, k.imid, k.ic)
    OBVIOUS
  <2> QED  BY <1>2, <1>3, <2>1
<1>5. KnowsIs(CleanedUp(s, l), l.phase, l.awaits, l.imid, l.ic)
  <2>1. l \in ClientType
    BY <1>4 DEF KnowsIs
  <2>2. KnowsIs([l EXCEPT !.window = "destroyed"], l.phase, l.awaits, l.imid, l.ic)
    BY <2>1 DEF KnowsIs, ClientType, Windows
  <2> QED  BY <2>1, <2>2 DEF CleanedUp, KnowsIs
<1>6. Becomes(c, CleanedUp(s, l))
  BY <1>1, <1>3 DEF DestroyIcIf
<1>7. /\ l.phase = IF p = "" THEN client[c].phase ELSE p
      /\ l.awaits = IF a = "" THEN "" ELSE client[c].awaits
      /\ l.imid = client[c].imid /\ l.ic = FALSE
  BY <1>4 DEF KnowsIs
<1> QED  BY <1>5, <1>6, <1>7 DEF ClientBecomes, Becomes, DestroyIcIf

LEMMA DestroyTurns ==
  ASSUME Types, NEW s \in DOMAIN slots, NEW c \in Clients, c = Sender(s), DestroyIc(s)
  PROVE  /\ SlotBecomes(s, slots[s].valid, slots[s].closed, "", [Ic(s) EXCEPT !.valid = FALSE])
         /\ ClientBecomes(c, client[c].phase, "", client[c].imid, FALSE) /\ ErrorsOf(c)
         /\ cxns' = [k \in DOMAIN cxns \ {Ic(s).cxn} |-> cxns[k]] /\ UNCHANGED early
<1>1. \A k \in ClientType : KnowsIs(Updated(k, [awaits |-> ""]),
                                    IF "" = "" THEN k.phase ELSE "",
                                    IF "" = "" THEN "" ELSE k.awaits, k.imid, k.ic)
  <2> TAKE k \in ClientType
  <2>1. "gone" \in Phases /\ 0 \in Nat /\ "" \in Args
    BY DEF Phases, Args
  <2>2. KnowsIs(Updated(k, [awaits |-> ""]), k.phase, "", k.imid, k.ic)
    BY <2>1, ClientChanges
  <2> QED  BY <2>2
<1>2. DestroyIcIf(s, [awaits |-> ""])
  BY DEF DestroyIc
<1>3. /\ ClientBecomes(c, IF "" = "" THEN client[c].phase ELSE "",
                       IF "" = "" THEN "" ELSE client[c].awaits, client[c].imid, FALSE)
      /\ cxns' = [k \in DOMAIN cxns \ {Ic(s).cxn} |-> cxns[k]]
  BY <1>1, <1>2, DestroyTold
<1>4. PICK i \in IcType : i = [Ic(s) EXCEPT !.valid = FALSE]
  <2>1. Ic(s) \in IcType
    BY SenderFacts
  <2>2. [Ic(s) EXCEPT !.valid = FALSE] \in IcType
    BY <2>1 DEF IcType
  <2> QED  BY <2>2
<1>5. SlotBecomes(s, slots[s].valid, slots[s].closed, "", i)
  <2>1. slots[s] \in SlotType
    BY SenderFacts
  <2>2. "" \in {"", "START_REPLY"} /\ "" \in Args /\ TRUE \in BOOLEAN
    BY DEF Args
  <2>3. SlotIs(Updated([slots[s] EXCEPT !.sync = ""], [ic |-> i]),
               slots[s], slots[s].valid, slots[s].closed, "", i)
    BY <2>1, <2>2, SlotChanges
  <2>4. Settle(s, [ic |-> i])
    BY <1>4 DEF DestroyIc
  <2> QED  BY <2>3, <2>4, SettleTurns
<1>6. ErrorsOf(c)
  BY CallErrors DEF DestroyIc
<1> QED  BY <1>3, <1>4, <1>5, <1>6 DEF DestroyIc

LEMMA LeaveTurns ==
  ASSUME Types, NEW s \in DOMAIN slots, NEW c \in Clients, c = Sender(s),
         NEW told, NEW windows, DisconnectClient(s, told, windows),
         \/ told = <<>>
         \/ told = [phase |-> "left", awaits |-> ""]
  PROVE  /\ SlotBecomes(s, FALSE, slots[s].closed, "", [Ic(s) EXCEPT !.valid = FALSE])
         /\ told = [phase |-> "left", awaits |-> ""] => \E b : ClientBecomes(c, "left", "", client[c].imid, b)
         /\ Gone(c) => client' = client
         /\ cxns' = IF Ic(s).valid THEN [k \in DOMAIN cxns \ {Ic(s).cxn} |-> cxns[k]] ELSE cxns
         /\ ErrorsOf(c) /\ UNCHANGED early
<1>1. PICK i \in IcType : i = [Ic(s) EXCEPT !.valid = FALSE]
  <2>1. Ic(s) \in IcType
    BY SenderFacts
  <2>2. [Ic(s) EXCEPT !.valid = FALSE] \in IcType
    BY <2>1 DEF IcType
  <2> QED  BY <2>2
<1>2. SlotBecomes(s, FALSE, slots[s].closed, "", i)
  <2>1. slots[s] \in SlotType
    BY SenderFacts
  <2>2. "" \in {"", "START_REPLY"} /\ "" \in Args /\ FALSE \in BOOLEAN
    BY DEF Args
  <2>3. SlotIs(Updated([slots[s] EXCEPT !.sync = ""], [valid |-> FALSE, ic |-> i]),
               slots[s], FALSE, slots[s].closed, "", i)
    BY <2>1, <2>2, SlotChanges
  <2>4. Settle(s, [valid |-> FALSE, ic |-> i])
    BY <1>1 DEF DisconnectClient
  <2> QED  BY <2>3, <2>4, SettleTurns
<1>3. ErrorsOf(c)
  BY CallErrors DEF DisconnectClient
<1>4. told = [phase |-> "left", awaits |-> ""] => \E b : ClientBecomes(c, "left", "", client[c].imid, b)
  <2> SUFFICES ASSUME told = [phase |-> "left", awaits |-> ""]
               PROVE  \E b : ClientBecomes(c, "left", "", client[c].imid, b)
    OBVIOUS
  <2>1. \A k \in ClientType : KnowsIs(Updated(k, told), "left", "", k.imid, k.ic)
    <3> TAKE k \in ClientType
    <3>1. "left" \in Phases /\ 0 \in Nat /\ "" \in Args
      BY DEF Phases, Args
    <3>2. KnowsIs(Updated(k, [phase |-> "left", awaits |-> ""]), "left", "", k.imid, k.ic)
      BY <3>1, ClientChanges
    <3> QED  BY <3>2
  <2>2. CASE Ic(s).valid
    <3>1. DestroyIcIf(s, told)
      BY <2>2 DEF DisconnectClient
    <3>2. \A k \in ClientType : KnowsIs(Updated(k, told), IF "left" = "" THEN k.phase ELSE "left",
                                        IF "" = "" THEN "" ELSE k.awaits, k.imid, k.ic)
      BY <2>1
    <3>3. ClientBecomes(c, IF "left" = "" THEN client[c].phase ELSE "left",
                        IF "" = "" THEN "" ELSE client[c].awaits, client[c].imid, FALSE)
      BY <3>1, <3>2, DestroyTold
    <3>4. ClientBecomes(c, "left", "", client[c].imid, FALSE)
      BY <3>3
    <3> QED  BY <3>4
  <2>3. CASE ~Ic(s).valid
    <3>1. Tell(c, told)
      BY <2>3 DEF DisconnectClient
    <3>2. KnowsIs(Updated(client[c], told), "left", "", client[c].imid, client[c].ic)
      BY <2>1 DEF Types
    <3>3. ClientBecomes(c, "left", "", client[c].imid, client[c].ic)
      BY <3>1, <3>2 DEF Tell, Becomes, ClientBecomes
    <3> QED  BY <3>3
  <2> QED  BY <2>2, <2>3
<1>5. Gone(c) => client' = client
  BY DEF DisconnectClient, DestroyIcIf, Tell, Becomes
<1>6. cxns' = IF Ic(s).valid THEN [k \in DOMAIN cxns \ {Ic(s).cxn} |-> cxns[k]] ELSE cxns
  BY DEF DisconnectClient, DestroyIcIf
<1> QED  BY <1>1, <1>2, <1>3, <1>4, <1>5, <1>6 DEF DisconnectClient

LEMMA FocusTurns ==
  ASSUME Types, NEW s \in DOMAIN slots, NEW in \in BOOLEAN, SetIcFocus(s, in)
  PROVE  /\ SlotBecomes(s, slots[s].valid, slots[s].closed, "", [Ic(s) EXCEPT !.focus = in])
         /\ UNCHANGED <<client, errors, early>>
         /\ DOMAIN cxns' = DOMAIN cxns
         /\ \A k \in DOMAIN cxns : /\ cxns'[k] \in CxnType
                                   /\ cxns'[k].focus = IF k = Ic(s).cxn THEN in ELSE cxns[k].focus
<1>1. PICK i \in IcType : i = [Ic(s) EXCEPT !.focus = in]
  <2>1. Ic(s) \in IcType
    BY SenderFacts
  <2>2. [Ic(s) EXCEPT !.focus = in] \in IcType
    BY <2>1 DEF IcType
  <2> QED  BY <2>2
<1>2. SlotBecomes(s, slots[s].valid, slots[s].closed, "", i)
  <2>1. slots[s] \in SlotType
    BY SenderFacts
  <2>2. "" \in {"", "START_REPLY"} /\ "" \in Args /\ TRUE \in BOOLEAN
    BY DEF Args
  <2>3. SlotIs(Updated([slots[s] EXCEPT !.sync = ""], [ic |-> i]),
               slots[s], slots[s].valid, slots[s].closed, "", i)
    BY <2>1, <2>2, SlotChanges
  <2>4. Settle(s, [ic |-> i])
    BY <1>1 DEF SetIcFocus
  <2> QED  BY <2>3, <2>4, SettleTurns
<1>3. Changed(Ic(s).cxn, [focus |-> in])
  BY DEF SetIcFocus
<1>4. /\ DOMAIN cxns' = DOMAIN cxns
      /\ \A k \in DOMAIN cxns : cxns'[k] = IF k = Ic(s).cxn THEN Updated(cxns[k], [focus |-> in]) ELSE cxns[k]
  BY <1>3 DEF Changed, Known
<1>5. \A x \in CxnType : Updated(x, [focus |-> in]) \in CxnType /\ Updated(x, [focus |-> in]).focus = in
  BY DEF Updated, CxnType
<1>6. \A k \in DOMAIN cxns : cxns[k] \in CxnType
  BY DEF Types
<1>7. \A k \in DOMAIN cxns : /\ cxns'[k] \in CxnType
                             /\ cxns'[k].focus = IF k = Ic(s).cxn THEN in ELSE cxns[k].focus
  BY <1>4, <1>5, <1>6
<1> QED  BY <1>1, <1>2, <1>4, <1>7 DEF SetIcFocus

LEMMA ReplyTurns ==
  ASSUME Types, NEW s \in DOMAIN slots, PreeditStartReply(s)
  PROVE  Stays(s) /\ UNCHANGED <<client, errors, cxns, early>>
<1>1. SlotBecomes(s, slots[s].valid, slots[s].closed, "", Ic(s))
  <2>1. slots[s] \in SlotType /\ Ic(s) \in IcType
    BY SenderFacts
  <2>2. "" \in {"", "START_REPLY"} /\ "" \in Args /\ TRUE \in BOOLEAN
    BY DEF Args
  <2>3. SlotIs(Updated([slots[s] EXCEPT !.sync = ""], <<>>),
               slots[s], slots[s].valid, slots[s].closed, "", slots[s].ic)
    BY <2>1, <2>2, SlotChanges
  <2>4. Settle(s, <<>>)
    BY DEF PreeditStartReply
  <2> QED  BY <2>3, <2>4, SettleTurns DEF Ic
<1> QED  BY <1>1 DEF Stays, PreeditStartReply

\* What comes of a key.
LEMMA OutcomeIs ==
  ASSUME NEW s, NEW o \in KeyOutcomes(s)
  PROVE  \/ o = ConvStart(s, TRUE) \/ o = ConvStart(s, FALSE) \/ o = Nothing(s)
         \/ \E n \in Nat : o = Drawn(s, n) \/ o = Done(s, n)
<1>0. MaxLen \in Nat
  BY XimAssumption
<1>1. \/ o = ConvStart(s, TRUE) \/ o = ConvStart(s, FALSE) \/ o = Nothing(s)
      \/ o \in {Preedited(s, n) : n \in 0 .. MaxLen}
      \/ o \in {Committed(s, n) : n \in 0 .. MaxLen - 1}
  BY DEF KeyOutcomes
<1>2. ASSUME o \in {Preedited(s, n) : n \in 0 .. MaxLen}  PROVE \E n \in Nat : o = Drawn(s, n)
  BY <1>0, <1>2 DEF Preedited
<1>3. ASSUME o \in {Committed(s, n) : n \in 0 .. MaxLen - 1}  PROVE \E n \in Nat : o = Done(s, n)
  BY <1>0, <1>3 DEF Committed
<1> QED  BY <1>1, <1>2, <1>3

\* An outcome of a key keeps the IC and its context, with their focus, and what
\* the client knows of them.
IcAs(i, j) == /\ i \in IcType /\ i.used = j.used /\ i.valid = j.valid
              /\ i.cxn = j.cxn /\ i.focus = j.focus
KeepsCxn(changes) == \A x \in CxnType : /\ Updated(x, changes) \in CxnType
                                        /\ Updated(x, changes).focus = x.focus
KeepsClient(k, told) == KnowsIs(Updated(k, told), k.phase, k.awaits, k.imid, k.ic)
Mild(o, s, c) == /\ IcAs(o.ic, Ic(s)) /\ KeepsClient(client[c], o.told) /\ KeepsCxn(o.cxn)
                 /\ o.sync \in {"", "START_REPLY"}
LEMMA OutcomesAreMild ==
  ASSUME Types, NEW s \in DOMAIN slots, NEW c \in Clients, c = Sender(s), NEW o \in KeyOutcomes(s)
  PROVE  Mild(o, s, c)
<1>1. Ic(s) \in IcType /\ client[c] \in ClientType
  BY SenderFacts DEF Types
<1>2. PICK w \in Nat : w = client[c].owes + 1
  BY <1>1 DEF ClientType
<1>3. /\ KeepsClient(client[c], <<>>) /\ KeepsClient(client[c], [owes |-> w])
      /\ KeepsClient(client[c], [owes |-> w, shown |-> 0])
      /\ \A n \in Nat : KeepsClient(client[c], [shown |-> n])
  <2>1. "gone" \in Phases /\ 0 \in Nat /\ "" \in Args
    BY DEF Phases, Args
  <2>2. \A n \in Nat : KeepsClient(client[c], [shown |-> n])
    BY <1>1, <2>1, ClientChanges DEF KeepsClient
  <2>3. KeepsClient(client[c], <<>>)
    BY <1>1, <2>1, ClientChanges DEF KeepsClient
  <2>4. KeepsClient(client[c], [owes |-> w])
    BY <1>1, <1>2, <2>1, ClientChanges DEF KeepsClient
  <2>5. KeepsClient(client[c], [owes |-> w, shown |-> 0])
    BY <1>1, <1>2, <2>1, ClientChanges DEF KeepsClient
  <2> QED  BY <2>2, <2>3, <2>4, <2>5
<1>4. /\ KeepsCxn(<<>>) /\ \A n \in Nat : KeepsCxn([comp |-> n])
      /\ \A b \in BOOLEAN : KeepsCxn([open |-> b])
      /\ \A b \in BOOLEAN, d \in BOOLEAN : KeepsCxn([open |-> b, compWin |-> d])
  <2>1. KeepsCxn(<<>>)
    BY NoChange DEF KeepsCxn
  <2>2. \A n \in Nat : KeepsCxn([comp |-> n])
    BY DEF KeepsCxn, Updated, CxnType
  <2>3. \A b \in BOOLEAN : KeepsCxn([open |-> b])
    BY DEF KeepsCxn, Updated, CxnType
  <2>4. \A b \in BOOLEAN, d \in BOOLEAN : KeepsCxn([open |-> b, compWin |-> d])
    BY DEF KeepsCxn, Updated, CxnType
  <2> QED  BY <2>1, <2>2, <2>3, <2>4
<1>5. /\ IcAs(Ic(s), Ic(s)) /\ \A n \in Nat : IcAs([Ic(s) EXCEPT !.preedit = n], Ic(s))
      /\ IcAs(InitIc(s), Ic(s))
  <2>1. IcAs(Ic(s), Ic(s))
    BY <1>1 DEF IcAs
  <2>2. \A n \in Nat : IcAs([Ic(s) EXCEPT !.preedit = n], Ic(s))
    BY <1>1 DEF IcAs, IcType
  <2>3. IcAs([Ic(s) EXCEPT !.window = "made", !.made = TRUE], Ic(s))
    BY <1>1 DEF IcAs, IcType, Windows
  <2> QED  BY <2>1, <2>2, <2>3 DEF InitIc
<1>6. ASSUME NEW i, NEW told, NEW x, NEW v, NEW y \in {"", "START_REPLY"},
             IcAs(i, Ic(s)), KeepsClient(client[c], told), KeepsCxn(x)
      PROVE  Mild(Outcome(i, told, x, v, y), s, c)
  BY <1>6 DEF Mild, Outcome
<1>7. Mild(Nothing(s), s, c)
  BY <1>3, <1>4, <1>5, <1>6 DEF Nothing
<1>8. ASSUME NEW n \in Nat  PROVE Mild(Drawn(s, n), s, c)
  <2>1. CASE Ic(s).style # "on"
    <3>1. Drawn(s, n) = Outcome(Ic(s), <<>>, [comp |-> n], {}, "")
      BY <2>1 DEF Drawn, Nothing, Outcome
    <3> QED  BY <1>3, <1>4, <1>5, <1>6, <3>1
  <2>2. CASE Ic(s).style = "on"
    <3>1. PICK i, told : /\ i = (IF n > 0 THEN [Ic(s) EXCEPT !.preedit = n] ELSE Ic(s))
                         /\ told = IF n > 0 \/ Ic(s).preedit > 0 THEN [shown |-> n] ELSE <<>>
      OBVIOUS
    <3>2. Drawn(s, n) = Outcome(i, told, [comp |-> n], {"ic"}, "")
      BY <2>2, <3>1 DEF Drawn
    <3>3. IcAs(i, Ic(s))
      BY <1>5, <3>1
    <3>4. KeepsClient(client[c], told)
      BY <1>3, <3>1
    <3> QED  BY <1>4, <1>6, <3>2, <3>3, <3>4
  <2> QED  BY <2>1, <2>2
<1>9. ASSUME NEW n \in Nat  PROVE Mild(Done(s, n), s, c)
  <2>1. CASE Ic(s).style # "on" \/ n > 0
    BY <1>8, <2>1 DEF Done
  <2>2. CASE ~(Ic(s).style # "on" \/ n > 0)
    <3>1. PICK i, told : /\ i = [Ic(s) EXCEPT !.preedit = 0]
                         /\ told = IF Ic(s).preedit > 0 THEN [owes |-> w, shown |-> 0] ELSE [owes |-> w]
      OBVIOUS
    <3>2. Done(s, n) = Outcome(i, told, [comp |-> 0], {}, "START_REPLY")
      BY <1>2, <2>2, <3>1 DEF Done
    <3>3. IcAs(i, Ic(s))
      BY <1>5, <3>1
    <3>4. KeepsClient(client[c], told)
      BY <1>3, <3>1
    <3> QED  BY <1>4, <1>6, <3>2, <3>3, <3>4
  <2> QED  BY <2>1, <2>2
<1>10. ASSUME NEW b \in BOOLEAN  PROVE Mild(ConvStart(s, b), s, c)
  <2>1. PICK i : i = IF b THEN InitIc(s) ELSE Ic(s)
    OBVIOUS
  <2>2. PICK told, y, v :
           /\ told = (IF i.style = "on" /\ b THEN [owes |-> w] ELSE <<>>)
           /\ y = (IF i.style = "on" /\ b THEN "START_REPLY" ELSE "")
           /\ v = MapCalls(i)
    OBVIOUS
  <2>3. OpenIme(s, i, b) = Outcome(i, told, [open |-> b], v, y)
    BY <1>2, <2>2 DEF OpenIme
  <2>4. IcAs(i, Ic(s)) /\ KeepsClient(client[c], told) /\ y \in {"", "START_REPLY"}
    BY <1>3, <1>5, <2>1, <2>2
  <2>5. CASE ~b
    <3>1. ConvStart(s, b) = Outcome(i, told, [open |-> b], v, y)
      BY <2>1, <2>3, <2>5 DEF ConvStart
    <3> QED  BY <1>4, <1>6, <2>4, <3>1
  <2>6. CASE b
    <3>1. PICK u, x : /\ u = v \cup InitCalls(s)
                      /\ x = IF Ic(s).style = "on" THEN [open |-> b, compWin |-> FALSE] ELSE [open |-> b]
      OBVIOUS
    <3>2. PICK q : q = OpenIme(s, i, b)
      OBVIOUS
    <3>3. /\ q = [ic |-> i, told |-> told, cxn |-> [open |-> b], windows |-> v, sync |-> y]
          /\ q.cxn = [open |-> b] /\ q.windows = v
      BY <2>3, <3>2 DEF Outcome
    <3>4. ConvStart(s, b) = [q EXCEPT !.windows = @ \cup InitCalls(s),
                                      !.cxn = IF Ic(s).style = "on" THEN [open |-> b, compWin |-> FALSE] ELSE @]
      BY <2>1, <2>6, <3>2 DEF ConvStart
    <3>5. ConvStart(s, b) = [q EXCEPT !.windows = u, !.cxn = x]
      BY <3>1, <3>3, <3>4
    <3>6. ConvStart(s, b) = Outcome(i, told, x, u, y)
      BY <3>3, <3>5 DEF Outcome
    <3>7. KeepsCxn(x)
      BY <1>4, <3>1
    <3> QED  BY <1>6, <2>4, <3>6, <3>7
  <2> QED  BY <2>5, <2>6
<1>11. \/ o = ConvStart(s, TRUE) \/ o = ConvStart(s, FALSE) \/ o = Nothing(s)
       \/ \E n \in Nat : o = Drawn(s, n) \/ o = Done(s, n)
  BY OutcomeIs
<1> QED  BY <1>7, <1>8, <1>9, <1>10, <1>11

\* What ForwardKey does to the context, the IC and the client.
LEMMA KeyIs ==
  ASSUME Types, NEW s \in DOMAIN slots, NEW c \in Clients, c = Sender(s), ForwardKey(s)
  PROVE  \E o \in KeyOutcomes(s) :
            /\ Mild(o, s, c) /\ Tell(c, o.told) /\ ErrorsOf(c) /\ UNCHANGED early
            /\ SlotBecomes(s, slots[s].valid, slots[s].closed, o.sync, o.ic)
            /\ DOMAIN cxns' = DOMAIN cxns
            /\ \A k \in DOMAIN cxns :
                  cxns'[k] = IF k = Ic(s).cxn THEN Updated(cxns[k], o.cxn) ELSE cxns[k]
<1>1. PICK o \in KeyOutcomes(s) :
         /\ Tell(c, o.told) /\ Calls(c, {"comm"} \cup o.windows)
         /\ Changed(Ic(s).cxn, o.cxn)
         /\ Settle(s, [ic |-> o.ic, sync |-> o.sync])
         /\ UNCHANGED early
  BY DEF ForwardKey
<1>2. Mild(o, s, c)
  BY OutcomesAreMild
<1>3. PICK i \in IcType, y \in {"", "START_REPLY"} : i = o.ic /\ y = o.sync
  BY <1>2 DEF Mild, IcAs
<1>4. SlotBecomes(s, slots[s].valid, slots[s].closed, y, i)
  <2>1. slots[s] \in SlotType
    BY SenderFacts
  <2>2. "" \in Args /\ TRUE \in BOOLEAN
    BY DEF Args
  <2>3. SlotIs(Updated([slots[s] EXCEPT !.sync = ""], [ic |-> i, sync |-> y]),
               slots[s], slots[s].valid, slots[s].closed, y, i)
    BY <2>1, <2>2, SlotChanges
  <2>4. Settle(s, [ic |-> i, sync |-> y])
    BY <1>1, <1>3
  <2> QED  BY <2>3, <2>4, SettleTurns
<1>5. /\ DOMAIN cxns' = DOMAIN cxns
      /\ \A k \in DOMAIN cxns : cxns'[k] = IF k = Ic(s).cxn THEN Updated(cxns[k], o.cxn) ELSE cxns[k]
  BY <1>1 DEF Changed, Known
<1>6. ErrorsOf(c)
  BY <1>1, CallErrors
<1> QED  BY <1>1, <1>2, <1>3, <1>4, <1>5, <1>6

LEMMA KeyTurns ==
  ASSUME Types, NEW s \in DOMAIN slots, NEW c \in Clients, c = Sender(s), ForwardKey(s)
  PROVE  /\ \E i, y : /\ SlotBecomes(s, slots[s].valid, slots[s].closed, y, i)
                      /\ IcAs(i, Ic(s)) /\ y \in {"", "START_REPLY"}
         /\ ClientBecomes(c, client[c].phase, client[c].awaits, client[c].imid, client[c].ic)
         /\ ErrorsOf(c) /\ UNCHANGED early
         /\ DOMAIN cxns' = DOMAIN cxns
         /\ \A k \in DOMAIN cxns : cxns'[k] \in CxnType /\ cxns'[k].focus = cxns[k].focus
<1>1. PICK o \in KeyOutcomes(s) :
         /\ Mild(o, s, c) /\ Tell(c, o.told) /\ ErrorsOf(c) /\ UNCHANGED early
         /\ SlotBecomes(s, slots[s].valid, slots[s].closed, o.sync, o.ic)
         /\ DOMAIN cxns' = DOMAIN cxns
         /\ \A k \in DOMAIN cxns :
               cxns'[k] = IF k = Ic(s).cxn THEN Updated(cxns[k], o.cxn) ELSE cxns[k]
  BY KeyIs
<1>2. IcAs(o.ic, Ic(s)) /\ o.sync \in {"", "START_REPLY"}
  BY <1>1 DEF Mild
<1>3. ClientBecomes(c, client[c].phase, client[c].awaits, client[c].imid, client[c].ic)
  BY <1>1 DEF Mild, KeepsClient, Tell, Becomes, ClientBecomes
<1>4. \A k \in DOMAIN cxns : cxns'[k] \in CxnType /\ cxns'[k].focus = cxns[k].focus
  <2>1. \A k \in DOMAIN cxns : cxns[k] \in CxnType
    BY DEF Types
  <2> QED  BY <1>1, <2>1 DEF Mild, KeepsCxn
<1> QED  BY <1>1, <1>2, <1>3, <1>4

---------------------------------------------------------------------------
(* Types.                                                                  *)

LEMMA LeastIn ==
  ASSUME NEW S, S \subseteq Nat, S # {}
  PROVE  Min(S) \in S /\ \A k \in S : Min(S) <= k
<1>1. PICK m \in S : \A k \in S : m <= k
  BY LeastNat
<1>2. Min(S) = CHOOSE x \in S : \A y \in S : x <= y
  BY DEF Min
<1> QED  BY <1>1, <1>2

\* Which WxContext a message is found to be for.
LEMMA FoundFacts ==
  ASSUME Types, NEW m
  PROVE  /\ Found(m) = 0 \/ Found(m) \in Valid
         /\ m.major \in ByProxy /\ Found(m) # 0 => Sender(Found(m)) = m.from
         /\ m.major \in ByProxy /\ Found(m) = 0 => \A s \in Valid : Sender(s) # m.from
         /\ m.major \notin ByProxy /\ Found(m) # 0 => m.imid = Found(m)
         /\ m.major \notin ByProxy => \A s \in Valid : m.imid = s => Found(m) = s
<1> DEFINE I == {i \in 1 .. Len(slots) : slots[i].client = m.from /\ slots[i].valid}
<1>0. DOMAIN slots = 1 .. Len(slots)
  BY DEF Types
<1>1. CASE m.major \in ByProxy
  <2>1. Found(m) = IF I # {} THEN Min(I) ELSE 0
    BY <1>1 DEF Found, SelectInSeq
  <2>2. I # {} => Min(I) \in I
    BY LeastIn
  <2>3. \A s \in Valid : Sender(s) = m.from => s \in I
    BY <1>0 DEF Valid, Sender
  <2>4. \A s \in I : s \in Valid /\ Sender(s) = m.from /\ s # 0
    BY <1>0 DEF Valid, Sender
  <2> HIDE DEF I
  <2> QED  BY <1>1, <2>1, <2>2, <2>3, <2>4
<1>2. CASE m.major \notin ByProxy
  <2>1. Found(m) = IF m.imid \in Valid THEN m.imid ELSE 0
    BY <1>2 DEF Found, Valid
  <2> QED  BY <1>2, <2>1
<1> QED  BY <1>1, <1>2

DataTypes ==
    /\ slots \in Seq(SlotType)
    /\ IsFiniteSet(DOMAIN cxns) /\ \A k \in DOMAIN cxns : k \in Nat /\ cxns[k] \in CxnType
    /\ errors \subseteq Clients \cup {"other"} /\ early \in BOOLEAN
    /\ client \in [Clients -> ClientType]
CxnTypes == IsFiniteSet(DOMAIN cxns) /\ \A k \in DOMAIN cxns : k \in Nat /\ cxns[k] \in CxnType

LEMMA CxnComes ==
  ASSUME Types, NEW k \in Nat, NEW x \in CxnType, cxns' = With(cxns, k, x)
  PROVE  CxnTypes'
<1>1. DOMAIN cxns' = DOMAIN cxns \cup {k}
  BY DEF With
<1>2. IsFiniteSet(DOMAIN cxns')
  <2>1. IsFiniteSet(DOMAIN cxns)
    BY DEF Types
  <2>2. IsFiniteSet(DOMAIN cxns \cup {k})
    BY <2>1, FS_AddElement
  <2> QED  BY <1>1, <2>2
<1>3. \A j \in DOMAIN cxns' : j \in Nat /\ cxns'[j] \in CxnType
  BY <1>1 DEF With, Types
<1> QED  BY <1>2, <1>3 DEF CxnTypes

LEMMA CxnGoes ==
  ASSUME Types, NEW k, cxns' = [j \in DOMAIN cxns \ {k} |-> cxns[j]]
  PROVE  CxnTypes'
<1>1. DOMAIN cxns' = DOMAIN cxns \ {k}
  OBVIOUS
<1>2. IsFiniteSet(DOMAIN cxns')
  BY <1>1, FS_Subset DEF Types
<1>3. \A j \in DOMAIN cxns' : j \in Nat /\ cxns'[j] \in CxnType
  BY DEF Types
<1> QED  BY <1>2, <1>3 DEF CxnTypes

LEMMA CxnsSame ==
  ASSUME Types, DOMAIN cxns' = DOMAIN cxns, \A k \in DOMAIN cxns : cxns'[k] \in CxnType
  PROVE  CxnTypes'
BY DEF Types, CxnTypes

\* The handlers keep the types.
LEMMA HandleTypes ==
  ASSUME Types, NEW s \in DOMAIN slots, NEW m \in EventType, Handle(m, s)
  PROVE  DataTypes' /\ Len(slots') = Len(slots)
<1>1. PICK c \in Clients : c = Sender(s)
  BY SenderFacts
<1>2. m.arg \in Args
  BY DEF EventType
<1>3. ASSUME NEW v, NEW cl, NEW y, NEW i, SlotBecomes(s, v, cl, y, i)
      PROVE  slots' \in Seq(SlotType) /\ Len(slots') = Len(slots)
  BY <1>3, SlotTurns
<1>4. ASSUME NEW p, NEW a, NEW n, NEW i, ClientBecomes(c, p, a, n, i)
      PROVE  client' \in [Clients -> ClientType]
  BY <1>4, ClientTurns
<1>5. ErrorsOf(c) => errors' \subseteq Clients \cup {"other"}
  BY ErrorTurns
<1>6. UNCHANGED cxns => CxnTypes'
  BY CxnsSame DEF Types
<1>7. UNCHANGED early => early' \in BOOLEAN
  BY DEF Types
<1>8. UNCHANGED client => client' \in [Clients -> ClientType]
  BY DEF Types
<1>9. UNCHANGED errors => errors' \subseteq Clients \cup {"other"}
  BY DEF Types
<1> DEFINE Fine == /\ slots' \in Seq(SlotType) /\ Len(slots') = Len(slots)
                   /\ client' \in [Clients -> ClientType] /\ errors' \subseteq Clients \cup {"other"}
                   /\ CxnTypes' /\ early' \in BOOLEAN
<1> SUFFICES Fine
  BY DEF Fine, CxnTypes, DataTypes
<1>10. CASE Connect(s) \/ Open(s) \/ Close(s) \/ SetIcValues(s) \/ QueryExtension(s) \/ GetImValues(s)
            \/ GetIcValues(s) \/ EncodingNego(s, m.arg) \/ ResetIc(s)
  <2>1. \E v, cl, y, i, p, n :
           /\ SlotBecomes(s, v, cl, y, i) /\ Hears(c, p, n) /\ ErrorsOf(c) /\ UNCHANGED <<cxns, early>>
    BY <1>1, <1>2, <1>10, Answers DEF Stays
  <2> QED  BY <1>3, <1>4, <1>5, <1>6, <1>7, <2>1 DEF Hears
<1>11. CASE CreateIc(s, m.arg)
  <2>1. PICK i \in IcType : SlotBecomes(s, slots[s].valid, slots[s].closed, "", i)
    BY <1>1, <1>2, <1>11, CreateTurns
  <2>2. /\ ClientBecomes(c, client[c].phase, "", client[c].imid, TRUE) /\ ErrorsOf(c)
        /\ cxns' = With(cxns, FreeCxn(DOMAIN cxns), NewCxn)
        /\ early' = (early \/ \E j \in DOMAIN events : events[j].t = "RESTART")
    BY <1>1, <1>2, <1>11, CreateTurns
  <2>3. CxnTypes'
    <3>1. FreeCxn(DOMAIN cxns) \in Nat
      BY FreeIsFree DEF Types
    <3>2. NewCxn \in CxnType
      BY DEF NewCxn, CxnType
    <3> QED  BY <2>2, <3>1, <3>2, CxnComes
  <2>4. early' \in BOOLEAN
    BY <2>2 DEF Types
  <2> QED  BY <1>3, <1>4, <1>5, <2>1, <2>2, <2>3, <2>4
<1>12. CASE DestroyIc(s)
  <2>1. /\ SlotBecomes(s, slots[s].valid, slots[s].closed, "", [Ic(s) EXCEPT !.valid = FALSE])
        /\ ClientBecomes(c, client[c].phase, "", client[c].imid, FALSE) /\ ErrorsOf(c)
        /\ cxns' = [k \in DOMAIN cxns \ {Ic(s).cxn} |-> cxns[k]] /\ UNCHANGED early
    BY <1>1, <1>12, DestroyTurns
  <2>2. CxnTypes'
    BY <2>1, CxnGoes
  <2> QED  BY <1>3, <1>4, <1>5, <1>7, <2>1, <2>2
<1>13. CASE Disconnect(s)
  <2>1. /\ SlotBecomes(s, FALSE, slots[s].closed, "", [Ic(s) EXCEPT !.valid = FALSE])
        /\ \E b : ClientBecomes(c, "left", "", client[c].imid, b)
        /\ cxns' = IF Ic(s).valid THEN [k \in DOMAIN cxns \ {Ic(s).cxn} |-> cxns[k]] ELSE cxns
        /\ ErrorsOf(c) /\ UNCHANGED early
    <3>1. PICK told : told = [phase |-> "left", awaits |-> ""] /\ told # <<>>
      <4>1. [phase |-> "left", awaits |-> ""] # <<>>
        <5>1. DOMAIN [phase |-> "left", awaits |-> ""] # DOMAIN <<>>
          OBVIOUS
        <5> QED  BY <5>1
      <4> QED  BY <4>1
    <3>2. DisconnectClient(s, told, {"comm"})
      BY <1>13, <3>1 DEF Disconnect
    <3>3. told = <<>> \/ told = [phase |-> "left", awaits |-> ""]
      BY <3>1
    <3>4. /\ SlotBecomes(s, FALSE, slots[s].closed, "", [Ic(s) EXCEPT !.valid = FALSE])
          /\ told # <<>> => \E b : ClientBecomes(c, "left", "", client[c].imid, b)
          /\ cxns' = IF Ic(s).valid THEN [k \in DOMAIN cxns \ {Ic(s).cxn} |-> cxns[k]] ELSE cxns
          /\ ErrorsOf(c) /\ UNCHANGED early
      BY <1>1, <3>2, <3>3, LeaveTurns
    <3> QED  BY <3>1, <3>4
  <2>2. CxnTypes'
    BY <1>6, <2>1, CxnGoes
  <2> QED  BY <1>3, <1>4, <1>5, <1>7, <2>1, <2>2
<1>14. CASE SetIcFocus(s, TRUE) \/ SetIcFocus(s, FALSE)
  <2>1. PICK in \in BOOLEAN : SetIcFocus(s, in)
    BY <1>14
  <2>2. /\ SlotBecomes(s, slots[s].valid, slots[s].closed, "", [Ic(s) EXCEPT !.focus = in])
        /\ UNCHANGED <<client, errors, early>>
        /\ DOMAIN cxns' = DOMAIN cxns /\ \A k \in DOMAIN cxns : cxns'[k] \in CxnType
    BY <2>1, FocusTurns
  <2>3. CxnTypes'
    BY <2>2, CxnsSame
  <2> QED  BY <1>3, <1>7, <1>8, <1>9, <2>2, <2>3
<1>15. CASE PreeditStartReply(s)
  <2>1. Stays(s) /\ UNCHANGED <<client, errors, cxns, early>>
    BY <1>15, ReplyTurns
  <2> QED  BY <1>3, <1>6, <1>7, <1>8, <1>9, <2>1 DEF Stays
<1>16. CASE ForwardKey(s)
  <2>1. /\ \E i, y : SlotBecomes(s, slots[s].valid, slots[s].closed, y, i)
        /\ ClientBecomes(c, client[c].phase, client[c].awaits, client[c].imid, client[c].ic)
        /\ ErrorsOf(c) /\ UNCHANGED early
        /\ DOMAIN cxns' = DOMAIN cxns /\ \A k \in DOMAIN cxns : cxns'[k] \in CxnType
    BY <1>1, <1>16, KeyTurns
  <2>2. CxnTypes'
    BY <2>1, CxnsSame
  <2> QED  BY <1>3, <1>4, <1>5, <1>7, <2>1, <2>2
<1> QED
  BY <1>10, <1>11, <1>12, <1>13, <1>14, <1>15, <1>16 DEF Handle
---------------------------------------------------------------------------
(* The message that a step takes out of the queue.                          *)


\* Its place when it is the next that X brings, and when it was put aside.
LEMMA HeadPlace ==
  ASSUME Types, scan = 0, events # <<>>
  PROVE  /\ held = <<>> /\ Len(eventQ) + 1 \in DOMAIN Queue /\ Queue[Len(eventQ) + 1] = Head(events)
         /\ Head(events) \in EventType /\ Tail(events) \in Seq(EventType)
<1>1. eventQ \in Seq(EventType) /\ events \in Seq(EventType) /\ held = <<>>
  BY SeqMonotonic DEF Types, Asked
<1>2. PICK k \in Nat : k = Len(eventQ)
  BY <1>1
<1>3. /\ k + 1 \in 1 .. Len(eventQ \o <<>> \o events) /\ (eventQ \o <<>> \o events)[k + 1] = Head(events)
      /\ Tail(events) \in Seq(EventType)
  BY <1>1, <1>2, HeadDrops
<1>4. Queue = eventQ \o <<>> \o events
  BY <1>1 DEF Queue
<1>5. DOMAIN Queue = 1 .. Len(Queue)
  BY QueueFacts DEF QueueForm
<1>6. Queue[k + 1] \in EventType
  BY <1>3, <1>4, <1>5, QueueFacts DEF QueueForm
<1> QED  BY <1>1, <1>2, <1>3, <1>4, <1>5, <1>6

LEMMA AsidePlace ==
  ASSUME Types, scan \in DOMAIN eventQ
  PROVE  /\ scan \in DOMAIN Queue /\ Queue[scan] = eventQ[scan] /\ eventQ[scan] \in Asked
         /\ RemoveAt(eventQ, scan) \in Seq(Asked) /\ Len(RemoveAt(eventQ, scan)) = Len(eventQ) - 1
<1>1. PICK k \in Nat, i \in Nat : k = Len(eventQ) /\ i = scan /\ i \in 1 .. k
  BY DEF Types
<1>2. eventQ \in Seq(Asked)
  BY DEF Types
<1>3. RemoveAt(eventQ, i) \in Seq(Asked) /\ Shorter(RemoveAt(eventQ, i), eventQ, i, k)
  BY <1>1, <1>2, Removal
<1>4. /\ DOMAIN Queue = 1 .. Len(Queue) /\ Len(Queue) \in Nat /\ Len(held) \in Nat
      /\ Len(eventQ) + Len(held) <= Len(Queue)
      /\ \A j \in 1 .. Len(eventQ) : Queue[j] = eventQ[j]
  BY QueueFacts DEF QueueForm
<1>5. i \in DOMAIN Queue /\ Queue[i] = eventQ[i] /\ eventQ[i] \in Asked
  BY <1>1, <1>2, <1>4
<1> QED  BY <1>1, <1>3, <1>5 DEF Shorter

LEMMA ErrorComes ==
  ASSUME NEW q \in Seq(EventType)
  PROVE  /\ WithError(q) \in Seq(EventType) /\ ErrorMessage \in EventType
         /\ WithError(q) = q \/ WithError(q) = Append(q, ErrorMessage)
<1>1. SelfError = ErrorMessage
  BY DEF SelfError, Event, ErrorMessage
<1>2. ErrorMessage \in EventType
  BY DEF ErrorMessage, EventType, Majors, Args
<1> QED  BY <1>1, <1>2 DEF WithError

\* What is left of the queue.
LEMMA Dropped ==
  ASSUME Types, NEW p \in Nat, NEW q, events' = q \/ events' = WithError(q),
         \/ /\ scan = 0 /\ events # <<>> /\ p = Len(eventQ) + 1 /\ q = Tail(events)
            /\ eventQ' = eventQ /\ held' = <<>>
         \/ /\ scan \in DOMAIN eventQ /\ p = scan /\ q = events
            /\ eventQ' = RemoveAt(eventQ, p) /\ held' = held
  PROVE  Drops(Queue, p, Queue')
<1>1. /\ eventQ \in Seq(EventType) /\ events \in Seq(EventType) /\ held \in Seq(EventType)
  BY SeqMonotonic DEF Types, Asked
<1>2. /\ eventQ' \in Seq(EventType) /\ held' \in Seq(EventType) /\ q \in Seq(EventType)
      /\ eventQ' \o held' \o q \in Seq(EventType)
      /\ Len(eventQ' \o held' \o q) = Len(Queue) - 1 /\ Drops(Queue, p, eventQ' \o held' \o q)
  <2>1. CASE scan = 0 /\ events # <<>> /\ p = Len(eventQ) + 1 /\ q = Tail(events)
             /\ eventQ' = eventQ /\ held' = <<>>
    <3>1. Queue = eventQ \o <<>> \o events
      BY <2>1 DEF Queue, Types
    <3>2. PICK k \in Nat : k = Len(eventQ)
      BY <1>1
    <3>3. /\ Tail(events) \in Seq(EventType)
          /\ Drops(eventQ \o <<>> \o events, k + 1, eventQ \o <<>> \o Tail(events))
          /\ Len(eventQ \o <<>> \o Tail(events)) = Len(eventQ \o <<>> \o events) - 1
      BY <1>1, <2>1, <3>2, HeadDrops
    <3>4. <<>> \in Seq(EventType)
      BY EmptySeq
    <3>5. eventQ \o <<>> \o Tail(events) \in Seq(EventType)
      BY <1>1, <3>3, <3>4, ConcatProperties
    <3>6. eventQ' \o held' \o q = eventQ \o <<>> \o Tail(events) /\ p = k + 1
      BY <2>1, <3>2
    <3>7. Drops(Queue, p, eventQ' \o held' \o q)
      BY <3>1, <3>3, <3>6
    <3> QED  BY <1>1, <2>1, <3>1, <3>3, <3>4, <3>5, <3>6, <3>7
  <2>2. CASE scan \in DOMAIN eventQ /\ p = scan /\ q = events
             /\ eventQ' = RemoveAt(eventQ, p) /\ held' = held
    <3>1. Queue = eventQ \o held \o events
      BY DEF Queue
    <3>2. PICK k \in Nat, i \in Nat : k = Len(eventQ) /\ i = p /\ i \in 1 .. k
      BY <1>1, <2>2
    <3>3. /\ RemoveAt(eventQ, i) \in Seq(EventType)
          /\ Drops(eventQ \o held \o events, i, RemoveAt(eventQ, i) \o held \o events)
          /\ Len(RemoveAt(eventQ, i) \o held \o events) = Len(eventQ \o held \o events) - 1
      BY <1>1, <3>2, AsideDrops
    <3>5. RemoveAt(eventQ, i) \o held \o events \in Seq(EventType)
      BY <1>1, <3>3, ConcatProperties
    <3>6. eventQ' \o held' \o q = RemoveAt(eventQ, i) \o held \o events
      BY <2>2, <3>2
    <3>7. Drops(Queue, p, eventQ' \o held' \o q)
      BY <3>1, <3>2, <3>3, <3>6
    <3> QED  BY <1>1, <2>2, <3>1, <3>2, <3>3, <3>5, <3>6, <3>7
  <2> QED  BY <2>1, <2>2
<1>a. PICK a \in Seq(EventType), b \in Seq(EventType), r \in Seq(EventType) :
         a = eventQ' /\ b = held' /\ r = q
  BY <1>2
<1>b. PICK n \in Nat, w \in Seq(EventType) :
         w = a \o b \o r /\ n = Len(w) /\ n = Len(Queue) - 1 /\ Drops(Queue, p, w)
  <2>1. Len(a \o b \o r) \in Nat
    BY <1>2, <1>a
  <2> QED  BY <1>2, <1>a, <2>1
<1>3. Queue' = eventQ' \o held' \o events'
  BY DEF Queue
<1>4. events' = r \/ events' = Append(r, ErrorMessage)
  BY <1>a, ErrorComes
<1>5. CASE events' = r
  BY <1>3, <1>5, <1>a, <1>b
<1>6. CASE events' = Append(r, ErrorMessage)
  <2>1. ErrorMessage \in EventType /\ Queue \in Seq(EventType)
    BY ErrorComes, <1>a, QueueFacts DEF QueueForm
  <2>2. Longer(a \o b \o Append(r, ErrorMessage), w, ErrorMessage, n)
    BY <1>b, <2>1, EndComes
  <2>3. Drops(Queue, p, a \o b \o Append(r, ErrorMessage))
    BY <1>b, <2>1, <2>2, ErrorAfter
  <2> QED  BY <1>3, <1>6, <1>a, <2>3
<1> QED  BY <1>4, <1>5, <1>6
---------------------------------------------------------------------------
(* The types are kept.                                                     *)

QueueTypes == /\ eventQ \in Seq(Asked) /\ held \in Seq(Asked) /\ events \in Seq(EventType)
              /\ scan \in Nat /\ Len(held) <= 1 /\ (scan = 0 => held = <<>>)
LEMMA TypesByParts == QueueTypes /\ DataTypes => Types
BY DEF QueueTypes, DataTypes, Types
LEMMA TypesByPartsNext == QueueTypes' /\ DataTypes' => Types'
BY TypesByParts, PTL
LEMMA TypesSplit == Types => QueueTypes /\ DataTypes
BY DEF QueueTypes, DataTypes, Types

LEMMA ProcessTypes ==
  ASSUME Types, NEW m \in EventType, NEW rest \in Seq(EventType), Process(m, rest)
  PROVE  DataTypes' /\ events' \in Seq(EventType) /\ Len(slots') = Len(slots)
<1>1. events' \in Seq(EventType)
  BY ErrorComes DEF Process
<1>2. CASE UNCHANGED <<slots, errors, cxns, client, early>>
  <2>1. DataTypes
    BY TypesSplit
  <2> QED  BY <1>1, <1>2, <2>1 DEF DataTypes
<1>3. CASE Found(m) # 0 /\ Handle(m, Found(m))
  <2>1. Found(m) \in DOMAIN slots
    BY <1>3, FoundFacts DEF Valid
  <2> QED  BY <1>1, <1>3, <2>1, HandleTypes
<1> QED  BY <1>2, <1>3 DEF Process, Crash

\* What is waited with is what a client has asked.
LEMMA WaitsAsked ==
  ASSUME Types, NEW m \in EventType, Waits(m), Sound(m), m.t = "MESSAGE"
  PROVE  m \in Asked
<1>1. PICK s \in Valid : s = Found(m)
  BY FoundFacts DEF Waits
<1>2. slots[s].sync \in {"", "START_REPLY"}
  <2>1. slots[s] \in SlotType
    BY SenderFacts DEF Valid
  <2> QED  BY <2>1 DEF SlotType
<1>3. m.major # "START_REPLY" /\ m.major # "ERROR"
  BY <1>1, <1>2 DEF Waits
<1>4. m.from \in Clients
  BY <1>3 DEF Sound, EventType
<1> QED  BY <1>3, <1>4 DEF Asked

\* preconnect puts a new WxContext in the place of one that is not valid, or
\* at the end.
NewSlot(c, s) ==
    /\ slots' \in Seq(SlotType) /\ Len(slots') >= Len(slots)
    /\ DOMAIN slots' = DOMAIN slots \cup {s} /\ s \in Nat /\ s > 0 /\ s <= Len(slots')
    /\ slots'[s] = Slot(c) /\ (s \in DOMAIN slots => ~slots[s].valid)
    /\ s \notin DOMAIN slots => s > Len(slots)
    /\ \A r \in DOMAIN slots : r # s => slots'[r] = slots[r]
LEMMA ConnectTurns ==
  ASSUME Types, SoundQueue, TakeConnect
  PROVE  \E c \in Clients :
            /\ Head(events).t = "CONNECT" /\ Head(events).from = c
            /\ \E s \in Nat : NewSlot(c, s)
            /\ ClientBecomes(c, "met", client[c].awaits, client[c].imid, client[c].ic)
            /\ ErrorsOf(c) /\ UNCHANGED <<cxns, early, eventQ, scan, held>>
            /\ scan = 0 /\ events # <<>> /\ events' = Tail(events)
<1>1. scan = 0 /\ events # <<>> /\ Head(events).t = "CONNECT"
  BY DEF TakeConnect, Taking
<1>2. PICK c \in Clients : c = Head(events).from
  <2>1. Head(events) \in EventType /\ Sound(Head(events))
    BY <1>1, HeadPlace DEF SoundQueue
  <2> QED  BY <1>1, <2>1 DEF Sound, EventType
<1>3. Slot(c) \in SlotType
  <2>1. NoIc \in IcType
    BY DEF NoIc, IcType, Args, Windows
  <2>2. "" \in Args
    BY DEF Args
  <2> QED  BY <2>1, <2>2 DEF Slot, SlotType
<1>4. PICK s : s = Reusable /\ slots' = IF s = 0 THEN Append(slots, Slot(c)) ELSE [slots EXCEPT ![s] = Slot(c)]
  BY <1>2 DEF TakeConnect
<1>5. \E r \in Nat : NewSlot(c, r)
  <2>0. PICK n \in Nat : n = Len(slots) /\ DOMAIN slots = 1 .. n /\ slots \in Seq(SlotType)
    BY DEF Types
  <2>1. CASE s = 0
    <3>1. /\ slots' \in Seq(SlotType) /\ Len(slots') = n + 1 /\ DOMAIN slots' = 1 .. n + 1
          /\ slots'[n + 1] = Slot(c) /\ \A r \in 1 .. n : slots'[r] = slots[r]
      BY <1>3, <1>4, <2>0, <2>1
    <3>2. NewSlot(c, n + 1)
      BY <2>0, <3>1 DEF NewSlot
    <3> QED  BY <3>2
  <2>2. CASE s # 0
    <3> DEFINE I == {i \in 1 .. Len(slots) : ~slots[i].valid}
    <3>1. s = IF I # {} THEN Min(I) ELSE 0
      BY <1>4 DEF Reusable, SelectInSeq
    <3>2. I # {} /\ s = Min(I)
      BY <2>2, <3>1
    <3>3. s \in I
      <4>1. I \subseteq Nat
        OBVIOUS
      <4> HIDE DEF I
      <4> QED  BY <3>2, <4>1, LeastIn
    <3>4. s \in 1 .. n /\ ~slots[s].valid
      BY <2>0, <3>3
    <3>5. /\ slots' \in Seq(SlotType) /\ Len(slots') = n /\ DOMAIN slots' = 1 .. n
          /\ slots'[s] = Slot(c) /\ \A r \in 1 .. n : r # s => slots'[r] = slots[r]
      BY <1>3, <1>4, <2>0, <2>2, <3>4
    <3>6. NewSlot(c, s)
      BY <2>0, <3>4, <3>5 DEF NewSlot
    <3> QED  BY <3>4, <3>6
  <2> QED  BY <2>1, <2>2
<1>6. ClientBecomes(c, "met", client[c].awaits, client[c].imid, client[c].ic)
  <2>1. KnowsIs(Updated(client[c], [phase |-> "met"]), "met", client[c].awaits, client[c].imid, client[c].ic)
    <3>1. client[c] \in ClientType /\ "met" \in Phases /\ 0 \in Nat /\ "" \in Args
      BY DEF Types, Phases, Args
    <3> QED  BY <3>1, ClientChanges
  <2> QED  BY <1>2, <2>1 DEF TakeConnect, Tell, Becomes, ClientBecomes
<1>7. ErrorsOf(c)
  BY <1>2, CallErrors DEF TakeConnect
<1> QED  BY <1>1, <1>2, <1>5, <1>6, <1>7 DEF TakeConnect, TakenOnly

\* destroy_client, which finds the WxContext or not.
LEMMA DestroyedTurns ==
  ASSUME Types, SoundQueue, TakeDestroyed
  PROVE  \E c \in Clients :
            /\ Head(events).t = "DESTROYED" /\ Head(events).from = c
            /\ \/ UNCHANGED <<slots, errors, cxns, client, early>> /\ \A s \in Valid : Sender(s) # c
               \/ \E s \in Valid : Sender(s) = c /\ DisconnectClient(s, <<>>, {})
            /\ UNCHANGED <<eventQ, scan, held>>
            /\ scan = 0 /\ events # <<>> /\ events' = Tail(events)
<1>1. scan = 0 /\ events # <<>> /\ Head(events).t = "DESTROYED"
  BY DEF TakeDestroyed, Taking
<1>2. Head(events) \in EventType /\ Sound(Head(events))
  BY <1>1, HeadPlace DEF SoundQueue
<1>3. PICK c \in Clients : c = Head(events).from
  BY <1>1, <1>2 DEF Sound, EventType
<1>4. PICK m : m = [Head(events) EXCEPT !.major = "DISCONNECT"]
  OBVIOUS
<1>5. m.major \in ByProxy /\ m.from = c
  BY <1>2, <1>3, <1>4 DEF EventType, ByProxy
<1>6. PICK s : s = Found(m)
  OBVIOUS
<1>7. IF s = 0 THEN UNCHANGED <<slots, errors, cxns, client, early>> ELSE DisconnectClient(s, <<>>, {})
  BY <1>4, <1>6 DEF TakeDestroyed
<1>8. IF s = 0 THEN \A r \in Valid : Sender(r) # c ELSE s \in Valid /\ Sender(s) = c
  BY <1>5, <1>6, FoundFacts
<1> QED  BY <1>1, <1>3, <1>7, <1>8 DEF TakeDestroyed, TakenOnly

LEMMA LeaveTypes ==
  ASSUME Types, NEW s \in DOMAIN slots, DisconnectClient(s, <<>>, {})
  PROVE  DataTypes' /\ Len(slots') = Len(slots)
<1>1. PICK c \in Clients : c = Sender(s)
  BY SenderFacts
<1>2. PICK told : told = <<>>
  OBVIOUS
<1>3. /\ SlotBecomes(s, FALSE, slots[s].closed, "", [Ic(s) EXCEPT !.valid = FALSE])
      /\ cxns' = IF Ic(s).valid THEN [k \in DOMAIN cxns \ {Ic(s).cxn} |-> cxns[k]] ELSE cxns
      /\ ErrorsOf(c) /\ UNCHANGED early
  <2>1. told = <<>> \/ told = [phase |-> "left", awaits |-> ""]
    BY <1>2
  <2>2. DisconnectClient(s, told, {})
    BY <1>2
  <2> QED  BY <1>1, <2>1, <2>2, LeaveTurns
<1>4. client' \in [Clients -> ClientType]
  <2>1. \E b : KnowsIs(Updated(client[c], <<>>), client[c].phase, client[c].awaits, client[c].imid, b)
    <3>1. client[c] \in ClientType
      BY DEF Types
    <3> QED  BY <3>1, NoChange DEF KnowsIs
  <2>3. CASE Ic(s).valid
    <3>1. PICK k \in ClientType : k = [client[c] EXCEPT !.ic = FALSE] /\ Updated(k, <<>>) = k
      <4>1. [client[c] EXCEPT !.ic = FALSE] \in ClientType
        BY DEF Types, ClientType
      <4> QED  BY <4>1, NoChange
    <3>2. Becomes(c, CleanedUp(s, k))
      BY <1>1, <2>3, <3>1 DEF DisconnectClient, DestroyIcIf
    <3>3. CleanedUp(s, k) \in ClientType
      BY DEF CleanedUp, ClientType, Windows
    <3> QED  BY <3>2, <3>3 DEF Becomes, Types
  <2>4. CASE ~Ic(s).valid
    <3>1. Tell(c, <<>>)
      BY <1>1, <2>4 DEF DisconnectClient
    <3>2. \E b : ClientBecomes(c, client[c].phase, client[c].awaits, client[c].imid, b)
      BY <2>1, <3>1 DEF Tell, Becomes, ClientBecomes
    <3> QED  BY <3>2, ClientTurns
  <2> QED  BY <2>3, <2>4
<1>5. CxnTypes'
  <2>1. UNCHANGED cxns => CxnTypes'
    BY CxnsSame DEF Types
  <2> QED  BY <1>3, <2>1, CxnGoes
<1>6. slots' \in Seq(SlotType) /\ Len(slots') = Len(slots)
  BY <1>3, SlotTurns
<1>7. errors' \subseteq Clients \cup {"other"} /\ early' \in BOOLEAN
  BY <1>1, <1>3, ErrorTurns DEF Types
<1> QED  BY <1>4, <1>5, <1>6, <1>7 DEF DataTypes, CxnTypes
---------------------------------------------------------------------------
(* chk_im and chk_ic after a restart.                                      *)

\* The contexts as they are, or with some of them new.
Contexts == {cxns} \cup UNION {[K -> CxnType] : K \in {L \in SUBSET Nat : IsFiniteSet(L)}}
Passes(n) == {x \in [slots : Seq(SlotType), cxns : Contexts] : Len(x.slots) = n}
LEMMA ContextsAre ==
  ASSUME Types
  PROVE  /\ \A f \in Contexts : IsFiniteSet(DOMAIN f) /\ \A k \in DOMAIN f : k \in Nat /\ f[k] \in CxnType
         /\ \A f : /\ IsFiniteSet(DOMAIN f) /\ \A k \in DOMAIN f : k \in Nat /\ f[k] \in CxnType
                  /\ f = [k \in DOMAIN f |-> f[k]]
                  => f \in Contexts
<1>1. ASSUME NEW f \in Contexts
      PROVE  IsFiniteSet(DOMAIN f) /\ \A k \in DOMAIN f : k \in Nat /\ f[k] \in CxnType
  BY DEF Contexts, Types
<1>2. ASSUME NEW f, IsFiniteSet(DOMAIN f), \A k \in DOMAIN f : k \in Nat /\ f[k] \in CxnType,
             f = [k \in DOMAIN f |-> f[k]]
      PROVE  f \in Contexts
  <2>1. f \in [DOMAIN f -> CxnType] /\ DOMAIN f \in SUBSET Nat
    BY <1>2
  <2> QED  BY <1>2, <2>1 DEF Contexts
<1> QED  BY <1>1, <1>2

\* Of a slot and of the one in its place: all but the number of its context.
Renumbered(q, r) == /\ q \in SlotType /\ q.client = r.client /\ q.valid = r.valid /\ q.closed = r.closed
                    /\ q.sync = r.sync /\ q.ic.used = r.ic.used /\ q.ic.valid = r.ic.valid
                    /\ q.ic.focus = r.ic.focus /\ q.ic.style = r.ic.style /\ q.ic.preedit = r.ic.preedit
Lives(q) == q.valid /\ ~q.closed /\ q.ic.valid

Renews(x, y, s) ==
    /\ \A r \in DOMAIN x.slots : r # s => y.slots[r] = x.slots[r]
    /\ Renumbered(y.slots[s], x.slots[s])
    /\ \A k \in DOMAIN x.cxns : k \in DOMAIN y.cxns /\ y.cxns[k] = x.cxns[k]
    /\ Lives(x.slots[s]) => /\ y.slots[s].ic.cxn \in DOMAIN y.cxns
                            /\ y.slots[s].ic.cxn \notin DOMAIN x.cxns
                            /\ y.cxns[y.slots[s].ic.cxn].focus = x.slots[s].ic.focus
LEMMA RenewedRenews ==
  ASSUME Types, NEW n \in Nat, NEW x \in Passes(n), NEW s \in 1 .. n
  PROVE  Renewed(x, s) \in Passes(n) /\ Renews(x, Renewed(x, s), s)
<1>1. /\ x \in [slots : Seq(SlotType), cxns : Contexts] /\ Len(x.slots) = n
      /\ x.slots \in Seq(SlotType) /\ DOMAIN x.slots = 1 .. n
      /\ IsFiniteSet(DOMAIN x.cxns) /\ \A k \in DOMAIN x.cxns : k \in Nat /\ x.cxns[k] \in CxnType
  BY ContextsAre DEF Passes
<1>2. x.slots[s] \in SlotType /\ x.slots[s].ic \in IcType
  <2>1. x.slots[s] \in SlotType
    BY <1>1
  <2> QED  BY <2>1 DEF SlotType
<1>3. CASE ~Lives(x.slots[s])
  <2>1. Renewed(x, s) = x
    BY <1>3 DEF Renewed, Lives
  <2>2. Renumbered(x.slots[s], x.slots[s])
    BY <1>2 DEF Renumbered
  <2> QED  BY <1>3, <2>1, <2>2 DEF Renews
<1>4. CASE Lives(x.slots[s])
  <2>1. PICK k \in Nat : k = FreeCxn(DOMAIN x.cxns) /\ k \notin DOMAIN x.cxns
    BY <1>1, FreeIsFree
  <2>2. PICK w : w = [x.slots EXCEPT ![s].ic.cxn = k]
    OBVIOUS
  <2>3. PICK z \in CxnType : z = [NewCxn EXCEPT !.focus = x.slots[s].ic.focus] /\ z.focus = x.slots[s].ic.focus
    <3>1. PICK b \in BOOLEAN : b = x.slots[s].ic.focus
      BY <1>2 DEF IcType
    <3>2. [NewCxn EXCEPT !.focus = b] \in CxnType /\ [NewCxn EXCEPT !.focus = b].focus = b
      BY DEF NewCxn, CxnType
    <3> QED  BY <3>1, <3>2
  <2>4. PICK v : v = With(x.cxns, k, z)
    OBVIOUS
  <2>5. Renewed(x, s) = [slots |-> w, cxns |-> v]
    BY <1>4, <2>1, <2>2, <2>3, <2>4 DEF Renewed, Lives
  <2>6. PICK q : q = [x.slots[s] EXCEPT !.ic.cxn = k]
    OBVIOUS
  <2>7. Renumbered(q, x.slots[s]) /\ q.ic.cxn = k /\ q \in SlotType
    <3>1. PICK i : i = [x.slots[s].ic EXCEPT !.cxn = k]
      OBVIOUS
    <3>2. /\ i \in IcType /\ i.cxn = k /\ i.used = x.slots[s].ic.used
          /\ i.valid = x.slots[s].ic.valid /\ i.focus = x.slots[s].ic.focus
          /\ i.style = x.slots[s].ic.style /\ i.preedit = x.slots[s].ic.preedit
      BY <1>2, <3>1 DEF IcType
    <3>3. q = [x.slots[s] EXCEPT !.ic = i]
      BY <2>6, <3>1
    <3>4. q \in SlotType /\ q.client = x.slots[s].client /\ q.valid = x.slots[s].valid
          /\ q.closed = x.slots[s].closed /\ q.sync = x.slots[s].sync /\ q.ic = i
      BY <1>2, <3>2, <3>3 DEF SlotType
    <3> QED  BY <3>2, <3>4 DEF Renumbered
  <2>8. w = [x.slots EXCEPT ![s] = q]
    BY <2>2, <2>6
  <2>9. /\ w \in Seq(SlotType) /\ Len(w) = n /\ w[s] = q
        /\ \A r \in 1 .. n : r # s => w[r] = x.slots[r]
    BY <1>1, <2>7, <2>8
  <2>10. /\ DOMAIN v = DOMAIN x.cxns \cup {k} /\ v[k] = z
         /\ \A j \in DOMAIN x.cxns : v[j] = x.cxns[j]
    BY <2>1, <2>4 DEF With
  <2>11. v \in Contexts
    <3>1. IsFiniteSet(DOMAIN x.cxns \cup {k})
      BY <1>1, FS_AddElement
    <3>2. v = [j \in DOMAIN v |-> v[j]]
      BY <2>4 DEF With
    <3>3. \A j \in DOMAIN v : j \in Nat /\ v[j] \in CxnType
      BY <1>1, <2>10
    <3>4. IsFiniteSet(DOMAIN v)
      BY <2>10, <3>1
    <3> QED  BY <3>2, <3>3, <3>4, ContextsAre
  <2>12. PICK y : y = [slots |-> w, cxns |-> v]
    OBVIOUS
  <2>13. y \in Passes(n)
    BY <2>9, <2>11, <2>12 DEF Passes
  <2>14. Renews(x, y, s)
    <3>1. y.slots = w /\ y.cxns = v
      BY <2>12
    <3>2. /\ \A r \in DOMAIN x.slots : r # s => w[r] = x.slots[r]
          /\ Renumbered(w[s], x.slots[s])
          /\ \A j \in DOMAIN x.cxns : j \in DOMAIN v /\ v[j] = x.cxns[j]
          /\ w[s].ic.cxn \in DOMAIN v /\ w[s].ic.cxn \notin DOMAIN x.cxns
          /\ v[w[s].ic.cxn].focus = x.slots[s].ic.focus
      BY <1>1, <2>1, <2>3, <2>7, <2>9, <2>10
    <3> QED  BY <3>1, <3>2 DEF Renews
  <2> QED  BY <2>5, <2>12, <2>13, <2>14
<1> QED  BY <1>3, <1>4

\* What TakeRestart computes, slot by slot.
Passed(x, n) == /\ x \in [0 .. n -> Passes(n)] /\ x[0] = [slots |-> slots, cxns |-> cxns]
                /\ \A i \in 1 .. n : x[i] = Renewed(x[i - 1], i)
LEMMA RestartPasses ==
  ASSUME Types, TakeRestart, NEW n \in Nat, n = Len(slots)
  PROVE  \E x : Passed(x, n) /\ slots' = x[n].slots /\ cxns' = x[n].cxns
<1> DEFINE b == [slots |-> slots, cxns |-> cxns]
           step == [p \in Passes(n) \X (1 .. n) |-> Renewed(p[1], p[2])]
           Is(g) == g = [s \in 0 .. n |-> IF s = 0 THEN b ELSE Renewed(g[s - 1], s)]
           x == CHOOSE g : Is(g)
<1>1. slots' = x[n].slots /\ cxns' = x[n].cxns
  BY DEF TakeRestart
<1>2. step \in [Passes(n) \X (1 .. n) -> Passes(n)]
  <2> SUFFICES ASSUME NEW y \in Passes(n), NEW i \in 1 .. n  PROVE Renewed(y, i) \in Passes(n)
    OBVIOUS
  <2> QED  BY RenewedRenews
<1>3. b \in Passes(n)
  <2>1. cxns \in Contexts
    BY DEF Contexts
  <2> QED  BY <2>1 DEF Passes, Types
<1>4. PICK s \in [0 .. n -> Passes(n)] :
         s[0] = b /\ \A i \in 1 .. n : s[i] = step[<<s[i - 1], i>>]
  <2>1. PICK D, c, st : D = Passes(n) /\ c = b /\ st = step
    OBVIOUS
  <2> HIDE DEF b, step
  <2>2. c \in D /\ \A d \in D, i \in 1 .. n : st[<<d, i>>] \in D
    BY <1>2, <1>3, <2>1
  <2>3. \E s : Course(s, D, c, n, st)
    BY <2>2, Iterated
  <2> QED  BY <2>1, <2>3 DEF Course
<1>5. s[0] = b /\ \A i \in 1 .. n : s[i] = Renewed(s[i - 1], i)
  <2> HIDE DEF b
  <2>1. s[0] = b
    BY <1>4
  <2>2. ASSUME NEW i \in 1 .. n  PROVE s[i] = Renewed(s[i - 1], i)
    <3>1. i - 1 \in 0 .. n /\ i \in 0 .. n /\ i # 0
      OBVIOUS
    <3>2. s[i - 1] \in Passes(n) /\ s[i] = step[<<s[i - 1], i>>]
      BY <1>4, <3>1
    <3>3. <<s[i - 1], i>> \in Passes(n) \X (1 .. n)
      BY <3>2
    <3> QED  BY <3>2, <3>3
  <2> QED  BY <2>1, <2>2
<1>6. Is(s)
  <2> HIDE DEF b
  <2>1. s = [i \in 0 .. n |-> s[i]]
    BY <1>4
  <2>2. \A i \in 0 .. n : s[i] = IF i = 0 THEN b ELSE Renewed(s[i - 1], i)
    BY <1>5
  <2> QED  BY <2>1, <2>2
<1>7. Is(x)
  <2> HIDE DEF Is
  <2> QED  BY <1>6
<1>8. x = s
  <2> DEFINE T == {i \in 0 .. n : x[i] # s[i]}
  <2> HIDE DEF x, b
  <2>1. ASSUME T # {}  PROVE FALSE
    <3>1. PICK k \in T : \A j \in T : k <= j
      <4>1. T \subseteq Nat
        OBVIOUS
      <4> HIDE DEF T
      <4> QED  BY <2>1, <4>1, LeastNat
    <3>2. k # 0
      BY <1>5, <1>7
    <3>3. x[k - 1] = s[k - 1]
      BY <3>1, <3>2
    <3>4. k \in 1 .. n /\ x[k] # s[k]
      BY <3>1, <3>2
    <3>5. s[k] = Renewed(s[k - 1], k)
      BY <1>5, <3>4
    <3>6. x[k] = Renewed(x[k - 1], k)
      <4>1. k \in 0 .. n
        BY <3>4
      <4> QED  BY <1>7, <3>2, <4>1
    <3> QED  BY <3>3, <3>4, <3>5, <3>6
  <2>2. x = [i \in 0 .. n |-> x[i]] /\ s = [i \in 0 .. n |-> s[i]]
    BY <1>4, <1>7
  <2> QED  BY <2>1, <2>2
<1> HIDE DEF x
<1>9. Passed(s, n)
  BY <1>4, <1>5 DEF Passed
<1> QED  BY <1>1, <1>8, <1>9

\* After i of the slots have been gone through: those that live have a context
\* each, which is new, with their focus.
Has(y, r) == Lives(y.slots[r]) => /\ y.slots[r].ic.cxn \in DOMAIN y.cxns
                                  /\ y.slots[r].ic.cxn \notin DOMAIN cxns
                                  /\ y.cxns[y.slots[r].ic.cxn].focus = y.slots[r].ic.focus
Distinct(y, q, r) == q # r /\ Lives(y.slots[q]) /\ Lives(y.slots[r])
                      => y.slots[q].ic.cxn # y.slots[r].ic.cxn
Through(y, i, n) ==
    /\ DOMAIN cxns \subseteq DOMAIN y.cxns
    /\ \A r \in 1 .. n : Renumbered(y.slots[r], slots[r])
    /\ \A r \in 1 .. i : Has(y, r)
    /\ \A q, r \in 1 .. i : Distinct(y, q, r)
LEMMA RenewsThrough ==
  ASSUME NEW n \in Nat, NEW y \in Passes(n), NEW z \in Passes(n), NEW i \in 1 .. n, Renews(y, z, i),
         Through(y, i - 1, n)
  PROVE  Through(z, i, n)
<1>1. DOMAIN y.slots = 1 .. n
  BY DEF Passes
<1>2. PICK m : m = 1 .. n /\ DOMAIN y.slots = m /\ i \in m
  BY <1>1
<1>3. PICK p : p = 1 .. i - 1 /\ p \subseteq m /\ 1 .. i = p \cup {i} /\ i \notin p
  BY <1>2
<1>4. /\ \A r \in m : r # i => z.slots[r] = y.slots[r]
      /\ Renumbered(z.slots[i], y.slots[i])
      /\ \A k \in DOMAIN y.cxns : k \in DOMAIN z.cxns /\ z.cxns[k] = y.cxns[k]
      /\ Lives(y.slots[i]) => /\ z.slots[i].ic.cxn \in DOMAIN z.cxns
                              /\ z.slots[i].ic.cxn \notin DOMAIN y.cxns
                              /\ z.cxns[z.slots[i].ic.cxn].focus = y.slots[i].ic.focus
  BY <1>2 DEF Renews
<1>5. /\ \A r \in m : Renumbered(y.slots[r], slots[r])
      /\ \A r \in p : Has(y, r)
      /\ \A q, r \in p : Distinct(y, q, r)
      /\ DOMAIN cxns \subseteq DOMAIN y.cxns
  BY <1>2, <1>3 DEF Through
<1>6. ASSUME NEW r \in m  PROVE Renumbered(z.slots[r], slots[r])
  <2>1. CASE r # i
    BY <1>4, <1>5, <2>1
  <2>2. CASE r = i
    BY <1>4, <1>5, <2>2 DEF Renumbered
  <2> QED  BY <2>1, <2>2
<1>7. Lives(z.slots[i]) = Lives(y.slots[i]) /\ z.slots[i].ic.focus = y.slots[i].ic.focus
  BY <1>4 DEF Renumbered, Lives
<1>8. ASSUME NEW r \in p \cup {i}  PROVE Has(z, r)
  <2>1. CASE r # i
    <3>1. Has(y, r) /\ z.slots[r] = y.slots[r]
      BY <1>3, <1>4, <1>5, <2>1
    <3> QED  BY <1>4, <3>1 DEF Has
  <2>2. CASE r = i
    BY <1>4, <1>5, <1>7, <2>2 DEF Has
  <2> QED  BY <2>1, <2>2
<1>9. ASSUME NEW r \in p  PROVE Distinct(z, i, r) /\ Distinct(z, r, i)
  <2>1. Has(y, r) /\ z.slots[r] = y.slots[r]
    BY <1>3, <1>4, <1>5
  <2> QED  BY <1>4, <1>7, <2>1 DEF Has, Distinct
<1>10. ASSUME NEW q \in p \cup {i}, NEW r \in p \cup {i}  PROVE Distinct(z, q, r)
  <2>1. CASE q \in p /\ r \in p
    <3>1. Distinct(y, q, r) /\ z.slots[r] = y.slots[r] /\ z.slots[q] = y.slots[q]
      BY <1>3, <1>4, <1>5, <2>1
    <3> QED  BY <3>1 DEF Distinct
  <2>2. CASE q = i /\ r = i
    BY <2>2 DEF Distinct
  <2> QED  BY <1>9, <2>1, <2>2
<1>11. DOMAIN cxns \subseteq DOMAIN z.cxns
  BY <1>4, <1>5
<1> QED  BY <1>2, <1>3, <1>6, <1>8, <1>10, <1>11 DEF Through

LEMMA RestartTurns ==
  ASSUME Types, TakeRestart
  PROVE  /\ slots' \in Seq(SlotType) /\ Len(slots') = Len(slots) /\ DOMAIN slots' = DOMAIN slots
         /\ CxnTypes'
         /\ \A s \in DOMAIN slots : Renumbered(slots'[s], slots[s])
         /\ \A s \in DOMAIN slots : Lives(slots'[s]) =>
               slots'[s].ic.cxn \in DOMAIN cxns' /\ cxns'[slots'[s].ic.cxn].focus = slots'[s].ic.focus
         /\ \A r, s \in DOMAIN slots : r # s /\ Lives(slots'[r]) /\ Lives(slots'[s])
               => slots'[r].ic.cxn # slots'[s].ic.cxn
         /\ \A s \in DOMAIN slots : Lives(slots'[s]) => slots'[s].ic.cxn \notin DOMAIN cxns
<1>1. PICK n \in Nat : n = Len(slots) /\ DOMAIN slots = 1 .. n
  BY DEF Types
<1>2. PICK x : Passed(x, n) /\ slots' = x[n].slots /\ cxns' = x[n].cxns
  BY <1>1, RestartPasses
<1>3. Through(x[0], 0, n)
  <2>1. x[0].slots = slots /\ x[0].cxns = cxns
    BY <1>2 DEF Passed
  <2>2. \A r \in 1 .. n : Renumbered(slots[r], slots[r])
    BY <1>1, SenderFacts DEF Renumbered
  <2> QED  BY <2>1, <2>2 DEF Through
<1>4. ASSUME NEW i \in 1 .. n, Through(x[i - 1], i - 1, n)  PROVE Through(x[i], i, n)
  <2>1. i - 1 \in 0 .. n /\ i \in 0 .. n
    OBVIOUS
  <2>2. x[i - 1] \in Passes(n) /\ x[i] = Renewed(x[i - 1], i)
    BY <1>2, <2>1 DEF Passed
  <2>3. x[i] \in Passes(n) /\ Renews(x[i - 1], x[i], i)
    BY <2>2, RenewedRenews
  <2> QED  BY <1>4, <2>2, <2>3, RenewsThrough
<1> DEFINE T == {i \in 0 .. n : ~Through(x[i], i, n)}
<1>5. ASSUME T # {}  PROVE FALSE
  <2>1. PICK k \in T : \A j \in T : k <= j
    <3>1. T \subseteq Nat
      OBVIOUS
    <3> HIDE DEF T
    <3> QED  BY <1>5, <3>1, LeastNat
  <2>2. k # 0
    BY <1>3, <2>1
  <2>3. k - 1 \in 0 .. n /\ ~(k <= k - 1) /\ k \in 1 .. n
    BY <2>1, <2>2
  <2>4. Through(x[k - 1], k - 1, n)
    BY <2>1, <2>3
  <2> QED  BY <1>4, <2>1, <2>3, <2>4
<1>6. Through(x[n], n, n)
  BY <1>5
<1>7. /\ \A r \in 1 .. n : Renumbered(slots'[r], slots[r])
      /\ \A r \in 1 .. n : Lives(slots'[r]) =>
               slots'[r].ic.cxn \in DOMAIN cxns' /\ cxns'[slots'[r].ic.cxn].focus = slots'[r].ic.focus
      /\ \A q, r \in 1 .. n : q # r /\ Lives(slots'[q]) /\ Lives(slots'[r])
               => slots'[q].ic.cxn # slots'[r].ic.cxn
      /\ \A r \in 1 .. n : Lives(slots'[r]) => slots'[r].ic.cxn \notin DOMAIN cxns
  BY <1>2, <1>6 DEF Through, Has, Distinct
<1>8. x[n] \in Passes(n)
  BY <1>2 DEF Passed
<1>9. slots' \in Seq(SlotType) /\ Len(slots') = n /\ cxns' \in Contexts
  BY <1>2, <1>8 DEF Passes
<1>10. CxnTypes'
  BY <1>9, ContextsAre DEF CxnTypes
<1> QED  BY <1>1, <1>7, <1>9, <1>10

\* A client's event comes in at the end of the queue.
EventIs(x, t, c, major, imid, arg) ==
    /\ x \in EventType /\ x.t = t /\ x.from = c /\ x.major = major /\ x.imid = imid /\ x.arg = arg
LEMMA Comes ==
  ASSUME Types, NEW x \in EventType, events' = Append(events, x), UNCHANGED <<eventQ, held>>
  PROVE  events' \in Seq(EventType) /\ Longer(Queue', Queue, x, Len(Queue))
<1>1. /\ eventQ \in Seq(EventType) /\ events \in Seq(EventType) /\ held \in Seq(EventType)
  BY SeqMonotonic DEF Types, Asked
<1>2. PICK n \in Nat : n = Len(Queue)
  BY QueueFacts DEF QueueForm
<1>3. n = Len(eventQ \o held \o events)
  BY <1>2 DEF Queue
<1>4. Longer(eventQ \o held \o Append(events, x), eventQ \o held \o events, x, n)
  BY <1>1, <1>3, EndComes
<1> QED  BY <1>1, <1>2, <1>4 DEF Queue

LEMMA SendComes ==
  ASSUME Types, NEW c \in Clients, NEW t \in {"CONNECT", "MESSAGE", "DESTROYED"}, NEW major \in Majors,
         NEW arg \in Args, Send(c, t, major, arg), UNCHANGED <<eventQ, held>>
  PROVE  \E x : /\ EventIs(x, t, c, major, client[c].imid, arg)
                /\ events' \in Seq(EventType) /\ Longer(Queue', Queue, x, Len(Queue))
<1>1. PICK x : x = Event(t, c, major, arg)
  OBVIOUS
<1>2. c # "self"
  BY XimAssumption
<1>3. EventIs(x, t, c, major, client[c].imid, arg)
  <2>1. client[c].imid \in Nat
    BY DEF Types, ClientType
  <2> QED  BY <1>1, <1>2, <2>1 DEF Event, EventIs, EventType
<1>4. x \in EventType /\ events' = Append(events, x)
  BY <1>1, <1>3 DEF Send, EventIs
<1>5. events' \in Seq(EventType) /\ Longer(Queue', Queue, x, Len(Queue))
  BY <1>4, Comes
<1> QED  BY <1>3, <1>5

LEMMA RestartComes ==
  ASSUME Types, WimeRestart
  PROVE  \E x : /\ EventIs(x, "RESTART", "self", "", 0, "")
                /\ events' \in Seq(EventType) /\ Longer(Queue', Queue, x, Len(Queue))
<1>1. PICK x : x = Restarted
  OBVIOUS
<1>2. EventIs(x, "RESTART", "self", "", 0, "")
  BY <1>1 DEF Restarted, Event, EventIs, EventType, Majors, Args
<1>3. x \in EventType /\ events' = Append(events, x) /\ UNCHANGED <<eventQ, held>>
  BY <1>1, <1>2 DEF WimeRestart, EventIs, Apart
<1>5. events' \in Seq(EventType) /\ Longer(Queue', Queue, x, Len(Queue))
  BY <1>3, Comes
<1> QED  BY <1>2, <1>5

\* What a client may ask.
LEMMA StepsAre ==
  ASSUME NEW c, NEW q \in Steps(c)
  PROVE  q[1] \in Majors \ {"", "START_REPLY", "ERROR"} /\ q[2] \in Args
<1> DEFINE Fine == q[1] \in Majors \ {"", "START_REPLY", "ERROR"} /\ q[2] \in Args
<1>0. ASSUME NEW m, NEW x, q = <<m, x>>, m \in Majors \ {"", "START_REPLY", "ERROR"}, x \in Args
      PROVE  Fine
  BY <1>0
<1> SUFFICES Fine
  OBVIOUS
<1> HIDE DEF Fine
<1>1. CASE client[c].phase = "met"
  <2>1. q = <<"CONNECT", "">>
    BY <1>1 DEF Steps
  <2> QED  BY <1>0, <2>1 DEF Majors, Args
<1>2. CASE client[c].phase = "connected"
  <2>1. q = <<"OPEN", "">>
    BY <1>2 DEF Steps
  <2> QED  BY <1>0, <2>1 DEF Majors, Args
<1>3. CASE client[c].phase = "open" /\ ~client[c].ic
  <2>1. \/ q = <<"ENCODING", "ctext">> \/ q = <<"ENCODING", "other">> \/ q = <<"QUERY_EXT", "">>
        \/ q = <<"GET_IM", "">> \/ q = <<"CLOSE", "">> \/ \E st \in Styles : q = <<"CREATE_IC", st>>
    BY <1>3 DEF Steps
  <2>2. ASSUME NEW st \in Styles, q = <<"CREATE_IC", st>>  PROVE Fine
    BY <1>0, <2>2 DEF Majors, Args
  <2>3. q = <<"ENCODING", "ctext">> => Fine
    BY <1>0 DEF Majors, Args
  <2>4. q = <<"ENCODING", "other">> => Fine
    BY <1>0 DEF Majors, Args
  <2>5. q = <<"QUERY_EXT", "">> => Fine
    BY <1>0 DEF Majors, Args
  <2>6. q = <<"GET_IM", "">> => Fine
    BY <1>0 DEF Majors, Args
  <2>7. q = <<"CLOSE", "">> => Fine
    BY <1>0 DEF Majors, Args
  <2> QED  BY <2>1, <2>2, <2>3, <2>4, <2>5, <2>6, <2>7
<1>4. CASE client[c].phase = "open" /\ client[c].ic
  <2>1. PICK m \in OfIc : q = <<m, "">>
    BY <1>4 DEF Steps, OfIc
  <2>2. m \in Majors \ {"", "START_REPLY", "ERROR"} /\ "" \in Args
    BY DEF Majors, OfIc, Args
  <2> QED  BY <1>0, <2>1, <2>2
<1>5. CASE client[c].phase = "closed"
  <2>1. q = <<"DISCONNECT", "">>
    BY <1>5 DEF Steps
  <2> QED  BY <1>0, <2>1 DEF Majors, Args
<1>6. Steps(c) # {}
  OBVIOUS
<1> QED  BY <1>1, <1>2, <1>3, <1>4, <1>5, <1>6 DEF Steps

\* Every step keeps the types.
LEMMA TypesKept ==
  ASSUME Types, SoundQueue, [XNext]_xVars
  PROVE  Types'
<1>0. QueueTypes /\ DataTypes
  BY TypesSplit
<1> SUFFICES QueueTypes' /\ DataTypes'
  BY TypesByPartsNext
<1>1. CASE UNCHANGED xVars
  <2>1. UNCHANGED <<slots, eventQ, scan, held, cxns, events, errors, client, early>>
    BY <1>1 DEF xVars
  <2> QED  BY <1>0, <2>1 DEF QueueTypes, DataTypes
<1>2. CASE TakeConnect
  <2>1. PICK c \in Clients :
            /\ \E s \in Nat : NewSlot(c, s)
            /\ ClientBecomes(c, "met", client[c].awaits, client[c].imid, client[c].ic)
            /\ ErrorsOf(c) /\ UNCHANGED <<cxns, early, eventQ, scan, held>>
            /\ scan = 0 /\ events # <<>> /\ events' = Tail(events)
    BY <1>2, ConnectTurns
  <2>2. slots' \in Seq(SlotType)
    BY <2>1 DEF NewSlot
  <2>3. client' \in [Clients -> ClientType]
    BY <2>1, ClientTurns
  <2>4. errors' \subseteq Clients \cup {"other"}
    BY <2>1, ErrorTurns
  <2>5. DataTypes'
    BY <1>0, <2>1, <2>2, <2>3, <2>4 DEF DataTypes
  <2>6. events' \in Seq(EventType)
    BY <2>1, HeadPlace
  <2> QED  BY <1>0, <2>1, <2>5, <2>6 DEF QueueTypes
<1>3. CASE TakeMessage
  <2>1. /\ scan = 0 /\ events # <<>> /\ Head(events).t = "MESSAGE"
        /\ scan' = 1 /\ UNCHANGED <<eventQ, spent>>
    BY <1>3 DEF TakeMessage, Taking
  <2>2. PICK m \in EventType : m = Head(events)
    BY <2>1, HeadPlace
  <2>3. Sound(m) /\ Tail(events) \in Seq(EventType)
    BY <2>1, <2>2, HeadPlace DEF SoundQueue
  <2>4. CASE Waits(m)
    <3>1. held' = <<m>> /\ events' = Tail(events) /\ UNCHANGED <<slots, errors, cxns, client, early>>
      BY <1>3, <2>2, <2>4 DEF TakeMessage
    <3>2. m \in Asked
      BY <2>1, <2>2, <2>3, <2>4, WaitsAsked
    <3>3. held' \in Seq(Asked) /\ Len(held') <= 1
      BY <3>1, <3>2
    <3> QED  BY <1>0, <2>1, <2>3, <3>1, <3>3 DEF QueueTypes, DataTypes
  <2>5. CASE ~Waits(m)
    <3>1. held' = <<>> /\ Process(m, Tail(events))
      BY <1>3, <2>2, <2>5 DEF TakeMessage
    <3>2. DataTypes' /\ events' \in Seq(EventType)
      BY <2>3, <3>1, ProcessTypes
    <3>3. held' \in Seq(Asked) /\ Len(held') <= 1
      BY <3>1, EmptySeq
    <3> QED  BY <1>0, <2>1, <3>2, <3>3 DEF QueueTypes
  <2> QED  BY <2>4, <2>5
<1>4. CASE ScanOne
  <2>1. PICK m \in Asked : m = eventQ[scan] /\ scan \in DOMAIN eventQ
    BY <1>4, AsidePlace DEF ScanOne
  <2>2. held' = held /\ scan' = ScanFrom(scan, Waits(m))
    BY <1>4, <2>1 DEF ScanOne
  <2>3. scan \in Nat /\ scan > 0
    BY <2>1 DEF Types
  <2>4. scan' \in Nat /\ scan' # 0
    BY <2>2, <2>3 DEF ScanFrom
  <2>5. CASE Waits(m)
    <3>1. UNCHANGED <<slots, errors, cxns, client, early, events, eventQ>>
      BY <1>4, <2>1, <2>5 DEF ScanOne
    <3> QED  BY <1>0, <2>2, <2>4, <3>1 DEF QueueTypes, DataTypes
  <2>6. CASE ~Waits(m)
    <3>1. eventQ' = RemoveAt(eventQ, scan) /\ Process(m, events)
      BY <1>4, <2>1, <2>6 DEF ScanOne
    <3>2. m \in EventType /\ events \in Seq(EventType)
      BY <2>1 DEF Asked, Types
    <3>3. DataTypes' /\ events' \in Seq(EventType)
      BY <3>1, <3>2, ProcessTypes
    <3>4. eventQ' \in Seq(Asked)
      BY <2>1, <3>1, AsidePlace
    <3> QED  BY <1>0, <2>2, <2>4, <3>3, <3>4 DEF QueueTypes
  <2> QED  BY <2>5, <2>6
<1>5. CASE ScanEnd
  <2>1. /\ eventQ' = eventQ \o held /\ held' = <<>> /\ scan' = 0
        /\ UNCHANGED <<slots, cxns, events, errors, client, early>>
    BY <1>5 DEF ScanEnd
  <2>2. eventQ' \in Seq(Asked)
    BY <1>0, <2>1, ConcatProperties DEF QueueTypes
  <2>3. held' \in Seq(Asked) /\ Len(held') <= 1
    BY <2>1, EmptySeq
  <2> QED  BY <1>0, <2>1, <2>2, <2>3 DEF QueueTypes, DataTypes
<1>6. CASE TakeDestroyed
  <2>1. PICK c \in Clients :
            /\ \/ UNCHANGED <<slots, errors, cxns, client, early>>
               \/ \E s \in Valid : Sender(s) = c /\ DisconnectClient(s, <<>>, {})
            /\ UNCHANGED <<eventQ, scan, held>>
            /\ scan = 0 /\ events # <<>> /\ events' = Tail(events)
    BY <1>6, DestroyedTurns
  <2>2. events' \in Seq(EventType)
    BY <2>1, HeadPlace
  <2>3. DataTypes'
    BY <1>0, <2>1, LeaveTypes DEF DataTypes, Valid
  <2> QED  BY <1>0, <2>1, <2>2, <2>3 DEF QueueTypes
<1>7. CASE TakeRestart
  <2>1. slots' \in Seq(SlotType) /\ CxnTypes'
    BY <1>7, RestartTurns
  <2>2. /\ events # <<>> /\ scan = 0 /\ events' = Tail(events)
        /\ UNCHANGED <<errors, client, early, eventQ, scan, held>>
    BY <1>7 DEF TakeRestart, Taking, TakenOnly
  <2>3. events' \in Seq(EventType)
    BY <2>2, HeadPlace
  <2> QED  BY <1>0, <2>1, <2>2, <2>3 DEF QueueTypes, DataTypes, CxnTypes
<1>8. CASE \E e \in errors : XError(e)
  <2>1. PICK e \in errors : XError(e)
    BY <1>8
  <2>2. /\ errors' = errors \ {e} /\ UNCHANGED <<eventQ, scan, held, cxns, events, client, early>>
        /\ \E s : slots' = IF s > 1 THEN [slots EXCEPT ![s].valid = FALSE] ELSE slots
    BY <2>1 DEF XError
  <2>3. slots' \in Seq(SlotType)
    <3>1. PICK s : slots' = IF s > 1 THEN [slots EXCEPT ![s].valid = FALSE] ELSE slots
      BY <2>2
    <3>2. \A q \in SlotType : [q EXCEPT !.valid = FALSE] \in SlotType
      BY DEF SlotType
    <3>3. PICK n \in Nat : slots \in [1 .. n -> SlotType]
      BY <1>0 DEF DataTypes
    <3>4. slots' \in [1 .. n -> SlotType]
      BY <3>1, <3>2, <3>3
    <3> QED  BY <3>4
  <2> QED  BY <1>0, <2>2, <2>3 DEF QueueTypes, DataTypes
<1>9. ASSUME NEW c \in Clients, Preconnect(c) \/ Request(c) \/ ReplyStart(c) \/ Die(c)
      PROVE  QueueTypes' /\ DataTypes'
  <2>0. UNCHANGED <<slots, eventQ, scan, held, cxns, errors, early>>
    BY <1>9 DEF Preconnect, Request, ReplyStart, Die, Apart
  <2>1. CASE Preconnect(c)
    <3>1. client' \in [Clients -> ClientType]
      BY <1>0, <2>1, ZenonT(60) DEF Preconnect, DataTypes, ClientType, Phases
    <3>2. Send(c, "CONNECT", "", "") /\ "" \in Majors /\ "" \in Args
      BY <2>1 DEF Preconnect, Majors, Args
    <3>3. events' \in Seq(EventType)
      BY <2>0, <3>2, SendComes
    <3> QED  BY <1>0, <2>0, <3>1, <3>3 DEF QueueTypes, DataTypes
  <2>2. CASE Request(c)
    <3>1. PICK q \in Steps(c) :
             /\ client' = IF q[1] \in Unanswered THEN client ELSE [client EXCEPT ![c].awaits = q[1]]
             /\ Send(c, "MESSAGE", q[1], q[2])
      BY <2>2 DEF Request
    <3>2. q[1] \in Majors /\ q[2] \in Args
      BY StepsAre
    <3>3. client' \in [Clients -> ClientType]
      BY <1>0, <3>1, <3>2 DEF DataTypes, ClientType
    <3>4. events' \in Seq(EventType)
      BY <2>0, <3>1, <3>2, SendComes
    <3> QED  BY <1>0, <2>0, <3>3, <3>4 DEF QueueTypes, DataTypes
  <2>3. CASE ReplyStart(c)
    <3>1. client' \in [Clients -> ClientType]
      <4>1. client[c].owes \in Nat /\ client[c].owes > 0
        BY <1>0, <2>3 DEF ReplyStart, DataTypes, ClientType
      <4>2. PICK w \in Nat : w = client[c].owes - 1
        BY <4>1
      <4>3. client' = [client EXCEPT ![c].owes = w]
        BY <2>3, <4>2 DEF ReplyStart
      <4> QED  BY <1>0, <4>3 DEF DataTypes, ClientType
    <3>2. Send(c, "MESSAGE", "START_REPLY", "") /\ "START_REPLY" \in Majors /\ "" \in Args
      BY <2>3 DEF ReplyStart, Majors, Args
    <3>3. events' \in Seq(EventType)
      BY <2>0, <3>2, SendComes
    <3> QED  BY <1>0, <2>0, <3>1, <3>3 DEF QueueTypes, DataTypes
  <2>4. CASE Die(c)
    <3>1. client' \in [Clients -> ClientType]
      <4>1. client[c].imid \in Nat
        BY <1>0 DEF DataTypes, ClientType
      <4>2. [NoClient EXCEPT !.phase = "gone", !.imid = client[c].imid] \in ClientType
        BY <4>1 DEF NoClient, ClientType, Phases, Majors, Args, Windows
      <4> QED  BY <1>0, <2>4, <4>2 DEF Die, DataTypes
    <3>2. events' = events \/ Send(c, "DESTROYED", "", "")
      BY <2>4 DEF Die
    <3>3. events' \in Seq(EventType)
      <4>1. "" \in Majors /\ "" \in Args
        BY DEF Majors, Args
      <4> QED  BY <1>0, <2>0, <3>2, <4>1, SendComes DEF QueueTypes
    <3> QED  BY <1>0, <2>0, <3>1, <3>3 DEF QueueTypes, DataTypes
  <2> QED  BY <1>9, <2>1, <2>2, <2>3, <2>4
<1>10. CASE WimeRestart
  <2>1. events' \in Seq(EventType)
    BY <1>10, RestartComes
  <2>2. cxns' = <<>> /\ UNCHANGED <<slots, eventQ, scan, held, errors, client, early>>
    BY <1>10 DEF WimeRestart, Apart
  <2>3. DOMAIN cxns' = {} /\ IsFiniteSet(DOMAIN cxns')
    BY <2>2, FS_EmptySet
  <2> QED  BY <1>0, <2>1, <2>2, <2>3 DEF QueueTypes, DataTypes
<1> QED
  BY <1>1, <1>2, <1>3, <1>4, <1>5, <1>6, <1>7, <1>8, <1>9, <1>10 DEF XNext, Server
---------------------------------------------------------------------------
(* Messages are put aside, or looked at and left.                          *)

\* The server finds the WxContext that a client's request fits.
LEMMA OwnFound ==
  ASSUME Types, OneSlot, NEW s \in Valid, NEW m, Asks(m, Sender(s)), Fits(m, s)
  PROVE  Found(m) = s
<1>1. CASE m.major \in ByProxy
  <2>1. Found(m) # 0 /\ Found(m) \in Valid /\ Sender(Found(m)) = Sender(s)
    BY <1>1, FoundFacts DEF Asks
  <2> QED  BY <2>1 DEF OneSlot, Valid, Sender
<1>2. CASE m.major \notin ByProxy
  <2>1. m.imid = s
    BY <1>2 DEF Fits
  <2> QED  BY <1>2, <2>1, FoundFacts
<1> QED  BY <1>1, <1>2

LEMMA BorderMoves ==
  ASSUME Types, Types', QInv, Queue' = Queue, UNCHANGED <<slots, client, errors>>,
         \A s \in Valid, i \in DOMAIN Queue :
            Asks(Queue[i], Sender(s)) /\ Reviewed(i)' => Reviewed(i) \/ slots[s].sync # "",
         \A s \in Valid, i \in DOMAIN Queue :
            slots[s].sync = "" /\ Asks(Queue[i], Sender(s)) /\ i > Len(eventQ) + Len(held)
               => i > Len(eventQ') + Len(held'),
         \A s \in Valid, i \in DOMAIN Queue :
            /\ slots[s].sync = "" /\ Stray(Queue[i], s)
            /\ scan > 0 /\ scan <= i /\ i <= Len(eventQ)
            => scan' > 0 /\ scan' <= i /\ i <= Len(eventQ')
  PROVE  QInv'
<1>0. /\ SoundQueue /\ OneSlot
      /\ \A c \in Clients : Introduced(c) /\ Departed(c) /\ Placed(c) /\ InTurn(c)
      /\ \A s \in Valid : Fitting(s)
      /\ \A s \in DOMAIN slots : Cleared(s)
  BY DEF QInv
<1>1. SoundQueue' /\ OneSlot' /\ Valid' = Valid
  BY <1>0 DEF SoundQueue, Sound, OneSlot, Valid
<1>2. ASSUME NEW c \in Clients
      PROVE  Introduced(c)' /\ Departed(c)' /\ Placed(c)' /\ InTurn(c)'
  <2>0. Introduced(c) /\ Departed(c) /\ Placed(c) /\ InTurn(c)
    BY <1>0
  <2>1. Introduced(c)'
    BY <2>0 DEF Introduced, Unmet, Calling, NoneAsked, Dials, Asks
  <2>2. Departed(c)'
    <3>1. errors' = errors /\ Gone(c)' = Gone(c)
      BY DEF Gone
    <3>2. c \in errors' => Gone(c)'
      BY <2>0, <3>1 DEF Departed
    <3>3. ASSUME NEW j \in DOMAIN Queue', Leaves(Queue'[j], c)
          PROVE  Gone(c)' /\ \A i \in DOMAIN Queue' : i > j => ~Asks(Queue'[i], c)
      BY <2>0, <3>1, <3>3 DEF Departed
    <3> QED  BY <3>2, <3>3 DEF Departed, Leaves, Asks
  <2>3. Placed(c)'
    BY <2>0 DEF Placed, Valid, Sender, Present
  <2>4. InTurn(c)'
    BY <2>0 DEF InTurn, Asks, Gone, Unanswered, Steps
  <2> QED  BY <2>1, <2>2, <2>3, <2>4
<1>3. ASSUME NEW s \in Valid  PROVE Fitting(s)'
  <2>1. Fitting(s)
    BY <1>0
  <2>2. Knows(Sender(s), s)' <=> Knows(Sender(s), s)
    BY DEF Knows, Sender, Ic
  <2>3. ASSUME NEW i \in DOMAIN Queue, Asks(Queue[i], Sender(s))
        PROVE  /\ Fits(Queue[i], s)'
               /\ Reviewed(i)' => slots[s].sync # ""
    <3>1. Fits(Queue[i], s)' <=> Fits(Queue[i], s)
      BY DEF Fits, Ic
    <3> QED  BY <2>1, <2>3, <3>1 DEF Fitting
  <2>4. \A i \in DOMAIN Queue' : Asks(Queue'[i], Sender(s)') =>
            /\ Fits(Queue[i], s)'
            /\ Reviewed(i)' => slots'[s].sync # ""
            /\ Sender(s)' \in errors' => Queue'[i].major \in OfIc
    BY <2>1, <2>3 DEF Fitting, Asks, Sender
  <2> QED  BY <2>1, <2>2, <2>4 DEF Fitting, Gone, Sender, Ic, Asks
<1>4. ASSUME NEW s \in DOMAIN slots  PROVE Cleared(s)'
  <2>1. Cleared(s)
    BY <1>0
  <2>2. ASSUME NEW p \in DOMAIN Queue, Stray(Queue[p], s)', slots[s].valid  PROVE Rests(s, p)'
    <3>1. Stray(Queue[p], s)
      BY <2>2 DEF Stray, Sender
    <3>2. Rests(s, p) /\ s \in Valid
      BY <2>1, <2>2, <3>1 DEF Cleared, Valid
    <3>3. slots[s].sync = ""
      BY <3>2 DEF Rests
    <3>4. \A j \in DOMAIN Queue : Asks(Queue[j], Sender(s)) => j > Len(eventQ') + Len(held')
      BY <3>2, <3>3 DEF Rests
    <3>5. Connected(s)' <=> Connected(s)
      BY DEF Connected, Gone, Sender, Asks
    <3>6. Connected(s)' => scan' > 0 /\ scan' <= p /\ p <= Len(eventQ')
      BY <3>1, <3>2, <3>3, <3>5 DEF Rests
    <3> QED  BY <3>2, <3>4, <3>6 DEF Rests, Gone, Sender, Ic, Asks
  <2> QED  BY <2>1, <2>2 DEF Cleared, Stray, Sender, OfIc
<1> QED  BY <1>1, <1>2, <1>3, <1>4 DEF QInv, Valid

\* What is put aside stays where it was in the queue.
LEMMA AsideStays ==
  ASSUME Types, TakeMessage, Waits(Head(events))
  PROVE  Queue' = Queue
<1>1. /\ scan = 0 /\ events # <<>> /\ eventQ' = eventQ /\ held' = <<Head(events)>> /\ events' = Tail(events)
  BY DEF TakeMessage, Taking
<1>2. held = <<>> /\ eventQ \in Seq(EventType) /\ events \in Seq(EventType)
  BY <1>1, SeqMonotonic DEF Types, Asked
<1>3. eventQ \o <<Head(events)>> \o Tail(events) = eventQ \o <<>> \o events
  BY <1>1, <1>2, HeadAside
<1> QED  BY <1>1, <1>2, <1>3 DEF Queue

LEMMA EndStays ==
  ASSUME Types, ScanEnd
  PROVE  Queue' = Queue
<1>1. eventQ' = eventQ \o held /\ held' = <<>> /\ events' = events
  BY DEF ScanEnd
<1>2. eventQ \o held \in Seq(EventType) /\ events \in Seq(EventType)
  <2>1. eventQ \in Seq(EventType) /\ held \in Seq(EventType)
    BY SeqMonotonic DEF Types, Asked
  <2> QED  BY <2>1, ConcatProperties DEF Types
<1>3. (eventQ \o held) \o <<>> = eventQ \o held
  BY <1>2, ConcatEmptySeq
<1> QED  BY <1>1, <1>3 DEF Queue

\* What is put aside, or left where it was put aside, is for one that waits.
LEMMA PutAside ==
  ASSUME Types, Types', QInv, TakeMessage, Waits(Head(events))
  PROVE  QInv'
<1>1. /\ scan = 0 /\ events # <<>> /\ scan' = 1 /\ eventQ' = eventQ
      /\ held' = <<Head(events)>> /\ events' = Tail(events) /\ UNCHANGED <<slots, errors, client>>
  BY DEF TakeMessage, Taking
<1>2. PICK e \in Nat : e = Len(eventQ)
  BY DEF Types
<1>3. held = <<>> /\ e + 1 \in DOMAIN Queue /\ Queue[e + 1] = Head(events)
  BY <1>1, <1>2, HeadPlace
<1>4. Queue' = Queue
  BY AsideStays
<1>5. Len(held) = 0 /\ Len(held') = 1
  BY <1>1, <1>3
<1>6. ASSUME NEW s \in Valid, Asks(Head(events), Sender(s))  PROVE slots[s].sync # ""
  <2>1. Fits(Head(events), s)
    BY <1>3, <1>6 DEF QInv, Fitting
  <2>2. Found(Head(events)) = s
    BY <1>6, <2>1, OwnFound DEF QInv
  <2> QED  BY <2>2 DEF Waits
<1>7. \A i \in DOMAIN Queue : i \in Nat /\ i > 0
  BY QueueFacts DEF QueueForm
<1>8. ASSUME NEW s \in Valid, NEW i \in DOMAIN Queue, Asks(Queue[i], Sender(s)), Reviewed(i)'
      PROVE  slots[s].sync # "" \/ Reviewed(i)
  <2>1. i <= e + 1 /\ (i < 1 \/ i > e) /\ i \in Nat
    BY <1>1, <1>2, <1>5, <1>7, <1>8 DEF Reviewed
  <2>2. i = e + 1
    BY <1>7, <2>1
  <2> QED  BY <1>3, <1>6, <1>8, <2>2
<1>9. ASSUME NEW s \in Valid, NEW i \in DOMAIN Queue, slots[s].sync = "", Asks(Queue[i], Sender(s)),
             i > Len(eventQ) + Len(held)
      PROVE  i > Len(eventQ') + Len(held')
  <2>1. i # e + 1
    BY <1>3, <1>6, <1>9
  <2>2. Len(eventQ) + Len(held) = e /\ Len(eventQ') + Len(held') = e + 1
    BY <1>1, <1>2, <1>5
  <2>3. i \in Nat /\ i > e
    BY <1>7, <1>9, <2>2
  <2> QED  BY <2>1, <2>2, <2>3
<1>10. ~(scan > 0)
  BY <1>1
<1> QED  BY <1>1, <1>4, <1>8, <1>9, <1>10, BorderMoves

LEMMA LeftAside ==
  ASSUME Types, Types', QInv, ScanOne, Waits(eventQ[scan])
  PROVE  QInv'
<1>1. /\ scan \in DOMAIN eventQ /\ scan' = scan + 1
      /\ UNCHANGED <<slots, errors, client, events, eventQ, held>>
  BY DEF ScanOne, ScanFrom
<1>2. PICK n \in Nat, e \in Nat, h \in Nat : n = scan /\ e = Len(eventQ) /\ h = Len(held) /\ n > 0
  BY <1>1 DEF Types
<1>3. n \in DOMAIN Queue /\ Queue[n] = eventQ[n]
  BY <1>1, <1>2, AsidePlace
<1>4. Queue' = Queue
  BY <1>1 DEF Queue
<1>6. ASSUME NEW s \in Valid, Asks(Queue[n], Sender(s))  PROVE slots[s].sync # ""
  <2>1. Fits(Queue[n], s)
    BY <1>3, <1>6 DEF QInv, Fitting
  <2>2. Found(Queue[n]) = s
    BY <1>6, <2>1, OwnFound DEF QInv
  <2> QED  BY <1>2, <1>3, <2>2 DEF Waits
<1>7. \A i \in DOMAIN Queue : i \in Nat
  BY QueueFacts DEF QueueForm
<1>8. ASSUME NEW s \in Valid, NEW i \in DOMAIN Queue, Asks(Queue[i], Sender(s)), Reviewed(i)'
      PROVE  slots[s].sync # "" \/ Reviewed(i)
  <2>1. i <= e + h /\ (i < n + 1 \/ i > e) /\ i \in Nat
    BY <1>1, <1>2, <1>7, <1>8 DEF Reviewed
  <2>2. i = n \/ (i < n \/ i > e)
    BY <2>1
  <2>3. CASE i = n
    BY <1>6, <1>8, <2>3
  <2>4. CASE i < n \/ i > e
    BY <1>2, <2>1, <2>4 DEF Reviewed
  <2> QED  BY <2>2, <2>3, <2>4
<1>9. ASSUME NEW s \in Valid, NEW i \in DOMAIN Queue, slots[s].sync = "", Stray(Queue[i], s),
             scan > 0, scan <= i, i <= Len(eventQ)
      PROVE  scan' > 0 /\ scan' <= i /\ i <= Len(eventQ')
  <2>1. i # n
    <3>1. ASSUME i = n  PROVE Found(Queue[n]) = s
      <4>1. Queue[n].imid = s /\ Queue[n].major \notin ByProxy
        BY <1>9, <3>1 DEF Stray
      <4> QED  BY <4>1, FoundFacts
    <3> QED  BY <1>2, <1>3, <1>9, <3>1 DEF Waits
  <2>2. i \in Nat /\ n <= i /\ i <= e /\ scan' = n + 1 /\ Len(eventQ') = e
    BY <1>1, <1>2, <1>7, <1>9
  <2> QED  BY <2>1, <2>2
<1> QED  BY <1>1, <1>4, <1>8, <1>9, BorderMoves

LEMMA ScanEnds ==
  ASSUME Types, Types', QInv, ScanEnd
  PROVE  QInv'
<1>1. /\ scan > Len(eventQ) /\ eventQ' = eventQ \o held /\ held' = <<>> /\ scan' = 0
      /\ UNCHANGED <<slots, events, errors, client>>
  BY DEF ScanEnd
<1>2. PICK n \in Nat, e \in Nat, h \in Nat : n = scan /\ e = Len(eventQ) /\ h = Len(held) /\ n > e
  <2>1. scan \in Nat /\ Len(eventQ) \in Nat /\ Len(held) \in Nat
    BY DEF Types
  <2> QED  BY <1>1, <2>1
<1>3. Len(eventQ') = e + h /\ Len(held') = 0
  <2>1. eventQ \in Seq(Asked) /\ held \in Seq(Asked)
    BY DEF Types
  <2> QED  BY <1>1, <1>2, <2>1, Joined
<1>4. Queue' = Queue
  BY EndStays
<1>5. \A i \in DOMAIN Queue : i \in Nat
  BY QueueFacts DEF QueueForm
<1>6. ASSUME NEW i \in DOMAIN Queue, Reviewed(i)'  PROVE Reviewed(i)
  <2>1. i <= e + h
    BY <1>3, <1>5, <1>6 DEF Reviewed
  <2>2. i < n \/ i > e
    BY <1>2, <1>5
  <2> QED  BY <1>2, <2>1, <2>2 DEF Reviewed
<1>7. ASSUME NEW i \in DOMAIN Queue, scan <= i, i <= Len(eventQ)  PROVE FALSE
  BY <1>2, <1>5, <1>7
<1>8. Len(eventQ') + Len(held') = Len(eventQ) + Len(held)
  BY <1>2, <1>3
<1> QED  BY <1>1, <1>4, <1>6, <1>7, <1>8, BorderMoves
---------------------------------------------------------------------------
(* A message is read and processed.                                        *)

\* One of the queue, at p, which need not wait: the next that X brings, or one
\* that was put aside.
Taken(p) == \/ scan = 0 /\ p = Len(eventQ) + 1 /\ eventQ' = eventQ /\ held' = <<>>
            \/ /\ scan = p /\ p <= Len(eventQ) /\ Len(eventQ') = Len(eventQ) - 1 /\ held' = held
Reads(p, m) ==
    /\ p \in DOMAIN Queue /\ Queue[p] = m /\ m \in EventType /\ m.t = "MESSAGE" /\ ~Waits(m)
    /\ Drops(Queue, p, Queue') /\ Taken(p) /\ scan' = 1
    /\ m.major = "START_REPLY" => scan = 0
    /\ \E rest : Process(m, rest)

LEMMA TakenReads ==
  ASSUME Types, TakeMessage, ~Waits(Head(events))
  PROVE  \E p \in Nat : Reads(p, Head(events))
<1>1. /\ scan = 0 /\ events # <<>> /\ Head(events).t = "MESSAGE" /\ scan' = 1 /\ eventQ' = eventQ
      /\ held' = <<>> /\ Process(Head(events), Tail(events))
  BY DEF TakeMessage, Taking
<1>2. PICK p \in Nat : p = Len(eventQ) + 1
  BY DEF Types
<1>3. p \in DOMAIN Queue /\ Queue[p] = Head(events) /\ Head(events) \in EventType
  BY <1>1, <1>2, HeadPlace
<1>4. events' = Tail(events) \/ events' = WithError(Tail(events))
  BY <1>1 DEF Process
<1>5. Drops(Queue, p, Queue')
  BY <1>1, <1>2, <1>4, Dropped
<1> QED  BY <1>1, <1>2, <1>3, <1>5 DEF Reads, Taken

LEMMA ScannedReads ==
  ASSUME Types, ScanOne, ~Waits(eventQ[scan])
  PROVE  \E p \in Nat : Reads(p, eventQ[scan])
<1>1. /\ scan \in DOMAIN eventQ /\ scan' = 1 /\ held' = held
      /\ eventQ' = RemoveAt(eventQ, scan) /\ Process(eventQ[scan], events)
  BY DEF ScanOne, ScanFrom
<1>2. PICK p \in Nat : p = scan /\ p <= Len(eventQ)
  BY <1>1 DEF Types
<1>3. /\ p \in DOMAIN Queue /\ Queue[p] = eventQ[p] /\ eventQ[p] \in Asked
      /\ Len(eventQ') = Len(eventQ) - 1
  BY <1>1, <1>2, AsidePlace
<1>4. events' = events \/ events' = WithError(events)
  BY <1>1 DEF Process
<1>5. Drops(Queue, p, Queue')
  <2>1. /\ scan \in DOMAIN eventQ /\ p = scan /\ events = events
        /\ eventQ' = RemoveAt(eventQ, p) /\ held' = held
    BY <1>1, <1>2
  <2> QED  BY <1>4, <2>1, Dropped
<1> QED  BY <1>1, <1>2, <1>3, <1>5 DEF Reads, Taken, Asked

\* The queue goes on, with nothing new but the server's error.
LEMMA DropsQuiet ==
  ASSUME Types, Types', NEW p \in Nat, Drops(Queue, p, Queue'), Taken(p), scan' \in {0, 1},
         scan > 0 => scan' = 1
  PROVE  /\ Carried(WasAt(p)) /\ Quiet(WasAt(p))
         /\ \A i \in DOMAIN Queue' : WasAt(p)[i] # p
         /\ \A i \in DOMAIN Queue' : WasAt(p)[i] # 0 => WasAt(p)[i] = Came(i, p)
         /\ scan' = 1 /\ held' = <<>> => \A i \in DOMAIN Queue' : ~Reviewed(i)'
<1>1. scan \in Nat /\ (scan = p /\ p <= Len(eventQ) => scan' = 1)
  <2>1. p > 0
    BY DEF Drops
  <2> QED  BY <2>1 DEF Types
<1>2. /\ Carried(WasAt(p))
      /\ \A i \in DOMAIN Queue' : WasAt(p)[i] # p
      /\ \A i \in DOMAIN Queue' : WasAt(p)[i] = 0 => Queue'[i] = ErrorMessage
      /\ \A i \in DOMAIN Queue' : WasAt(p)[i] # 0 => WasAt(p)[i] = Came(i, p)
      /\ scan' = 1 /\ held' = <<>> => \A i \in DOMAIN Queue' : ~Reviewed(i)'
  BY <1>1, DropsCarried DEF Taken
<1>3. ASSUME NEW i \in DOMAIN Queue', WasAt(p)[i] = 0
      PROVE  /\ \A c \in Clients : Aloof(Queue'[i], c) /\ ~Leaves(Queue'[i], c)
             /\ Sound(Queue[i])'
             /\ Queue'[i].major \in ByProxy
  <2>1. Queue'[i] = ErrorMessage
    BY <1>2, <1>3
  <2>2. /\ ErrorMessage.t = "MESSAGE" /\ ErrorMessage.from = "self"
        /\ ErrorMessage.major = "ERROR" /\ ErrorMessage.imid = 0
    BY DEF ErrorMessage
  <2>3. Len(slots') >= 0
    BY DEF Types
  <2> QED  BY <2>1, <2>2, <2>3, XimAssumption DEF Aloof, Asks, Dials, Leaves, Sound, ByProxy
<1>4. Quiet(WasAt(p))
  BY <1>3 DEF Quiet
<1> QED  BY <1>2, <1>4

\* Of what is processed: who it is from.
LEMMA HandledIsOwn ==
  ASSUME Types, QInv, NEW p, NEW m, Reads(p, m), NEW s \in Valid, s = Found(m), Handle(m, s),
         m.major \in OfIc => Ic(s).used, m.major # "START_REPLY"
  PROVE  Asks(m, Sender(s)) /\ Fits(m, s) /\ m.major \notin {"", "ERROR"}
<1>1. m.major \notin {"", "ERROR"}
  BY DEF Handle
<1>2. p \in DOMAIN Queue /\ Queue[p] = m /\ m \in EventType /\ m.t = "MESSAGE"
  BY DEF Reads
<1>3. m.from = Sender(s)
  <2>1. CASE m.major \in ByProxy
    <3>1. s # 0
      BY SenderFacts DEF Valid
    <3> QED  BY <2>1, <3>1, FoundFacts
  <2>2. CASE m.major \notin ByProxy
    <3>1. m.imid = s
      <4>1. s # 0
        BY SenderFacts DEF Valid
      <4> QED  BY <2>2, <4>1, FoundFacts
    <3>2. ASSUME m.from # Sender(s)  PROVE FALSE
      <4>1. Stray(m, s)
        BY <1>2, <2>2, <3>1, <3>2 DEF Stray
      <4>2. m.major \in OfIc /\ Rests(s, p)
        BY <1>2, <4>1 DEF QInv, Cleared, Valid
      <4> QED  BY <4>2 DEF Rests
    <3> QED  BY <3>2
  <2> QED  BY <2>1, <2>2
<1>4. Asks(m, Sender(s))
  BY <1>2, <1>3 DEF Asks
<1>5. Fits(m, s)
  BY <1>2, <1>4 DEF QInv, Fitting
<1> QED  BY <1>1, <1>4, <1>5

LEMMA BeforeTaken ==
  ASSUME Types, NEW p \in Nat, Taken(p), NEW i \in DOMAIN Queue, i < p
  PROVE  Reviewed(i)
<1>1. PICK e \in Nat, h \in Nat : e = Len(eventQ) /\ h = Len(held)
  BY DEF Types
<1>2. i \in Nat
  BY QueueFacts DEF QueueForm
<1>3. (scan = 0 /\ p = Len(eventQ) + 1) \/ (scan = p /\ p <= Len(eventQ))
  BY DEF Taken
<1>4. p <= e + 1 /\ (scan = 0 \/ scan = p)
  BY <1>1, <1>3
<1>5. i <= e + h /\ (scan = 0 \/ i < scan)
  BY <1>1, <1>2, <1>4
<1> QED  BY <1>1, <1>5 DEF Reviewed

\* It is the first that its sender has asked, and if it is answered the last.
LEMMA FirstAsked ==
  ASSUME Types, QInv, NEW p \in Nat, NEW m, Reads(p, m), NEW s \in Valid, s = Found(m), Asks(m, Sender(s)),
         m.major # "ERROR"
  PROVE  /\ slots[s].sync = ""
         /\ \A i \in DOMAIN Queue : Asks(Queue[i], Sender(s)) => i >= p
         /\ m.major \notin Unanswered => \A i \in DOMAIN Queue : Asks(Queue[i], Sender(s)) => i = p
<1>1. slots[s].sync = ""
  <2>1. s # 0 /\ slots[s].sync \in {"", "START_REPLY"}
    <3>1. slots[s] \in SlotType /\ s \in Nat /\ s > 0
      BY SenderFacts DEF Valid
    <3>2. s # 0
      BY <3>1
    <3> QED  BY <3>1, <3>2 DEF SlotType
  <2>2. m.major # "START_REPLY" /\ ~Waits(m)
    BY DEF Asks, Reads
  <2> QED  BY <2>1, <2>2 DEF Waits
<1>3. \A i \in DOMAIN Queue : i \in Nat
  BY QueueFacts DEF QueueForm
<1>5. ASSUME NEW i \in DOMAIN Queue, i < p  PROVE Reviewed(i)
  BY <1>5, BeforeTaken DEF Reads
<1>6. ASSUME NEW i \in DOMAIN Queue, Asks(Queue[i], Sender(s))  PROVE i >= p
  <2>1. ~Reviewed(i)
    BY <1>1, <1>6 DEF QInv, Fitting
  <2> QED  BY <1>3, <1>5, <2>1
<1>7. ASSUME m.major \notin Unanswered, NEW i \in DOMAIN Queue, Asks(Queue[i], Sender(s))
      PROVE  i = p
  <2>1. p \in DOMAIN Queue /\ Queue[p] = m
    BY DEF Reads
  <2>2. PICK c \in Clients : c = Sender(s)
    BY SenderFacts DEF Valid
  <2>3. InTurn(c)
    BY DEF QInv
  <2>4. ~(p < i)
    BY <1>7, <2>1, <2>2, <2>3 DEF InTurn
  <2>5. i >= p
    BY <1>6, <1>7
  <2> QED  BY <1>3, <2>4, <2>5
<1> QED  BY <1>1, <1>6, <1>7
---------------------------------------------------------------------------
(* What is processed keeps the clauses.                                     *)

\* A message that is read and changes nothing that the clauses speak of.
LEMMA Unheard ==
  ASSUME Types, Types', QInv, NEW p \in Nat, NEW m, Reads(p, m), UNCHANGED <<slots, errors, client>>
  PROVE  QInv'
<1>1. Carried(WasAt(p)) /\ Quiet(WasAt(p))
  BY DropsQuiet DEF Reads
<1>2. \A c \in Clients : ClientFades(c)
  BY DEF ClientFades, Alike, Valid, Sender
<1>3. \A s \in Valid : slots[s].sync # "" => Ic(s).valid
  BY DEF QInv, Fitting
<1>4. ASSUME NEW s \in DOMAIN slots  PROVE SlotFades(s)
  BY <1>3 DEF SlotFades, Same, Valid, Sender, Ic
<1> QED  BY <1>1, <1>2, <1>4, Faded

\* A handler that leaves of its slot what the clauses speak of.
LEMMA FadesHandled ==
  ASSUME Types, Types', QInv, NEW p \in Nat, NEW m, Reads(p, m), NEW s \in Valid,
         NEW c \in Clients, c = Sender(s),
         NEW y, NEW i, SlotBecomes(s, slots[s].valid, slots[s].closed, y, i),
         i.used = Ic(s).used, i.valid = Ic(s).valid, y # "" => Ic(s).valid,
         y = slots[s].sync \/ y # "" \/ \A j \in DOMAIN Queue' : ~Reviewed(j)',
         \A d \in Clients : Alike(d) /\ client'[d].awaits = client[d].awaits,
         \A d \in Clients : d \in errors' => d \in errors \/ (d = c /\ Gone(c) /\ Ic(s).valid)
  PROVE  QInv'
<1>1. Carried(WasAt(p)) /\ Quiet(WasAt(p))
  BY DropsQuiet DEF Reads
<1>0. s \in DOMAIN slots
  BY DEF Valid
<1>2. /\ DOMAIN slots' = DOMAIN slots /\ s \in DOMAIN slots
      /\ slots'[s].client = slots[s].client /\ slots'[s].valid = slots[s].valid
      /\ slots'[s].closed = slots[s].closed /\ slots'[s].sync = y /\ slots'[s].ic = i
      /\ \A r \in DOMAIN slots : r # s => slots'[r] = slots[r]
  BY <1>0, SlotTurns, ZenonT(60)
<1>3. \A r \in Valid : slots[r].sync # "" => Ic(r).valid
  BY DEF QInv, Fitting
<1>4. ASSUME NEW r \in DOMAIN slots
      PROVE  slots'[r].client = slots[r].client /\ slots'[r].valid = slots[r].valid
  <2>1. CASE r = s
    BY <1>2, <2>1
  <2>2. CASE r # s
    BY <1>2, <2>2
  <2> QED  BY <2>1, <2>2
<1>5. ASSUME NEW d \in Clients  PROVE ClientFades(d)
  <2>1. Alike(d) /\ client'[d].awaits = client[d].awaits /\ (d \in errors' => d \in errors \/ Gone(d))
    OBVIOUS
  <2>2. \A r \in DOMAIN slots' : slots'[r].client = d => r \in DOMAIN slots /\ slots[r].client = d
    BY <1>2, <1>4
  <2>3. \A r \in Valid : Sender(r) = d => r \in DOMAIN slots' /\ slots'[r].valid /\ slots'[r].client = d
    BY <1>2, <1>4 DEF Valid, Sender
  <2> QED  BY <2>1, <2>2, <2>3 DEF ClientFades
<1>6. ASSUME NEW r \in DOMAIN slots  PROVE SlotFades(r)
  <2>1. CASE r # s
    <3>1. slots'[r] = slots[r]
      BY <1>2, <2>1
    <3> QED  BY <1>3, <3>1 DEF SlotFades, Same, Valid, Sender, Ic
  <2>2. CASE r = s
    <3>1. Same(s)
      BY <1>2 DEF Same, Ic, Sender
    <3>2. s \in DOMAIN slots /\ slots[s].valid /\ slots'[s].valid
      BY <1>2 DEF Valid
    <3>3. SlotFades(s)
      BY <1>2, <3>1, <3>2 DEF SlotFades, Sender
    <3> QED  BY <2>2, <3>3
  <2> QED  BY <2>1, <2>2
<1>7. ASSUME NEW r \in Valid, Sender(r) \in errors'  PROVE Sender(r) \in errors \/ Ic(r).valid
  <2>1. r \in DOMAIN slots /\ Sender(r) \in Clients
    BY SenderFacts DEF Valid
  <2>2. CASE r = s
    BY <1>7, <2>1, <2>2
  <2>3. CASE r # s
    <3>1. Sender(r) # c
      BY <1>0, <1>2, <2>1, <2>3 DEF QInv, OneSlot, Sender
    <3> QED  BY <1>7, <2>1, <3>1
  <2> QED  BY <2>2, <2>3
<1> QED  BY <1>1, <1>2, <1>5, <1>6, <1>7, Faded
---------------------------------------------------------------------------
\* Keys, focus and answers to a PREEDIT_START.
LEMMA MildHandled ==
  ASSUME Types, Types', QInv, NEW p \in Nat, NEW m, Reads(p, m), NEW s \in Valid, s = Found(m),
         Handle(m, s), m.major \in OfIc => Ic(s).used, m.major \in Unanswered \cup {"START_REPLY"}
  PROVE  QInv'
<1>0. s \in DOMAIN slots
  BY DEF Valid
<1>1. PICK c \in Clients : c = Sender(s)
  BY <1>0, SenderFacts
<1>2. ASSUME UNCHANGED client  PROVE \A d \in Clients : Alike(d) /\ client'[d].awaits = client[d].awaits
  BY <1>2 DEF Alike
<1>3. ASSUME m.major # "START_REPLY"  PROVE Ic(s).valid /\ slots[s].sync = ""
  <2>1. Asks(m, Sender(s)) /\ Fits(m, s) /\ m.major \notin {"", "ERROR"}
    BY <1>3, HandledIsOwn
  <2>2. slots[s].sync = ""
    BY <2>1, FirstAsked
  <2>3. m.major \in OfIc
    BY <1>3 DEF Unanswered, OfIc
  <2> QED  BY <2>1, <2>2, <2>3 DEF Fits
<1>4. CASE m.major = "START_REPLY"
  <2>1. PreeditStartReply(s)
    BY <1>4 DEF Handle
  <2>2. SlotBecomes(s, slots[s].valid, slots[s].closed, "", Ic(s)) /\ UNCHANGED <<client, errors>>
    BY <1>0, <2>1, ReplyTurns DEF Stays
  <2>3. \A j \in DOMAIN Queue' : ~Reviewed(j)'
    <3>1. scan = 0 /\ scan' = 1 /\ Taken(p) /\ Drops(Queue, p, Queue')
      BY <1>4 DEF Reads
    <3>2. p # 0
      BY <3>1 DEF Drops
    <3>3. held' = <<>>
      BY <3>1, <3>2 DEF Taken
    <3> QED  BY <3>1, <3>3, DropsQuiet
  <2>4. PICK y, i : y = "" /\ i = Ic(s)
    OBVIOUS
  <2>5. SlotBecomes(s, slots[s].valid, slots[s].closed, y, i)
    BY <2>2, <2>4
  <2> QED  BY <1>1, <1>2, <2>2, <2>3, <2>4, <2>5, FadesHandled
<1>5. CASE m.major = "KEY"
  <2>1. ForwardKey(s)
    BY <1>5 DEF Handle
  <2>2. PICK i, y : /\ SlotBecomes(s, slots[s].valid, slots[s].closed, y, i)
                    /\ IcAs(i, Ic(s)) /\ y \in {"", "START_REPLY"}
    BY <1>0, <1>1, <2>1, KeyTurns
  <2>3. /\ ClientBecomes(c, client[c].phase, client[c].awaits, client[c].imid, client[c].ic)
        /\ ErrorsOf(c)
    BY <1>0, <1>1, <2>1, KeyTurns
  <2>4. Ic(s).valid /\ slots[s].sync = ""
    BY <1>3, <1>5
  <2>5. \A d \in Clients : Alike(d) /\ client'[d].awaits = client[d].awaits
    <3>1. \A d \in Clients : d # c => client'[d] = client[d]
      BY <2>3, ClientTurns
    <3>2. Gone(c) => client'[c] = client[c]
      BY <2>3, ClientTurns
    <3>3. ~Gone(c) => /\ client'[c].phase = client[c].phase /\ client'[c].awaits = client[c].awaits
                      /\ client'[c].imid = client[c].imid /\ client'[c].ic = client[c].ic
      BY <2>3, ClientTurns
    <3> QED  BY <3>1, <3>2, <3>3 DEF Alike
  <2>6. \A d \in Clients : d \in errors' => d \in errors \/ (d = c /\ Gone(c) /\ Ic(s).valid)
    BY <2>3, <2>4, ErrorTurns
  <2>7. i.used = Ic(s).used /\ i.valid = Ic(s).valid
    BY <2>2 DEF IcAs
  <2> QED  BY <1>1, <2>2, <2>4, <2>5, <2>6, <2>7, FadesHandled
<1>6. ASSUME m.major \in {"FOCUS", "UNFOCUS"}  PROVE QInv'
  <2>1. PICK in \in BOOLEAN : SetIcFocus(s, in)
    BY <1>6 DEF Handle
  <2>2. PICK i : i = [Ic(s) EXCEPT !.focus = in]
    OBVIOUS
  <2>3. PICK y : y = ""
    OBVIOUS
  <2>4. SlotBecomes(s, slots[s].valid, slots[s].closed, y, i) /\ UNCHANGED <<client, errors>>
    BY <1>0, <2>1, <2>2, <2>3, FocusTurns
  <2>5. y = slots[s].sync
    BY <1>3, <1>6, <2>3
  <2>6. Ic(s) \in IcType
    BY <1>0, SenderFacts
  <2>7. i.used = Ic(s).used /\ i.valid = Ic(s).valid
    BY <2>2, <2>6 DEF IcType
  <2> QED  BY <1>1, <1>2, <2>3, <2>4, <2>5, <2>7, FadesHandled
<1> QED  BY <1>4, <1>5, <1>6 DEF Unanswered

\* One beyond what has been put aside is the next that X brings, and what was
\* before it is looked through.
LEMMA TakenAhead ==
  ASSUME Types, NEW p \in Nat, Taken(p), p > Len(eventQ) + Len(held)
  PROVE  scan = 0 /\ p = Len(eventQ) + 1 /\ eventQ' = eventQ
<1>1. Len(eventQ) \in Nat /\ Len(held) \in Nat
  BY DEF Types
<1>2. ~(p <= Len(eventQ))
  BY <1>1
<1> QED  BY <1>2 DEF Taken

LEMMA TakenMoves ==
  ASSUME Types, Types', NEW p, NEW q \in DOMAIN Queue', NEW k \in DOMAIN Queue, k = Came(q, p), p > k,
         p = Len(eventQ) + 1, eventQ' = eventQ, scan' = 1
  PROVE  scan' > 0 /\ scan' <= q /\ q <= Len(eventQ')
<1>1. PICK e \in Nat : e = Len(eventQ) /\ e = Len(eventQ')
  BY DEF Types
<1>2. q \in Nat /\ q > 0 /\ k \in Nat
  BY QueueFacts, QueueFactsNext DEF QueueForm
<1>3. k < p /\ p = e + 1 /\ (k = q \/ k = q + 1)
  BY <1>1, <1>2 DEF Came
<1>4. q <= e
  BY <1>2, <1>3
<1> QED  BY <1>1, <1>2, <1>4

LEMMA ZeroNotMore == ASSUME NEW n, n = 0  PROVE ~(n > 0)
OBVIOUS

\* Requests of others for a slot are about ICs, and looked at before its owner
\* can open.
LEMMA ClearedHandled ==
  ASSUME Types, Types', QInv, NEW p \in Nat, NEW m, Reads(p, m), NEW s \in Valid,
         NEW c \in Clients, c = Sender(s), Asks(m, c), NoneAsked(c)',
         s \in DOMAIN slots', slots'[s].client = c, slots'[s].sync = "",
         Gone(c) => Gone(c)',
         m.major = "CONNECT" => /\ slots'[s].ic.used = Ic(s).used
                                /\ Gone(c)' \/ client'[c].phase = "connected"
  PROVE  Cleared(s)'
<1> SUFFICES ASSUME NEW q \in DOMAIN Queue', Stray(Queue[q], s)'
             PROVE  Queue'[q].major \in OfIc /\ (slots'[s].valid => Rests(s, q)')
  BY DEF Cleared
<1>1. /\ Carried(WasAt(p)) /\ Quiet(WasAt(p))
      /\ \A i \in DOMAIN Queue' : WasAt(p)[i] # p
      /\ \A i \in DOMAIN Queue' : WasAt(p)[i] # 0 => WasAt(p)[i] = Came(i, p)
  BY DropsQuiet DEF Reads
<1>2. /\ Queue'[q].t = "MESSAGE" /\ Queue'[q].major \notin ByProxy \cup {"START_REPLY"}
      /\ Queue'[q].imid = s /\ (Queue'[q].from # c \/ ~slots'[s].valid)
  BY DEF Stray, Sender
<1>3. WasAt(p)[q] # 0
  BY <1>1, <1>2 DEF Quiet
<1>4. PICK k \in DOMAIN Queue : k = WasAt(p)[q] /\ Queue'[q] = Queue[k] /\ k = Came(q, p)
  BY <1>1, <1>3 DEF Carried
<1>5. Queue'[q].from # c
  BY <1>2 DEF NoneAsked, Asks
<1>6. Stray(Queue[k], s)
  BY <1>2, <1>4, <1>5 DEF Stray
<1>7. s \in DOMAIN slots /\ slots[s].valid
  BY DEF Valid
<1>8. Queue[k].major \in OfIc /\ Rests(s, k)
  BY <1>6, <1>7 DEF QInv, Cleared
<1>9. p \in DOMAIN Queue /\ Queue[p] = m
  BY DEF Reads
<1>10. m.major \in {"CONNECT", "OPEN"} /\ p > k /\ p > Len(eventQ) + Len(held)
  BY <1>8, <1>9 DEF Rests
<1>11. scan = 0 /\ p = Len(eventQ) + 1 /\ eventQ' = eventQ
  BY <1>10, TakenAhead DEF Reads
<1>12. ~Connected(s)
  <2>1. ~(scan > 0)
    BY <1>11, ZeroNotMore
  <2> QED  BY <1>8, <2>1 DEF Rests
<1>13. m.major = "CONNECT"
  BY <1>9, <1>12 DEF Connected
<1>14. ~slots'[s].ic.used
  BY <1>8, <1>13 DEF Rests
<1>15. ~Gone(c)' => client'[c].phase \in {"met", "connected"}
  BY <1>13
<1>16. scan' > 0 /\ scan' <= q /\ q <= Len(eventQ')
  BY <1>4, <1>10, <1>11, TakenMoves DEF Reads
<1>17. \A j \in DOMAIN Queue' : ~Asks(Queue'[j], c)
  BY DEF NoneAsked
<1>18. Rests(s, q)'
  BY <1>14, <1>15, <1>16, <1>17 DEF Rests, Ic, Sender
<1> QED  BY <1>4, <1>8, <1>18
---------------------------------------------------------------------------
\* What a client and its slot are after an answer.
NowKnows(phase, imid, ic, closed, i, s) ==
    /\ imid \in {0, s} /\ (phase = "open" => imid = s)
    /\ ic = i.valid /\ (ic => phase = "open")
    /\ phase # "closed" => ~closed
    /\ phase \in {"met", "connected"} => ~i.used
Turns(m, s, c, phase, imid, ic, closed, i) ==
    /\ SlotBecomes(s, slots[s].valid, closed, "", i)
    /\ ClientBecomes(c, phase, "", imid, ic)
    /\ ErrorsOf(c)
    /\ i.valid => i.used /\ ~closed
    /\ ~Gone(c) => phase \in Present /\ NowKnows(phase, imid, ic, closed, i, s)
    /\ m.major = "CONNECT" => i.used = Ic(s).used /\ phase = "connected"

LEMMA NoneLeft ==
  ASSUME Types, Types', QInv, NEW p \in Nat, NEW m, Reads(p, m), NEW s \in Valid, NEW c \in Clients,
         c = Sender(s), s = Found(m), Asks(m, c), m.major \notin Unanswered \cup {"ERROR"}
  PROVE  NoneAsked(c)' /\ Carried(WasAt(p)) /\ Quiet(WasAt(p))
<1>1. /\ Carried(WasAt(p)) /\ Quiet(WasAt(p))
      /\ \A i \in DOMAIN Queue' : WasAt(p)[i] # p
  BY DropsQuiet DEF Reads
<1>2. \A i \in DOMAIN Queue : Asks(Queue[i], Sender(s)) => i = p
  BY FirstAsked
<1>3. ASSUME NEW i \in DOMAIN Queue', Asks(Queue'[i], c)  PROVE FALSE
  <2>1. WasAt(p)[i] # 0
    BY <1>1, <1>3 DEF Quiet, Aloof
  <2>2. WasAt(p)[i] \in DOMAIN Queue /\ Queue'[i] = Queue[WasAt(p)[i]]
    BY <1>1, <2>1 DEF Carried
  <2> QED  BY <1>1, <1>2, <1>3, <2>2
<1> QED  BY <1>1, <1>3 DEF NoneAsked

LEMMA ZeroOrPlace ==
  ASSUME Types, NEW s \in DOMAIN slots, NEW n, n = 0 \/ n = s
  PROVE  n <= Len(slots)
<1>1. Len(slots) \in Nat /\ DOMAIN slots = 1 .. Len(slots)
  BY DEF Types
<1> QED  BY <1>1

LEMMA AnsweredHandled ==
  ASSUME Types, Types', QInv, NEW p \in Nat, NEW m, Reads(p, m), NEW s \in Valid, NEW c \in Clients,
         c = Sender(s), s = Found(m), Asks(m, c), m.major \notin Unanswered \cup {"ERROR"},
         NEW phase, NEW imid, NEW ic, NEW closed, NEW i, Turns(m, s, c, phase, imid, ic, closed, i)
  PROVE  QInv'
<1>1. NoneAsked(c)' /\ Carried(WasAt(p)) /\ Quiet(WasAt(p))
  BY NoneLeft
<1>2. s \in DOMAIN slots /\ slots[s].valid
  BY DEF Valid
<1>3. /\ Len(slots') = Len(slots) /\ DOMAIN slots' = DOMAIN slots
      /\ slots'[s].client = slots[s].client /\ slots'[s].valid = slots[s].valid
      /\ slots'[s].closed = closed /\ slots'[s].sync = "" /\ slots'[s].ic = i
      /\ \A r \in DOMAIN slots : r # s => slots'[r] = slots[r]
  <2>1. PICK y, v : y = "" /\ v = slots[s].valid
    OBVIOUS
  <2>2. SlotBecomes(s, v, closed, y, i)
    BY <2>1 DEF Turns
  <2>3. /\ Len(slots') = Len(slots) /\ DOMAIN slots' = DOMAIN slots
        /\ slots'[s].client = slots[s].client /\ slots'[s].valid = v
        /\ slots'[s].closed = closed /\ slots'[s].sync = y /\ slots'[s].ic = i
        /\ \A r \in DOMAIN slots : r # s => slots'[r] = slots[r]
    BY <1>2, <2>2, SlotTurns
  <2> QED  BY <2>1, <2>3
<1>4. /\ \A d \in Clients : d # c => client'[d] = client[d]
      /\ Gone(c) => client'[c] = client[c]
      /\ ~Gone(c) => /\ client'[c].phase = phase /\ client'[c].imid = imid /\ client'[c].ic = ic
  <2>1. ClientBecomes(c, phase, "", imid, ic)
    BY DEF Turns
  <2> QED  BY <2>1, ClientTurns, ZenonT(60)
<1>5. \A d \in Clients : d \in errors' => d \in errors \/ (d = c /\ Gone(c))
  BY ErrorTurns DEF Turns
<1>6. /\ slots'[s].ic.valid => slots'[s].ic.used /\ ~slots'[s].closed
      /\ slots'[s].ic.valid = i.valid /\ slots'[s].ic.used = i.used
  BY <1>3 DEF Turns
<1>7. Gone(c) => Gone(c)'
  BY <1>4 DEF Gone
<1>8. Cleared(s)'
  <2>1. s \in DOMAIN slots' /\ slots'[s].client = c
    BY <1>2, <1>3 DEF Sender
  <2>2. m.major = "CONNECT" => /\ slots'[s].ic.used = Ic(s).used
                               /\ Gone(c)' \/ client'[c].phase = "connected"
    BY <1>4, <1>6, <1>7 DEF Turns
  <2> QED  BY <1>1, <1>3, <1>7, <2>1, <2>2, ClearedHandled
<1>9. ASSUME ~Gone(c)
      PROVE  /\ client'[c].phase \notin {"new", "asked", "gone"}
             /\ client'[c].imid <= Len(slots)
             /\ slots'[s].valid
             /\ Knows(c, s)'
  <2>1. phase \in Present /\ NowKnows(phase, imid, ic, closed, i, s)
    BY <1>9 DEF Turns
  <2>2. Knows(c, s)'
    BY <1>3, <1>4, <1>9, <2>1 DEF Knows, NowKnows, Ic, Present
  <2>3. imid <= Len(slots)
    <3>1. imid = 0 \/ imid = s
      BY <2>1 DEF NowKnows
    <3> QED  BY <1>2, <3>1, ZeroOrPlace
  <2>4. client'[c].phase \in Present
    BY <1>4, <1>9, <2>1
  <2> QED  BY <1>2, <1>3, <1>4, <1>9, <2>2, <2>3, <2>4 DEF Present
<1>10. Sender(s)' = c
  BY <1>3 DEF Sender
<1> QED  BY <1>1, <1>3, <1>4, <1>5, <1>6, <1>8, <1>9, <1>10, Handled
---------------------------------------------------------------------------
\* When a client asks for what.
OfIm == {"CLOSE", "QUERY_EXT", "ENCODING", "GET_IM", "CREATE_IC"}
Timely(m, c) ==
    /\ m = "CONNECT" => client[c].phase = "met"
    /\ m = "OPEN" => client[c].phase = "connected"
    /\ m \in OfIm => client[c].phase = "open" /\ ~client[c].ic
    /\ m \in OfIc => client[c].phase = "open" /\ client[c].ic
    /\ m = "DISCONNECT" => client[c].phase = "closed"
LEMMA StepsTimely ==
  ASSUME NEW c, NEW m, NEW x, <<m, x>> \in Steps(c)
  PROVE  Timely(m, c)
<1>1. CASE client[c].phase = "met"
  <2>1. <<m, x>> = <<"CONNECT", "">>
    BY <1>1 DEF Steps
  <2>2. m = "CONNECT"
    BY <2>1
  <2> QED  BY <1>1, <2>2 DEF Timely, OfIm, OfIc
<1>2. CASE client[c].phase = "connected"
  <2>1. <<m, x>> = <<"OPEN", "">>
    BY <1>2 DEF Steps
  <2>2. m = "OPEN"
    BY <2>1
  <2> QED  BY <1>2, <2>2 DEF Timely, OfIm, OfIc
<1>3. CASE client[c].phase = "open" /\ ~client[c].ic
  <2>1. \/ <<m, x>> = <<"ENCODING", "ctext">> \/ <<m, x>> = <<"ENCODING", "other">>
        \/ <<m, x>> = <<"QUERY_EXT", "">> \/ <<m, x>> = <<"GET_IM", "">>
        \/ <<m, x>> = <<"CLOSE", "">> \/ \E st \in Styles : <<m, x>> = <<"CREATE_IC", st>>
    BY <1>3 DEF Steps
  <2>2. m \in OfIm
    BY <2>1 DEF OfIm
  <2> QED  BY <1>3, <2>2 DEF Timely, OfIm, OfIc
<1>4. CASE client[c].phase = "open" /\ client[c].ic
  <2>1. PICK n \in OfIc : <<m, x>> = <<n, "">>
    BY <1>4 DEF Steps, OfIc
  <2>2. m \in OfIc
    BY <2>1
  <2> QED  BY <1>4, <2>2 DEF Timely, OfIm, OfIc
<1>5. CASE client[c].phase = "closed"
  <2>1. <<m, x>> = <<"DISCONNECT", "">>
    BY <1>5 DEF Steps
  <2>2. m = "DISCONNECT"
    BY <2>1
  <2> QED  BY <1>5, <2>2 DEF Timely, OfIm, OfIc
<1>6. client[c].phase \in {"met", "connected", "closed"} \/ client[c].phase = "open"
  <2>1. Steps(c) # {}
    OBVIOUS
  <2> QED  BY <2>1 DEF Steps
<1> QED  BY <1>1, <1>2, <1>3, <1>4, <1>5, <1>6

\* What is asked meets the client and its slot in their time.
InTime(m, s, c) ==
    /\ ~Gone(c) => Timely(m.major, c) /\ Knows(c, s)
    /\ Fits(m, s) /\ (Ic(s).valid => Ic(s).used /\ ~slots[s].closed)
LEMMA AskedInTime ==
  ASSUME Types, QInv, NEW p, NEW m, Reads(p, m), NEW s \in Valid, NEW c \in Clients, c = Sender(s),
         Asks(m, c), Fits(m, s)
  PROVE  InTime(m, s, c)
<1>1. p \in DOMAIN Queue /\ Queue[p] = m
  BY DEF Reads
<1>2. Fitting(s) /\ InTurn(c)
  BY DEF QInv
<1>3. ASSUME ~Gone(c)  PROVE <<m.major, m.arg>> \in Steps(c)
  BY <1>1, <1>2, <1>3 DEF InTurn
<1>4. ASSUME ~Gone(c)  PROVE Timely(m.major, c) /\ Knows(c, s)
  BY <1>2, <1>3, <1>4, StepsTimely DEF Fitting
<1>5. Ic(s).valid => Ic(s).used /\ ~slots[s].closed
  BY <1>2 DEF Fitting
<1> QED  BY <1>4, <1>5 DEF InTime
---------------------------------------------------------------------------
LEMMA IcChanges ==
  ASSUME NEW i \in IcType
  PROVE  /\ [i EXCEPT !.window = "own"].valid = i.valid /\ [i EXCEPT !.window = "own"].used = i.used
         /\ [i EXCEPT !.valid = FALSE].valid = FALSE /\ [i EXCEPT !.valid = FALSE].used = i.used
BY DEF IcType

\* The answers to what is asked in time, one by one.
LEMMA ConnectAnswered ==
  ASSUME Types, NEW s \in Valid, NEW c \in Clients, c = Sender(s), NEW m, InTime(m, s, c),
         m.major = "CONNECT", Connect(s)
  PROVE  Turns(m, s, c, "connected", client[c].imid, client[c].ic, slots[s].closed, Ic(s))
<1>1. s \in DOMAIN slots /\ "" \in Args
  BY DEF Valid, Args
<1>2. Stays(s) /\ Hears(c, "connected", client[c].imid) /\ ErrorsOf(c)
  BY <1>1, Answers
<1>3. ~Gone(c) => NowKnows("connected", client[c].imid, client[c].ic, slots[s].closed, Ic(s), s)
  BY DEF InTime, Timely, Knows, NowKnows
<1> QED  BY <1>2, <1>3 DEF Turns, Stays, Hears, InTime, Present

LEMMA OpenAnswered ==
  ASSUME Types, NEW s \in Valid, NEW c \in Clients, c = Sender(s), NEW m, InTime(m, s, c),
         m.major = "OPEN", Open(s)
  PROVE  Turns(m, s, c, "open", s, client[c].ic, slots[s].closed, Ic(s))
<1>1. s \in DOMAIN slots /\ "" \in Args
  BY DEF Valid, Args
<1>2. Stays(s) /\ Hears(c, "open", s) /\ ErrorsOf(c)
  BY <1>1, Answers
<1>3. ~Gone(c) => NowKnows("open", s, client[c].ic, slots[s].closed, Ic(s), s)
  BY DEF InTime, Timely, Knows, NowKnows
<1> QED  BY <1>2, <1>3 DEF Turns, Stays, Hears, InTime, Present

LEMMA CloseAnswered ==
  ASSUME Types, NEW s \in Valid, NEW c \in Clients, c = Sender(s), NEW m, InTime(m, s, c),
         m.major = "CLOSE", Close(s)
  PROVE  Turns(m, s, c, "closed", client[c].imid, client[c].ic, TRUE, Ic(s))
<1>1. s \in DOMAIN slots /\ "" \in Args
  BY DEF Valid, Args
<1>2. /\ SlotBecomes(s, slots[s].valid, TRUE, "", Ic(s))
      /\ Hears(c, "closed", client[c].imid) /\ ErrorsOf(c)
  BY <1>1, Answers
<1>3. ~Gone(c) => NowKnows("closed", client[c].imid, client[c].ic, TRUE, Ic(s), s)
  BY DEF InTime, Timely, Knows, NowKnows, OfIm
<1>4. ~Ic(s).valid
  BY DEF InTime, Fits, OfIc
<1> QED  BY <1>2, <1>3, <1>4 DEF Turns, Hears, Present

LEMMA NothingAnswered ==
  ASSUME Types, NEW s \in Valid, NEW c \in Clients, c = Sender(s), NEW m, InTime(m, s, c),
         m.major \in {"QUERY_EXT", "GET_IM", "ENCODING", "GET_IC", "RESET_IC"}, NEW st \in Args,
         QueryExtension(s) \/ GetImValues(s) \/ GetIcValues(s) \/ EncodingNego(s, st) \/ ResetIc(s)
  PROVE  Turns(m, s, c, client[c].phase, client[c].imid, client[c].ic, slots[s].closed, Ic(s))
<1>1. s \in DOMAIN slots
  BY DEF Valid
<1>2. Stays(s) /\ Hears(c, client[c].phase, client[c].imid) /\ ErrorsOf(c)
  BY <1>1, Answers
<1>3. ~Gone(c) => NowKnows(client[c].phase, client[c].imid, client[c].ic, slots[s].closed, Ic(s), s)
  BY DEF InTime, Knows, NowKnows
<1>4. ~Gone(c) => client[c].phase \in Present
  BY DEF InTime, Knows
<1> QED  BY <1>2, <1>3, <1>4 DEF Turns, Stays, Hears, InTime

LEMMA SetAnswered ==
  ASSUME Types, NEW s \in Valid, NEW c \in Clients, c = Sender(s), NEW m, InTime(m, s, c),
         m.major = "SET_IC", SetIcValues(s)
  PROVE  Turns(m, s, c, client[c].phase, client[c].imid, client[c].ic, slots[s].closed,
               [Ic(s) EXCEPT !.window = "own"])
<1>1. s \in DOMAIN slots /\ "" \in Args
  BY DEF Valid, Args
<1>2. /\ SlotBecomes(s, slots[s].valid, slots[s].closed, "", [Ic(s) EXCEPT !.window = "own"])
      /\ Hears(c, client[c].phase, client[c].imid) /\ ErrorsOf(c)
  BY <1>1, Answers
<1>3. PICK i : i = [Ic(s) EXCEPT !.window = "own"] /\ i.valid = Ic(s).valid /\ i.used = Ic(s).used
  BY <1>1, SenderFacts, IcChanges
<1>4. ~Gone(c) => NowKnows(client[c].phase, client[c].imid, client[c].ic, slots[s].closed, i, s)
  BY <1>3 DEF InTime, Knows, NowKnows
<1>5. ~Gone(c) => client[c].phase \in Present
  BY DEF InTime, Knows
<1> QED  BY <1>2, <1>3, <1>4, <1>5 DEF Turns, Hears, InTime

LEMMA CreateAnswered ==
  ASSUME Types, NEW s \in Valid, NEW c \in Clients, c = Sender(s), NEW m, InTime(m, s, c),
         m.major = "CREATE_IC", NEW st \in Args, CreateIc(s, st)
  PROVE  \E i : Turns(m, s, c, client[c].phase, client[c].imid, TRUE, slots[s].closed, i)
<1>1. s \in DOMAIN slots
  BY DEF Valid
<1>2. PICK i \in IcType : /\ SlotBecomes(s, slots[s].valid, slots[s].closed, "", i)
                          /\ i.used = TRUE /\ i.valid = TRUE
  BY <1>1, CreateTurns
<1>3. ClientBecomes(c, client[c].phase, "", client[c].imid, TRUE) /\ ErrorsOf(c)
  BY <1>1, CreateTurns
<1>4. ~slots[s].closed
  BY DEF InTime, Fits
<1>5. ~Gone(c) => NowKnows(client[c].phase, client[c].imid, TRUE, slots[s].closed, i, s)
  BY <1>2, <1>4 DEF InTime, Timely, Knows, NowKnows, OfIm
<1>6. ~Gone(c) => client[c].phase \in Present
  BY DEF InTime, Knows
<1>7. Turns(m, s, c, client[c].phase, client[c].imid, TRUE, slots[s].closed, i)
  BY <1>2, <1>3, <1>4, <1>5, <1>6 DEF Turns
<1> QED  BY <1>7

LEMMA DestroyAnswered ==
  ASSUME Types, NEW s \in Valid, NEW c \in Clients, c = Sender(s), NEW m, InTime(m, s, c),
         m.major = "DESTROY_IC", DestroyIc(s)
  PROVE  Turns(m, s, c, client[c].phase, client[c].imid, FALSE, slots[s].closed,
               [Ic(s) EXCEPT !.valid = FALSE])
<1>1. s \in DOMAIN slots
  BY DEF Valid
<1>2. /\ SlotBecomes(s, slots[s].valid, slots[s].closed, "", [Ic(s) EXCEPT !.valid = FALSE])
      /\ ClientBecomes(c, client[c].phase, "", client[c].imid, FALSE) /\ ErrorsOf(c)
  BY <1>1, DestroyTurns
<1>3. PICK i : i = [Ic(s) EXCEPT !.valid = FALSE] /\ i.valid = FALSE /\ i.used = Ic(s).used
  BY <1>1, SenderFacts, IcChanges
<1>4. ~Gone(c) => NowKnows(client[c].phase, client[c].imid, FALSE, slots[s].closed, i, s)
  BY <1>3 DEF InTime, Timely, Knows, NowKnows, OfIc
<1>5. ~Gone(c) => client[c].phase \in Present
  BY DEF InTime, Knows
<1> QED  BY <1>2, <1>3, <1>4, <1>5 DEF Turns

LEMMA HandleTurns ==
  ASSUME Types, NEW s \in Valid, NEW c \in Clients, c = Sender(s), NEW m \in EventType,
         InTime(m, s, c), Handle(m, s),
         m.major \notin Unanswered \cup {"", "ERROR", "START_REPLY", "DISCONNECT"}
  PROVE  \E phase, imid, ic, closed, i : Turns(m, s, c, phase, imid, ic, closed, i)
<1> DEFINE Turned == \E phase, imid, ic, closed, i : Turns(m, s, c, phase, imid, ic, closed, i)
<1> SUFFICES Turned
  OBVIOUS
<1>1. m.arg \in Args
  BY DEF EventType
<1>2. m.major = "CONNECT" /\ Connect(s) => Turned
  BY ConnectAnswered
<1>3. m.major = "OPEN" /\ Open(s) => Turned
  BY OpenAnswered
<1>4. m.major = "CLOSE" /\ Close(s) => Turned
  BY CloseAnswered
<1>5. m.major = "QUERY_EXT" /\ QueryExtension(s) => Turned
  BY <1>1, NothingAnswered
<1>6. m.major = "GET_IM" /\ GetImValues(s) => Turned
  BY <1>1, NothingAnswered
<1>7. m.major = "ENCODING" /\ EncodingNego(s, m.arg) => Turned
  BY <1>1, NothingAnswered
<1>8. m.major = "GET_IC" /\ GetIcValues(s) => Turned
  BY <1>1, NothingAnswered
<1>9. m.major = "RESET_IC" /\ ResetIc(s) => Turned
  BY <1>1, NothingAnswered
<1>10. m.major = "SET_IC" /\ SetIcValues(s) => Turned
  BY SetAnswered
<1>11. m.major = "CREATE_IC" /\ CreateIc(s, m.arg) => Turned
  BY <1>1, CreateAnswered
<1>12. m.major = "DESTROY_IC" /\ DestroyIc(s) => Turned
  BY DestroyAnswered
<1> HIDE DEF Turned
<1> QED
  BY <1>2, <1>3, <1>4, <1>5, <1>6, <1>7, <1>8, <1>9, <1>10, <1>11, <1>12 DEF Handle, Unanswered
---------------------------------------------------------------------------
\* The client leaves, and with it all that is said of its slot.
LEMMA LeftHandled ==
  ASSUME Types, Types', QInv, NEW p \in Nat, NEW m, Reads(p, m), NEW s \in Valid, NEW c \in Clients,
         c = Sender(s), s = Found(m), Asks(m, c), m.major = "DISCONNECT", Disconnect(s)
  PROVE  QInv'
<1>1. NoneAsked(c)' /\ Carried(WasAt(p)) /\ Quiet(WasAt(p))
  <2>1. m.major \notin Unanswered \cup {"ERROR"}
    BY DEF Unanswered
  <2> QED  BY <2>1, NoneLeft
<1>2. s \in DOMAIN slots
  BY DEF Valid
<1>3. PICK told, windows : told = [phase |-> "left", awaits |-> ""] /\ DisconnectClient(s, told, windows)
  BY DEF Disconnect
<1>4. PICK v, y, i, cl : /\ v = FALSE /\ y = "" /\ i = [Ic(s) EXCEPT !.valid = FALSE] /\ i.valid = FALSE
                         /\ cl = slots[s].closed
  <2>1. PICK i : i = [Ic(s) EXCEPT !.valid = FALSE]
    OBVIOUS
  <2>2. i.valid = FALSE
    BY <1>2, <2>1, SenderFacts, IcChanges
  <2> QED  BY <2>1, <2>2
<1>5. /\ SlotBecomes(s, v, cl, y, i) /\ ErrorsOf(c)
      /\ told = [phase |-> "left", awaits |-> ""] => \E b : ClientBecomes(c, "left", "", client[c].imid, b)
  BY <1>2, <1>3, <1>4, LeaveTurns
<1>6. SlotBecomes(s, v, cl, y, i) /\ ErrorsOf(c)
  BY <1>5
<1>x1. \E b : ClientBecomes(c, "left", "", client[c].imid, b)
  BY <1>3, <1>5
<1>7. PICK b, ph, a : ClientBecomes(c, ph, a, client[c].imid, b) /\ ph = "left" /\ a = ""
  BY <1>x1
<1>8. /\ Len(slots') = Len(slots) /\ DOMAIN slots' = DOMAIN slots
      /\ slots'[s].client = slots[s].client /\ slots'[s].valid = v
      /\ slots'[s].closed = cl /\ slots'[s].sync = y /\ slots'[s].ic = i
      /\ \A r \in DOMAIN slots : r # s => slots'[r] = slots[r]
  BY <1>2, <1>6, SlotTurns
<1>9. /\ \A d \in Clients : d # c => client'[d] = client[d]
      /\ Gone(c) => client'[c] = client[c]
      /\ ~Gone(c) => /\ client'[c].phase = ph /\ client'[c].awaits = a
                     /\ client'[c].imid = client[c].imid /\ client'[c].ic = b
  <2>1. PICK n : n = client[c].imid
    OBVIOUS
  <2>2. ClientBecomes(c, ph, a, n, b)
    BY <1>7, <2>1
  <2>3. /\ \A d \in Clients : d # c => client'[d] = client[d]
        /\ Gone(c) => client'[c] = client[c]
        /\ ~Gone(c) => /\ client'[c].phase = ph /\ client'[c].awaits = a
                       /\ client'[c].imid = n /\ client'[c].ic = b
    BY <2>2, ClientTurns
  <2> QED  BY <2>1, <2>3
<1>10. \A d \in Clients : d \in errors' => d \in errors \/ (d = c /\ Gone(c))
  BY <1>5, ErrorTurns
<1>11. Gone(c) => Gone(c)'
  BY <1>9 DEF Gone
<1>12. Cleared(s)'
  <2>1. s \in DOMAIN slots' /\ slots'[s].client = c /\ slots'[s].sync = ""
    BY <1>2, <1>4, <1>8 DEF Sender
  <2> QED  BY <1>1, <1>11, <2>1, ClearedHandled
<1>13. client[c].imid <= Len(slots)
  BY DEF QInv, Placed
<1>14. Sender(s)' = c /\ slots'[s].sync = "" /\ ~slots'[s].ic.valid /\ ~slots'[s].valid
  BY <1>4, <1>8 DEF Sender
<1>15. ~Gone(c) => /\ client'[c].phase \notin {"new", "asked", "gone"}
                   /\ client'[c].imid <= Len(slots)
                   /\ client'[c].phase \notin Present
  BY <1>7, <1>9, <1>13 DEF Present
<1> QED  BY <1>1, <1>8, <1>9, <1>10, <1>12, <1>14, <1>15, Handled

\* What is read and processed keeps the clauses.
LEMMA ReadKept ==
  ASSUME Types, Types', QInv, NEW p \in Nat, NEW m, Reads(p, m)
  PROVE  QInv'
<1>1. CASE UNCHANGED <<slots, errors, client>>
  BY <1>1, Unheard
<1>2. ASSUME NEW s, s = Found(m), s # 0, Handle(m, s), m.major \in OfIc => Ic(s).used
      PROVE  QInv'
  <2>1. s \in Valid
    BY <1>2, FoundFacts
  <2>2. CASE m.major \in Unanswered \cup {"START_REPLY"}
    BY <1>2, <2>1, <2>2, MildHandled
  <2>3. CASE m.major \notin Unanswered \cup {"START_REPLY"}
    <3>1. PICK c \in Clients : c = Sender(s)
      BY <2>1, SenderFacts DEF Valid
    <3>2. Asks(m, c) /\ Fits(m, s) /\ m.major \notin {"", "ERROR"}
      BY <1>2, <2>1, <2>3, <3>1, HandledIsOwn
    <3>3. CASE m.major = "DISCONNECT"
      <4>1. Disconnect(s)
        BY <1>2, <3>3 DEF Handle
      <4> QED  BY <1>2, <2>1, <3>1, <3>2, <3>3, <4>1, LeftHandled
    <3>4. CASE m.major # "DISCONNECT"
      <4>1. InTime(m, s, c)
        BY <2>1, <3>1, <3>2, AskedInTime
      <4>2. m \in EventType
        BY DEF Reads
      <4>3. PICK phase, imid, ic, closed, i : Turns(m, s, c, phase, imid, ic, closed, i)
        BY <1>2, <2>1, <2>3, <3>1, <3>2, <3>4, <4>1, <4>2, HandleTurns
      <4>4. m.major \notin Unanswered \cup {"ERROR"}
        BY <2>3, <3>2
      <4> QED  BY <1>2, <2>1, <3>1, <3>2, <4>3, <4>4, AnsweredHandled
    <3> QED  BY <3>3, <3>4
  <2> QED  BY <2>2, <2>3
<1>3. PICK rest : Process(m, rest)
  BY DEF Reads
<1>4. PICK s : s = Found(m)
  OBVIOUS
<1> QED  BY <1>1, <1>2, <1>3, <1>4 DEF Process, Crash
---------------------------------------------------------------------------
\* x_error marks a WxContext of the client whose window went, or none.
BadSlot(s) == /\ DOMAIN slots' = DOMAIN slots /\ slots'[s].client = slots[s].client /\ ~slots'[s].valid
              /\ \A r \in DOMAIN slots : r # s => slots'[r] = slots[r]
LEMMA BadTurns ==
  ASSUME Types, NEW e, XError(e)
  PROVE  /\ slots' = slots \/ \E s \in DOMAIN slots : Sender(s) = e /\ BadSlot(s)
         /\ errors' \subseteq errors /\ UNCHANGED <<eventQ, scan, held, cxns, events, client, early>>
<1>1. PICK n \in Nat : n = Len(slots) /\ DOMAIN slots = 1 .. n /\ slots \in [1 .. n -> SlotType]
  BY DEF Types
<1> DEFINE I == {i \in 1 .. Len(slots) : slots[i].client = e}
           s == IF I # {} THEN Min(I) ELSE 0
<1>2. s = SelectInSeq(slots, LAMBDA sl : sl.client = e)
  BY DEF SelectInSeq
<1>3. slots' = IF s > 1 THEN [slots EXCEPT ![s].valid = FALSE] ELSE slots
  BY <1>2 DEF XError
<1>4. ASSUME slots' # slots  PROVE s \in 1 .. n /\ Sender(s) = e
  <2>1. s > 1 /\ I \subseteq Nat
    BY <1>3, <1>4
  <2>2. I # {}
    BY <2>1
  <2>3. Min(I) \in I
    <3> HIDE DEF I
    <3> QED  BY <2>1, <2>2, LeastIn
  <2>4. s \in I
    BY <2>2, <2>3
  <2> QED  BY <1>1, <2>4 DEF Sender
<1>5. ASSUME slots' # slots  PROVE \E r \in DOMAIN slots : Sender(r) = e /\ BadSlot(r)
  <2>1. PICK r \in 1 .. n : r = s /\ Sender(r) = e
    BY <1>4, <1>5
  <2>2. slots' = [slots EXCEPT ![r].valid = FALSE]
    BY <1>3, <1>5, <2>1
  <2>3. slots[r] \in SlotType
    BY <1>1
  <2>4. DOMAIN slots' = DOMAIN slots /\ slots'[r] = [slots[r] EXCEPT !.valid = FALSE]
        /\ \A q \in DOMAIN slots : q # r => slots'[q] = slots[q]
    BY <1>1, <2>2
  <2>5. ~slots'[r].valid /\ slots'[r].client = slots[r].client
    BY <2>3, <2>4 DEF SlotType
  <2>6. BadSlot(r)
    BY <2>4, <2>5 DEF BadSlot
  <2> QED  BY <1>1, <2>1, <2>6
<1>6. errors' \subseteq errors /\ UNCHANGED <<eventQ, scan, held, cxns, events, client, early>>
  BY DEF XError
<1> QED  BY <1>5, <1>6

LEMMA BadKept ==
  ASSUME Types, Types', QInv, NEW e \in errors, XError(e)
  PROVE  QInv'
<1>1. /\ slots' = slots \/ \E s \in DOMAIN slots : Sender(s) = e /\ BadSlot(s)
      /\ errors' \subseteq errors /\ UNCHANGED <<eventQ, scan, held, cxns, events, client, early>>
  BY BadTurns
<1>2. Queue' = Queue
  BY <1>1 DEF Queue
<1>3. Carried(Still) /\ Quiet(Still)
  <2>1. PICK x : x = 0
    OBVIOUS
  <2>2. Carried(Still) /\ \A i \in DOMAIN Queue' : Still[i] = 0 => Queue' # Queue /\ Queue'[i] = x
    BY <1>1, <1>2, StillCarried
  <2> QED  BY <1>2, <2>2 DEF Quiet
<1>4. DOMAIN slots' = DOMAIN slots /\ \A s \in DOMAIN slots : slots'[s].client = slots[s].client
  <2>1. ASSUME NEW s \in DOMAIN slots, BadSlot(s)
        PROVE  DOMAIN slots' = DOMAIN slots /\ \A r \in DOMAIN slots : slots'[r].client = slots[r].client
    <3>1. \A r \in DOMAIN slots : r # s => slots'[r].client = slots[r].client
      BY <2>1 DEF BadSlot
    <3> QED  BY <2>1, <3>1 DEF BadSlot
  <2> QED  BY <1>1, <2>1
<1>5. ASSUME NEW s \in DOMAIN slots  PROVE slots'[s] = slots[s] \/ (Sender(s) = e /\ ~slots'[s].valid)
  BY <1>1, <1>5 DEF BadSlot
<1>6. ASSUME NEW c \in Clients  PROVE ClientFades(c)
  <2>1. Alike(c) /\ client'[c].awaits = client[c].awaits /\ (c \in errors' => c \in errors)
    BY <1>1 DEF Alike
  <2>2. ASSUME client[c].phase \in Present, NEW s \in Valid, Sender(s) = c
        PROVE  s \in DOMAIN slots' /\ slots'[s].valid /\ slots'[s].client = c
    <3>1. c # e
      BY <2>2 DEF QInv, Departed, Gone, Present
    <3>2. s \in DOMAIN slots /\ slots[s].valid /\ slots[s].client = c
      BY <2>2 DEF Valid, Sender
    <3>3. slots'[s] = slots[s]
      BY <1>5, <2>2, <3>1, <3>2
    <3> QED  BY <1>4, <3>2, <3>3
  <2> QED  BY <1>4, <2>1, <2>2 DEF ClientFades
<1>7. ASSUME NEW s \in DOMAIN slots  PROVE SlotFades(s)
  <2>1. CASE slots'[s] = slots[s]
    <3>1. s \in Valid /\ slots[s].sync # "" => Ic(s).valid
      BY DEF QInv, Fitting
    <3> QED  BY <2>1, <3>1 DEF SlotFades, Same, Valid, Sender, Ic
  <2>2. CASE Sender(s) = e /\ ~slots'[s].valid
    <3>1. slots'[s].client = Sender(s)
      BY <1>4 DEF Sender
    <3>2. ASSUME slots[s].valid, NEW i \in DOMAIN Queue', Asks(Queue'[i], Sender(s))
          PROVE  Queue'[i].major \in OfIc
      <4>1. s \in Valid
        BY <3>2 DEF Valid
      <4>2. Fitting(s)
        BY <4>1 DEF QInv
      <4> QED  BY <1>2, <2>2, <3>2, <4>2 DEF Fitting
    <3> QED  BY <2>2, <3>1, <3>2 DEF SlotFades
  <2> QED  BY <1>5, <2>1, <2>2
<1>8. \A s \in Valid : Sender(s) \in errors' => Sender(s) \in errors \/ Ic(s).valid
  BY <1>1
<1> QED  BY <1>3, <1>4, <1>6, <1>7, <1>8, Faded
---------------------------------------------------------------------------
\* The next event is taken, and is no message.
LEMMA HeadTaken ==
  ASSUME Types, Types', QInv, scan = 0, events # <<>>, events' = Tail(events),
         UNCHANGED <<eventQ, scan, held>>
  PROVE  \E p \in Nat : /\ p \in DOMAIN Queue /\ Queue[p] = Head(events)
                        /\ Taken(p) /\ Drops(Queue, p, Queue')
                        /\ Carried(WasAt(p)) /\ Quiet(WasAt(p))
                        /\ \A i \in DOMAIN Queue' : WasAt(p)[i] # p
<1>1. PICK p \in Nat : p = Len(eventQ) + 1
  BY DEF Types
<1>2. held = <<>> /\ p \in DOMAIN Queue /\ Queue[p] = Head(events)
  BY <1>1, HeadPlace
<1>3. Drops(Queue, p, Queue')
  <2>1. /\ scan = 0 /\ events # <<>> /\ p = Len(eventQ) + 1 /\ Tail(events) = Tail(events)
        /\ eventQ' = eventQ /\ held' = <<>>
    BY <1>1, <1>2
  <2> QED  BY <2>1, Dropped
<1>4. Taken(p)
  BY <1>1, <1>2 DEF Taken
<1>5. scan' \in {0, 1} /\ (scan > 0 => scan' = 1)
  OBVIOUS
<1>6. /\ Carried(WasAt(p)) /\ Quiet(WasAt(p))
      /\ \A i \in DOMAIN Queue' : WasAt(p)[i] # p
  BY <1>3, <1>4, <1>5, DropsQuiet
<1> QED  BY <1>2, <1>3, <1>4, <1>6

LEMMA NothingTold ==
  ASSUME Types, Types', QInv, NEW f, Carried(f), Quiet(f), UNCHANGED <<slots, errors, client>>
  PROVE  QInv'
<1>1. \A c \in Clients : ClientFades(c)
  BY DEF ClientFades, Alike, Valid, Sender
<1>2. \A s \in Valid : slots[s].sync # "" => Ic(s).valid
  BY DEF QInv, Fitting
<1>3. ASSUME NEW s \in DOMAIN slots  PROVE SlotFades(s)
  BY <1>2 DEF SlotFades, Same, Valid, Sender, Ic
<1> QED  BY <1>1, <1>3, Faded

\* What a client that has gone left and has been looked at is about its IC.
LEMMA LeftIsOfIc ==
  ASSUME Types, QInv, NEW p \in Nat, p \in DOMAIN Queue, Taken(p), NEW c \in Clients, Leaves(Queue[p], c),
         NEW s \in Valid, Sender(s) = c, NEW k \in DOMAIN Queue, k # p, Asks(Queue[k], c)
  PROVE  Queue[k].major \in OfIc
<1>1. ~(k > p)
  BY DEF QInv, Departed
<1>2. k < p
  <2>1. k \in Nat
    BY QueueFacts DEF QueueForm
  <2> QED  BY <1>1, <2>1
<1>3. Reviewed(k)
  BY <1>2, BeforeTaken
<1>4. slots[s].sync # "" /\ Fits(Queue[k], s)
  BY <1>3 DEF QInv, Fitting
<1>5. Ic(s).valid
  BY <1>4 DEF QInv, Fitting
<1> QED  BY <1>4, <1>5 DEF Fits

LEMMA DestroyedKept ==
  ASSUME Types, Types', QInv, TakeDestroyed
  PROVE  QInv'
<1>0. SoundQueue
  BY DEF QInv
<1>1. PICK c \in Clients :
         /\ Head(events).t = "DESTROYED" /\ Head(events).from = c
         /\ \/ UNCHANGED <<slots, errors, cxns, client, early>> /\ \A s \in Valid : Sender(s) # c
            \/ \E s \in Valid : Sender(s) = c /\ DisconnectClient(s, <<>>, {})
         /\ UNCHANGED <<eventQ, scan, held>>
         /\ scan = 0 /\ events # <<>> /\ events' = Tail(events)
  BY <1>0, DestroyedTurns
<1>2. PICK p \in Nat : /\ p \in DOMAIN Queue /\ Queue[p] = Head(events)
                       /\ Taken(p) /\ Drops(Queue, p, Queue')
                       /\ Carried(WasAt(p)) /\ Quiet(WasAt(p))
                       /\ \A i \in DOMAIN Queue' : WasAt(p)[i] # p
  BY <1>1, HeadTaken
<1>3. CASE UNCHANGED <<slots, errors, client>>
  BY <1>2, <1>3, NothingTold
<1>4. ASSUME NEW s \in Valid, Sender(s) = c, DisconnectClient(s, <<>>, {})  PROVE QInv'
  <2>0. s \in DOMAIN slots
    BY DEF Valid
  <2>1. Leaves(Queue[p], c)
    BY <1>1, <1>2 DEF Leaves
  <2>2. Gone(c)
    BY <1>2, <2>1 DEF QInv, Departed
  <2>3. PICK told, windows : told = <<>> /\ windows = {} /\ DisconnectClient(s, told, windows)
    BY <1>4
  <2>4. PICK v, y, i, cl : /\ v = FALSE /\ y = "" /\ i = [Ic(s) EXCEPT !.valid = FALSE]
                           /\ cl = slots[s].closed
    OBVIOUS
  <2>5. SlotBecomes(s, v, cl, y, i) /\ (Gone(c) => client' = client)
    BY <1>4, <2>0, <2>3, <2>4, LeaveTurns
  <2>6. SlotBecomes(s, v, cl, y, i) /\ client' = client
    BY <2>2, <2>5
  <2>7. /\ Len(slots') = Len(slots) /\ DOMAIN slots' = DOMAIN slots
        /\ slots'[s].client = slots[s].client /\ slots'[s].valid = v
        /\ slots'[s].closed = cl /\ slots'[s].sync = y /\ slots'[s].ic = i
        /\ \A r \in DOMAIN slots : r # s => slots'[r] = slots[r]
    BY <2>0, <2>6, SlotTurns
  <2>8. ASSUME NEW d \in Clients, d \in errors'  PROVE d \in errors
    <3>1. PICK called : Calls(c, called) /\ "comm" \notin called
      BY <1>4, <2>3 DEF DisconnectClient, CleanupCalls
    <3>2. d # "other"
      BY XimAssumption
    <3> QED  BY <2>8, <3>1, <3>2 DEF Calls
  <2>9. BadSlot(s)
    BY <2>4, <2>7 DEF BadSlot
  <2>10. \A r \in DOMAIN slots : slots'[r].client = slots[r].client
    BY <2>7
  <2>11. ASSUME NEW d \in Clients  PROVE ClientFades(d)
    <3>1. Alike(d) /\ client'[d].awaits = client[d].awaits /\ (d \in errors' => d \in errors)
      BY <2>6, <2>8 DEF Alike
    <3>2. ASSUME client[d].phase \in Present, NEW r \in Valid, Sender(r) = d
          PROVE  r \in DOMAIN slots' /\ slots'[r].valid /\ slots'[r].client = d
      <4>1. d # c
        BY <2>2, <3>2 DEF Gone, Present
      <4>2. r \in DOMAIN slots /\ r # s /\ slots[r].valid /\ slots[r].client = d
        BY <1>4, <3>2, <4>1 DEF Valid, Sender
      <4> QED  BY <2>7, <4>2
    <3> QED  BY <2>7, <2>10, <3>1, <3>2 DEF ClientFades
  <2>12. ASSUME NEW j \in DOMAIN Queue', Asks(Queue'[j], c)  PROVE Queue'[j].major \in OfIc
    <3>1. WasAt(p)[j] # 0
      BY <1>2, <2>12 DEF Quiet, Aloof
    <3>2. PICK k \in DOMAIN Queue : k # p /\ Queue'[j] = Queue[k]
      BY <1>2, <3>1 DEF Carried
    <3> QED  BY <1>2, <1>4, <2>1, <2>12, <3>2, LeftIsOfIc
  <2>13. ASSUME NEW r \in DOMAIN slots  PROVE SlotFades(r)
    <3>1. CASE r # s
      <4>1. slots'[r] = slots[r]
        BY <2>7, <3>1
      <4>2. r \in Valid /\ slots[r].sync # "" => Ic(r).valid
        BY DEF QInv, Fitting
      <4> QED  BY <4>1, <4>2 DEF SlotFades, Same, Valid, Sender, Ic
    <3>2. CASE r = s
      <4>1. slots'[s].client = Sender(s) /\ ~slots'[s].valid
        BY <2>9 DEF BadSlot, Sender
      <4>2. SlotFades(s)
        BY <1>4, <2>12, <4>1 DEF SlotFades
      <4> QED  BY <3>2, <4>2
    <3> QED  BY <3>1, <3>2
  <2>14. ASSUME NEW r \in Valid, Sender(r) \in errors'  PROVE Sender(r) \in errors
    <3>1. r \in DOMAIN slots
      BY DEF Valid
    <3>2. Sender(r) \in Clients
      BY <3>1, SenderFacts
    <3> QED  BY <2>8, <2>14, <3>2
  <2> QED  BY <1>2, <2>7, <2>11, <2>13, <2>14, Faded
<1> QED  BY <1>1, <1>3, <1>4

LEMMA RestartKept ==
  ASSUME Types, Types', QInv, TakeRestart
  PROVE  QInv'
<1>1. /\ DOMAIN slots' = DOMAIN slots
      /\ \A s \in DOMAIN slots : Renumbered(slots'[s], slots[s])
  BY RestartTurns
<1>2. /\ UNCHANGED <<errors, client, eventQ, scan, held>> /\ scan = 0 /\ events # <<>>
      /\ events' = Tail(events)
  BY DEF TakeRestart, TakenOnly, Taking
<1>3. PICK p \in Nat : Carried(WasAt(p)) /\ Quiet(WasAt(p))
  BY <1>2, HeadTaken
<1>4. ASSUME NEW s \in DOMAIN slots
      PROVE  /\ slots'[s].client = slots[s].client /\ slots'[s].valid = slots[s].valid
             /\ slots'[s].sync = slots[s].sync /\ Same(s)
  BY <1>1 DEF Renumbered, Same, Sender, Ic
<1>5. ASSUME NEW c \in Clients  PROVE ClientFades(c)
  <2>1. Alike(c) /\ client'[c].awaits = client[c].awaits /\ (c \in errors' => c \in errors)
    BY <1>2 DEF Alike
  <2> QED  BY <1>1, <1>4, <2>1 DEF ClientFades, Valid, Sender
<1>6. \A s \in Valid : slots[s].sync # "" => Ic(s).valid
  BY DEF QInv, Fitting
<1>7. ASSUME NEW s \in DOMAIN slots  PROVE SlotFades(s)
  BY <1>4, <1>6 DEF SlotFades, Valid, Sender
<1> QED  BY <1>1, <1>2, <1>3, <1>5, <1>7, Faded
---------------------------------------------------------------------------
\* A client is met, and gets a WxContext of its own.

LEMMA NewSlotIs ==
  ASSUME NEW c
  PROVE  /\ Slot(c).client = c /\ Slot(c).valid /\ ~Slot(c).closed /\ Slot(c).sync = ""
         /\ ~Slot(c).ic.used /\ ~Slot(c).ic.valid /\ Slot(c).ic.valid = FALSE
BY DEF Slot, NoIc

LEMMA NoneAskedKept ==
  ASSUME NEW f, Carried(f), NEW c, NewAloof(f, c), NoneAsked(c)
  PROVE  NoneAsked(c)'
<1>1. ASSUME NEW i \in DOMAIN Queue', Asks(Queue'[i], c)  PROVE FALSE
  <2>1. f[i] \in DOMAIN Queue /\ Queue'[i] = Queue[f[i]]
    BY <1>1, WasThere DEF Aloof
  <2> QED  BY <1>1, <2>1 DEF NoneAsked
<1> QED  BY <1>1 DEF NoneAsked

\* What the step is, seen from the clauses.
Meets(c, p, s) ==
    /\ p \in DOMAIN Queue /\ Dials(Queue[p], c)
    /\ Carried(WasAt(p)) /\ Quiet(WasAt(p)) /\ (\A i \in DOMAIN Queue' : WasAt(p)[i] # p)
    /\ NewSlot(c, s)
    /\ \A d \in Clients : d # c => client'[d] = client[d]
    /\ client'[c].imid = client[c].imid /\ client'[c].ic = client[c].ic
    /\ client'[c].phase = IF Gone(c) THEN "gone" ELSE "met"
    /\ \A d \in Clients : d \in errors' => d \in errors \/ (d = c /\ Gone(c))
LEMMA ConnectMeets ==
  ASSUME Types, Types', QInv, TakeConnect
  PROVE  \E c \in Clients : \E p \in Nat, s \in Nat : Meets(c, p, s)
<1>0. SoundQueue
  BY DEF QInv
<1>1. PICK c \in Clients :
         /\ Head(events).t = "CONNECT" /\ Head(events).from = c
         /\ \E s \in Nat : NewSlot(c, s)
         /\ ClientBecomes(c, "met", client[c].awaits, client[c].imid, client[c].ic)
         /\ ErrorsOf(c) /\ UNCHANGED <<cxns, early, eventQ, scan, held>>
         /\ scan = 0 /\ events # <<>> /\ events' = Tail(events)
  BY <1>0, ConnectTurns
<1>2. PICK s \in Nat : NewSlot(c, s)
  BY <1>1
<1>3. PICK p \in Nat : /\ p \in DOMAIN Queue /\ Queue[p] = Head(events)
                       /\ Taken(p) /\ Drops(Queue, p, Queue')
                       /\ Carried(WasAt(p)) /\ Quiet(WasAt(p))
                       /\ \A i \in DOMAIN Queue' : WasAt(p)[i] # p
  BY <1>1, HeadTaken
<1>4. Dials(Queue[p], c)
  BY <1>1, <1>3 DEF Dials
<1>5. PICK ph, a, n, b : /\ ph = "met" /\ a = client[c].awaits /\ n = client[c].imid /\ b = client[c].ic
                         /\ ClientBecomes(c, ph, a, n, b)
  BY <1>1
<1>6. ClientBecomes(c, ph, a, n, b)
  BY <1>5
<1>7. /\ \A d \in Clients : d # c => client'[d] = client[d]
      /\ Gone(c) => client'[c] = client[c]
      /\ ~Gone(c) => /\ client'[c].phase = ph /\ client'[c].awaits = a
                     /\ client'[c].imid = n /\ client'[c].ic = b
  BY <1>6, ClientTurns
<1>8. /\ client'[c].imid = client[c].imid /\ client'[c].ic = client[c].ic
      /\ client'[c].phase = IF Gone(c) THEN "gone" ELSE "met"
  BY <1>5, <1>7 DEF Gone
<1>9. \A d \in Clients : d \in errors' => d \in errors \/ (d = c /\ Gone(c))
  BY <1>1, ErrorTurns
<1> QED  BY <1>2, <1>3, <1>4, <1>7, <1>8, <1>9 DEF Meets

LEMMA ClientMet ==
  ASSUME Types, Types', QInv, NEW c \in Clients, NEW p \in Nat, NEW s \in Nat, Meets(c, p, s)
  PROVE  /\ NoneAsked(c)' /\ Introduced(c)' /\ Departed(c)' /\ Placed(c)' /\ InTurn(c)'
         /\ Gone(c)' \/ Knows(c, s)'
         /\ \A r \in DOMAIN slots : slots[r].client # c
<1>1. Introduced(c) /\ Departed(c)
  BY DEF QInv
<1>2. Unmet(c)
  BY DEF Meets, Unmet, Calling
<1>3. /\ \A r \in DOMAIN slots : slots[r].client # c
      /\ NoneAsked(c) /\ client[c].imid = 0 /\ ~client[c].ic
  BY <1>1, <1>2 DEF Introduced
<1>4. Carried(WasAt(p)) /\ NewAloof(WasAt(p), c) /\ NoLeaves(WasAt(p), c)
  BY DEF Meets, Quiet, NewAloof, NoLeaves
<1>5. NoneAsked(c)'
  BY <1>3, <1>4, NoneAskedKept
<1>6. \A i \in DOMAIN Queue' : ~Dials(Queue'[i], c)
  <2> SUFFICES ASSUME NEW i \in DOMAIN Queue', Dials(Queue'[i], c)  PROVE FALSE
    OBVIOUS
  <2>1. WasAt(p)[i] \in DOMAIN Queue /\ Queue'[i] = Queue[WasAt(p)[i]]
    BY <1>4, WasThere DEF Aloof
  <2>2. WasAt(p)[i] = p
    BY <1>1, <2>1 DEF Introduced, Meets
  <2> QED  BY <2>2 DEF Meets
<1>7. client'[c].phase \in {"met", "gone"}
  BY DEF Meets
<1>8. Introduced(c)'
  BY <1>6, <1>7 DEF Introduced, Unmet, Calling
<1>9. Departed(c)'
  <2>1. Gone(c) => Gone(c)'
    BY DEF Meets, Gone
  <2>2. c \in errors' => Gone(c)'
    BY <1>1, <2>1 DEF Meets, Departed
  <2> QED  BY <1>1, <1>4, <2>1, <2>2, DepartedKept
<1>10. s \in Valid' /\ Sender(s)' = c /\ slots'[s] = Slot(c)
  <2>1. slots'[s] = Slot(c) /\ s \in DOMAIN slots'
    BY DEF Meets, NewSlot
  <2> QED  BY <2>1, NewSlotIs DEF Valid, Sender
<1>11. client'[c].imid = 0 /\ ~client'[c].ic
  BY <1>3 DEF Meets
<1>12. Placed(c)'
  <2>1. Len(slots') \in Nat
    BY DEF Types
  <2>2. client'[c].imid <= Len(slots')
    BY <1>11, <2>1
  <2> QED  BY <1>10, <2>2 DEF Placed
<1>13. InTurn(c)'
  BY <1>5 DEF InTurn, NoneAsked
<1>14. Gone(c)' \/ Knows(c, s)'
  <2>1. /\ ~Slot(c).closed /\ ~Slot(c).ic.used /\ ~Slot(c).ic.valid
    BY NewSlotIs
  <2>2. ~slots'[s].closed /\ ~slots'[s].ic.used /\ slots'[s].ic.valid = FALSE
    BY <1>10, <2>1, NewSlotIs
  <2>6. client'[c].ic = FALSE
    <3>1. client'[c].ic \in BOOLEAN
      BY DEF Types, ClientType
    <3> QED  BY <1>11, <3>1
  <2>3. client'[c].phase = "gone" \/ client'[c].phase = "met"
    BY <1>7
  <2>4. CASE client'[c].phase = "gone"
    BY <2>4 DEF Gone
  <2>5. CASE client'[c].phase = "met"
    BY <1>11, <2>2, <2>5, <2>6 DEF Knows, Ic, Present
  <2> QED  BY <2>3, <2>4, <2>5
<1> QED  BY <1>3, <1>5, <1>8, <1>9, <1>12, <1>13, <1>14

LEMMA SlotMet ==
  ASSUME Types, Types', QInv, NEW c \in Clients, NEW p \in Nat, NEW s \in Nat, Meets(c, p, s)
  PROVE  Fitting(s)' /\ Cleared(s)'
<1>1. NoneAsked(c)' /\ (Gone(c)' \/ Knows(c, s)')
  BY ClientMet
<1>2. s \in DOMAIN slots' /\ slots'[s] = Slot(c) /\ (s \in DOMAIN slots => ~slots[s].valid)
  BY DEF Meets, NewSlot
<1>3. /\ slots'[s].client = c /\ slots'[s].sync = "" /\ slots'[s].valid
      /\ ~slots'[s].ic.used /\ ~slots'[s].ic.valid
  BY <1>2, NewSlotIs
<1>4. Fitting(s)'
  BY <1>1, <1>2, <1>3, FittingIfNone
<1>5. ASSUME NEW q \in DOMAIN Queue', Stray(Queue[q], s)'
      PROVE  Queue'[q].major \in OfIc /\ Rests(s, q)'
  <2>1. /\ Queue'[q].t = "MESSAGE" /\ Queue'[q].major \notin ByProxy \cup {"START_REPLY"}
        /\ Queue'[q].imid = s
    BY <1>5 DEF Stray
  <2>2. WasAt(p)[q] # 0
    BY <2>1 DEF Meets, Quiet
  <2>3. PICK k \in DOMAIN Queue : Queue'[q] = Queue[k]
    BY <2>2 DEF Meets, Carried
  <2>4. s \in DOMAIN slots
    <3>1. s <= Len(slots)
      BY <2>1, <2>3 DEF QInv, SoundQueue, Sound
    <3>2. s \notin DOMAIN slots => s > Len(slots)
      BY DEF Meets, NewSlot
    <3>3. Len(slots) \in Nat
      BY DEF Types
    <3>4. ~(s > Len(slots))
      BY <3>1, <3>3
    <3> QED  BY <3>2, <3>4
  <2>5. Stray(Queue[k], s)
    BY <1>2, <2>1, <2>3, <2>4 DEF Stray
  <2>6. Queue[k].major \in OfIc
    BY <2>4, <2>5 DEF QInv, Cleared
  <2>7. \A j \in DOMAIN Queue' : ~Asks(Queue'[j], c)
    BY <1>1 DEF NoneAsked
  <2>8. ~Gone(c)' => client'[c].phase = "met"
    BY DEF Meets, Gone
  <2>9. ~Connected(s)'
    BY <1>3, <2>7, <2>8 DEF Connected, Sender
  <2>10. Rests(s, q)'
    BY <1>3, <2>7, <2>8, <2>9 DEF Rests, Ic, Sender
  <2> QED  BY <2>3, <2>6, <2>10
<1>6. Cleared(s)'
  BY <1>5 DEF Cleared
<1> QED  BY <1>4, <1>6

LEMMA ConnectKept ==
  ASSUME Types, Types', QInv, TakeConnect
  PROVE  QInv'
<1>1. PICK c \in Clients : \E p \in Nat, s \in Nat : Meets(c, p, s)
  BY ConnectMeets
<1>2. PICK p \in Nat, s \in Nat : Meets(c, p, s)
  BY <1>1
<1>3. /\ Introduced(c)' /\ Departed(c)' /\ Placed(c)' /\ InTurn(c)'
      /\ \A r \in DOMAIN slots : slots[r].client # c
  BY <1>2, ClientMet
<1>4. Fitting(s)' /\ Cleared(s)'
  BY <1>2, SlotMet
<1>5. /\ Len(slots') >= Len(slots) /\ DOMAIN slots' = DOMAIN slots \cup {s} /\ slots'[s].client = c
      /\ s \in DOMAIN slots => ~slots[s].valid
      /\ \A r \in DOMAIN slots : r # s => slots'[r] = slots[r]
  <2>1. /\ Len(slots') >= Len(slots) /\ DOMAIN slots' = DOMAIN slots \cup {s} /\ slots'[s] = Slot(c)
        /\ s \in DOMAIN slots => ~slots[s].valid
        /\ \A r \in DOMAIN slots : r # s => slots'[r] = slots[r]
    BY <1>2 DEF Meets, NewSlot
  <2>2. slots'[s].client = c
    BY <2>1, NewSlotIs
  <2> QED  BY <2>1, <2>2
<1>6. Carried(WasAt(p)) /\ Quiet(WasAt(p))
  BY <1>2 DEF Meets
<1>7. SoundQueue'
  <2>1. \A i \in DOMAIN Queue' : WasAt(p)[i] = 0 => Sound(Queue[i])'
    BY <1>6 DEF Quiet
  <2>2. SoundQueue
    BY DEF QInv
  <2> QED  BY <1>5, <1>6, <2>1, <2>2, SoundKept
<1>8. OneSlot'
  <2>1. ASSUME NEW r \in DOMAIN slots', NEW q \in DOMAIN slots', slots'[r].client = slots'[q].client
        PROVE  r = q
    <3>1. r # s => r \in DOMAIN slots /\ slots'[r].client = slots[r].client /\ slots[r].client # c
      BY <1>3, <1>5
    <3>2. q # s => q \in DOMAIN slots /\ slots'[q].client = slots[q].client /\ slots[q].client # c
      BY <1>3, <1>5
    <3> QED  BY <1>5, <2>1, <3>1, <3>2 DEF QInv, OneSlot
  <2> QED  BY <2>1 DEF OneSlot
<1>9. ASSUME NEW d \in Clients, d # c
      PROVE  Introduced(d)' /\ Departed(d)' /\ Placed(d)' /\ InTurn(d)'
  <2>0. NewAloof(WasAt(p), d) /\ NoLeaves(WasAt(p), d)
    BY <1>6 DEF Quiet, NewAloof, NoLeaves
  <2>1. Alike(d) /\ client'[d].awaits = client[d].awaits
    BY <1>2, <1>9 DEF Alike, Meets
  <2>2. \A r \in Valid : Sender(r) = d => r \in DOMAIN slots' /\ slots'[r].valid /\ slots'[r].client = d
    BY <1>5 DEF Valid, Sender
  <2>3. \A r \in DOMAIN slots' : slots'[r].client = d => r \in DOMAIN slots /\ slots[r].client = d
    BY <1>5, <1>9
  <2>4. d \in errors' => d \in errors \/ Gone(d)
    BY <1>2, <1>9 DEF Meets
  <2>5. ClientFades(d)
    BY <2>1, <2>2, <2>3, <2>4 DEF ClientFades
  <2>6. Introduced(d) /\ Departed(d) /\ Placed(d) /\ InTurn(d)
    BY DEF QInv
  <2> QED  BY <1>5, <1>6, <2>0, <2>5, <2>6, ClientKept
<1>10. ASSUME NEW r \in DOMAIN slots', r # s
       PROVE  (r \in Valid' => Fitting(r)') /\ Cleared(r)'
  <2>0. r \in DOMAIN slots /\ slots'[r] = slots[r]
    BY <1>5, <1>10
  <2>1. PICK d \in Clients : d = Sender(r)
    BY <2>0, SenderFacts
  <2>2. d # c
    BY <1>3, <2>0, <2>1 DEF Sender
  <2>3. NewAloof(WasAt(p), d)
    BY <1>6 DEF Quiet, NewAloof
  <2>4. \A i \in DOMAIN Queue' : WasAt(p)[i] = 0 => ~Stray(Queue[i], r)'
    BY <1>6 DEF Quiet, Stray
  <2>5. (r \in Valid => Fitting(r)) /\ Cleared(r)
    BY <2>0 DEF QInv
  <2>6. Alike(d)
    BY <1>2, <2>2 DEF Alike, Meets
  <2>7. SlotFades(r)
    <3>1. r \in Valid /\ slots[r].sync # "" => Ic(r).valid
      BY <2>5 DEF Fitting
    <3> QED  BY <2>0, <3>1 DEF SlotFades, Same, Valid, Sender, Ic
  <2>8. slots'[r].valid /\ d \in errors' => d \in errors \/ Ic(r).valid
    BY <1>2, <2>2 DEF Meets
  <2> QED  BY <1>6, <2>0, <2>1, <2>3, <2>4, <2>5, <2>6, <2>7, <2>8, SlotKept
<1>11. \A d \in Clients : Introduced(d)' /\ Departed(d)' /\ Placed(d)' /\ InTurn(d)'
  BY <1>3, <1>9
<1>12. ASSUME NEW r \in DOMAIN slots'  PROVE (r \in Valid' => Fitting(r)') /\ Cleared(r)'
  BY <1>4, <1>10
<1> QED  BY <1>7, <1>8, <1>11, <1>12 DEF QInv, Valid
---------------------------------------------------------------------------
(* What clients and wime do.                                                *)

\* An event x comes, or nothing; the server has no part in the step.
Adds(x) ==
    /\ UNCHANGED <<slots, eventQ, held, scan, errors>>
    /\ Queue' = Queue \/ Longer(Queue', Queue, x, Len(Queue))
LEMMA AddsStill ==
  ASSUME Types, Types', NEW x, Adds(x)
  PROVE  /\ Carried(Still)
         /\ \A i \in DOMAIN Queue' : Still[i] = 0 => Queue'[i] = x
         /\ \A i \in DOMAIN Queue' : Still[i] = 0 => \A j \in DOMAIN Queue' : ~(j > i)
         /\ \A i \in DOMAIN Queue' : Still[i] # 0 => Still[i] = i /\ i \in DOMAIN Queue
         /\ \A i \in DOMAIN Queue' : Still[i] = 0 => i > Len(eventQ) + Len(held)
         /\ \A i \in DOMAIN Queue' : Still[i] = 0 => \A j \in DOMAIN Queue : i > j
         /\ \A i \in DOMAIN Queue : i \in DOMAIN Queue' /\ Queue'[i] = Queue[i]
<1>1. /\ Carried(Still)
      /\ \A i \in DOMAIN Queue' : Still[i] = 0 => Queue' # Queue /\ Queue'[i] = x
  BY StillCarried DEF Adds
<1>2. PICK n \in Nat, k \in Nat :
         /\ n = Len(Queue) /\ DOMAIN Queue = 1 .. n /\ k = Len(eventQ) + Len(held) /\ k <= n
  <2>1. Len(eventQ) + Len(held) \in Nat
    BY DEF Types
  <2> QED  BY <2>1, QueueFacts DEF QueueForm
<1>3. DOMAIN Queue' = 1 .. Len(Queue') /\ Len(Queue') \in Nat
  BY QueueFactsNext DEF QueueForm
<1>4. /\ Len(Queue') \in {n, n + 1}
      /\ \A i \in 1 .. n : i \in 1 .. Len(Queue') /\ Queue'[i] = Queue[i]
  <2>1. CASE Queue' = Queue
    BY <1>2, <2>1
  <2>2. CASE Longer(Queue', Queue, x, Len(Queue))
    BY <1>2, <2>2 DEF Longer
  <2> QED  BY <2>1, <2>2 DEF Adds
<1>5. \A i \in DOMAIN Queue' : Still[i] = IF i <= n THEN i ELSE 0
  BY <1>2 DEF Still
<1>6. ASSUME NEW i \in DOMAIN Queue', Still[i] = 0  PROVE i = n + 1 /\ Len(Queue') = n + 1
  <2>1. i \in Nat /\ i > 0 /\ i <= Len(Queue')
    BY <1>3
  <2>2. i > n
    BY <1>5, <1>6, <2>1
  <2> QED  BY <1>4, <2>1, <2>2
<1>7. ASSUME NEW i \in DOMAIN Queue', Still[i] = 0, NEW j \in DOMAIN Queue'  PROVE ~(j > i)
  <2>1. i = n + 1 /\ Len(Queue') = n + 1
    BY <1>6, <1>7
  <2>2. j \in 1 .. n + 1
    BY <1>3, <2>1
  <2> QED  BY <2>1, <2>2
<1>8. \A i \in DOMAIN Queue' : Still[i] # 0 => Still[i] = i /\ i \in DOMAIN Queue
  BY <1>2, <1>3, <1>5
<1>9. \A i \in DOMAIN Queue' : Still[i] = 0 => i > Len(eventQ) + Len(held)
  BY <1>2, <1>6
<1>10. \A i \in DOMAIN Queue' : Still[i] = 0 => \A j \in DOMAIN Queue : i > j
  BY <1>2, <1>6
<1>11. \A i \in DOMAIN Queue : i \in DOMAIN Queue' /\ Queue'[i] = Queue[i]
  BY <1>2, <1>3, <1>4
<1> QED  BY <1>1, <1>7, <1>8, <1>9, <1>10, <1>11

\* It says nothing that the clauses speak of.
LEMMA AddsQuiet ==
  ASSUME Types, Types', QInv, NEW x, Adds(x),
         \A c \in Clients : ~Asks(x, c) /\ ~Dials(x, c) /\ ~Leaves(x, c),
         x.imid <= Len(slots), x.from = "self" => x.t = "RESTART" \/ (x.t = "MESSAGE" /\ x.major = "ERROR"),
         x.t = "MESSAGE" => x.major \in ByProxy \cup {"START_REPLY"},
         \A c \in Clients : Alike(c) /\ client'[c].awaits = client[c].awaits
  PROVE  QInv'
<1>1. Carried(Still) /\ \A i \in DOMAIN Queue' : Still[i] = 0 => Queue'[i] = x
  BY AddsStill
<1>2. UNCHANGED <<slots, errors>>
  BY DEF Adds
<1>3. Quiet(Still)
  BY <1>1, <1>2 DEF Quiet, Aloof, Sound
<1>4. \A c \in Clients : ClientFades(c)
  BY <1>2 DEF ClientFades, Valid, Sender
<1>5. \A s \in Valid : slots[s].sync # "" => Ic(s).valid
  BY DEF QInv, Fitting
<1>6. ASSUME NEW s \in DOMAIN slots  PROVE SlotFades(s)
  BY <1>2, <1>5 DEF SlotFades, Same, Valid, Sender, Ic
<1> QED  BY <1>1, <1>2, <1>3, <1>4, <1>6, Faded

LEMMA ReplyKept ==
  ASSUME Types, Types', QInv, NEW c \in Clients, ReplyStart(c)
  PROVE  QInv'
<1>1. /\ Send(c, "MESSAGE", "START_REPLY", "") /\ UNCHANGED <<slots, eventQ, held, scan, errors>>
      /\ client' = [client EXCEPT ![c].owes = @ - 1]
  BY DEF ReplyStart, Apart
<1>2. "START_REPLY" \in Majors /\ "" \in Args /\ "MESSAGE" \in {"CONNECT", "MESSAGE", "DESTROYED"}
  BY DEF Majors, Args
<1>3. PICK t, major, arg : t = "MESSAGE" /\ major = "START_REPLY" /\ arg = ""
  OBVIOUS
<1>4. PICK x : EventIs(x, t, c, major, client[c].imid, arg) /\ Longer(Queue', Queue, x, Len(Queue))
  BY <1>1, <1>2, <1>3, SendComes
<1>5. Adds(x)
  BY <1>1, <1>4 DEF Adds
<1>6. x.t = "MESSAGE" /\ x.from = c /\ x.major = "START_REPLY" /\ x.imid = client[c].imid
  BY <1>3, <1>4 DEF EventIs
<1>7. client[c].imid <= Len(slots) /\ c # "self"
  BY XimAssumption DEF QInv, Placed
<1>8. \A d \in Clients : Alike(d) /\ client'[d].awaits = client[d].awaits
  BY <1>1 DEF Alike, Types, ClientType
<1>9. \A d \in Clients : ~Asks(x, d) /\ ~Dials(x, d) /\ ~Leaves(x, d)
  BY <1>6 DEF Asks, Dials, Leaves
<1> QED  BY <1>5, <1>6, <1>7, <1>8, <1>9, AddsQuiet

LEMMA WimeKept ==
  ASSUME Types, Types', QInv, WimeRestart
  PROVE  QInv'
<1>1. UNCHANGED <<slots, eventQ, held, scan, errors, client>>
  BY DEF WimeRestart, Apart
<1>2. PICK x : EventIs(x, "RESTART", "self", "", 0, "") /\ Longer(Queue', Queue, x, Len(Queue))
  BY RestartComes
<1>3. Adds(x)
  BY <1>1, <1>2 DEF Adds
<1>4. x.t = "RESTART" /\ x.imid = 0
  BY <1>2 DEF EventIs
<1>5. x.imid <= Len(slots)
  BY <1>4 DEF Types
<1>6. \A d \in Clients : Alike(d) /\ client'[d].awaits = client[d].awaits
  BY <1>1 DEF Alike
<1>7. \A d \in Clients : ~Asks(x, d) /\ ~Dials(x, d) /\ ~Leaves(x, d)
  BY <1>4 DEF Asks, Dials, Leaves
<1> QED  BY <1>3, <1>4, <1>5, <1>6, <1>7, AddsQuiet
---------------------------------------------------------------------------
\* What comes from a client leaves the clauses about the others.
From(x, c) ==
    /\ \A d \in Clients : d # c => /\ ~Asks(x, d) /\ ~Dials(x, d) /\ ~Leaves(x, d)
                                   /\ client'[d] = client[d]
    /\ x.imid <= Len(slots) /\ x.from # "self"
LEMMA OthersKept ==
  ASSUME Types, Types', QInv, NEW x, Adds(x), NEW c \in Clients, From(x, c)
  PROVE  /\ SoundQueue' /\ OneSlot'
         /\ \A d \in Clients : d # c => Introduced(d)' /\ Departed(d)' /\ Placed(d)' /\ InTurn(d)'
         /\ \A r \in DOMAIN slots : Sender(r) # c /\ ~Stray(x, r)
               => (r \in Valid' => Fitting(r)') /\ Cleared(r)'
<1>1. Carried(Still) /\ \A i \in DOMAIN Queue' : Still[i] = 0 => Queue'[i] = x
  BY AddsStill
<1>2. UNCHANGED <<slots, errors>>
  BY DEF Adds
<1>3. SoundQueue'
  <2>1. \A i \in DOMAIN Queue' : Still[i] = 0 => Sound(Queue[i])'
    BY <1>1, <1>2 DEF From, Sound
  <2>2. SoundQueue
    BY DEF QInv
  <2>3. Len(slots') >= Len(slots)
    <3>1. Len(slots) \in Nat
      BY DEF Types
    <3> QED  BY <1>2, <3>1
  <2> QED  BY <1>1, <2>1, <2>2, <2>3, SoundKept
<1>4. OneSlot'
  BY <1>2 DEF QInv, OneSlot
<1>5. ASSUME NEW d \in Clients, d # c
      PROVE  /\ NewAloof(Still, d) /\ NoLeaves(Still, d)
             /\ Alike(d) /\ client'[d].awaits = client[d].awaits
             /\ Introduced(d)' /\ Departed(d)' /\ Placed(d)' /\ InTurn(d)'
  <2>1. NewAloof(Still, d) /\ NoLeaves(Still, d)
    BY <1>1, <1>5 DEF From, NewAloof, NoLeaves, Aloof
  <2>2. Alike(d) /\ client'[d].awaits = client[d].awaits
    BY <1>5 DEF From, Alike
  <2>3. ClientFades(d)
    BY <1>2, <2>2 DEF ClientFades, Valid, Sender
  <2>4. Introduced(d) /\ Departed(d) /\ Placed(d) /\ InTurn(d)
    BY DEF QInv
  <2>5. Len(slots') >= Len(slots)
    <3>1. Len(slots) \in Nat
      BY DEF Types
    <3> QED  BY <1>2, <3>1
  <2>6. Introduced(d)' /\ Departed(d)' /\ Placed(d)' /\ InTurn(d)'
    BY <1>1, <2>1, <2>3, <2>4, <2>5, ClientKept
  <2> QED  BY <2>1, <2>2, <2>6
<1>6. ASSUME NEW r \in DOMAIN slots, Sender(r) # c, ~Stray(x, r)
      PROVE  (r \in Valid' => Fitting(r)') /\ Cleared(r)'
  <2>1. PICK d \in Clients : d = Sender(r) /\ d # c
    BY <1>6, SenderFacts
  <2>2. NewAloof(Still, d) /\ Alike(d)
    BY <1>5, <2>1
  <2>3. \A i \in DOMAIN Queue' : Still[i] = 0 => ~Stray(Queue[i], r)'
    BY <1>1, <1>2, <1>6 DEF Stray, Sender
  <2>4. (r \in Valid => Fitting(r)) /\ Cleared(r)
    BY DEF QInv
  <2>5. SlotFades(r)
    <3>1. r \in Valid /\ slots[r].sync # "" => Ic(r).valid
      BY <2>4 DEF Fitting
    <3> QED  BY <1>2, <3>1 DEF SlotFades, Same, Valid, Sender, Ic
  <2>6. slots'[r].valid /\ d \in errors' => d \in errors \/ Ic(r).valid
    BY <1>2
  <2>7. r \in DOMAIN slots'
    BY <1>2
  <2> QED  BY <1>1, <2>1, <2>2, <2>3, <2>4, <2>5, <2>6, <2>7, SlotKept
<1> QED  BY <1>3, <1>4, <1>5, <1>6

LEMMA PreconnectKept ==
  ASSUME Types, Types', QInv, NEW c \in Clients, Preconnect(c)
  PROVE  QInv'
<1>1. /\ Send(c, "CONNECT", "", "") /\ UNCHANGED <<slots, eventQ, held, scan, errors>>
      /\ client' = [client EXCEPT ![c].phase = "asked"] /\ client[c].phase = "new"
  BY DEF Preconnect, Apart
<1>2. "" \in Majors /\ "" \in Args /\ "CONNECT" \in {"CONNECT", "MESSAGE", "DESTROYED"}
  BY DEF Majors, Args
<1>3. PICK t, major, arg : t = "CONNECT" /\ major = "" /\ arg = ""
  OBVIOUS
<1>4. PICK x : EventIs(x, t, c, major, client[c].imid, arg) /\ Longer(Queue', Queue, x, Len(Queue))
  BY <1>1, <1>2, <1>3, SendComes
<1>5. Adds(x)
  BY <1>1, <1>4 DEF Adds
<1>6. x.t = "CONNECT" /\ x.from = c /\ x.imid = client[c].imid
  BY <1>3, <1>4 DEF EventIs
<1>7. client[c].imid <= Len(slots) /\ c # "self"
  BY XimAssumption DEF QInv, Placed
<1>8. /\ \A d \in Clients : d # c => client'[d] = client[d]
      /\ client'[c].phase = "asked" /\ client'[c].imid = client[c].imid
      /\ client'[c].ic = client[c].ic /\ client'[c].awaits = client[c].awaits
  BY <1>1 DEF Types, ClientType
<1>9. From(x, c)
  BY <1>6, <1>7, <1>8 DEF From, Asks, Dials, Leaves
<1>10. Introduced(c) /\ Departed(c)
  BY DEF QInv
<1>11. /\ \A s \in DOMAIN slots : slots[s].client # c
       /\ NoneAsked(c) /\ client[c].imid = 0 /\ ~client[c].ic /\ client[c].awaits = ""
       /\ ~Calling(c) /\ ~Gone(c)
  BY <1>1, <1>10 DEF Introduced, Unmet, Gone
<1>12. /\ Carried(Still)
       /\ \A i \in DOMAIN Queue' : Still[i] = 0 => Queue'[i] = x
       /\ \A i \in DOMAIN Queue' : Still[i] # 0 => Still[i] = i /\ i \in DOMAIN Queue
       /\ \A i \in DOMAIN Queue : i \in DOMAIN Queue' /\ Queue'[i] = Queue[i]
       /\ \A i \in DOMAIN Queue' : Still[i] = 0 => \A j \in DOMAIN Queue' : ~(j > i)
  BY <1>5, AddsStill
<1>13. NoneAsked(c)'
  <2>1. ~Asks(x, c)
    BY <1>6 DEF Asks
  <2> QED  BY <1>11, <1>12, <2>1 DEF NoneAsked
<1>14. \A i, j \in DOMAIN Queue' : Dials(Queue'[i], c) /\ Dials(Queue'[j], c) => i = j
  <2>1. \A i \in DOMAIN Queue' : Dials(Queue'[i], c) => Still[i] = 0
    BY <1>11, <1>12 DEF Calling
  <2>2. \A i \in DOMAIN Queue' : i \in Nat
    BY QueueFactsNext DEF QueueForm
  <2>3. ASSUME NEW i \in DOMAIN Queue', NEW j \in DOMAIN Queue', Still[i] = 0, Still[j] = 0  PROVE i = j
    BY <1>12, <2>2, <2>3
  <2> QED  BY <2>1, <2>3
<1>15. Introduced(c)'
  <2>1. \A s \in DOMAIN slots' : slots'[s].client # c
    BY <1>1, <1>11
  <2> QED  BY <1>8, <1>11, <1>13, <1>14, <2>1 DEF Introduced
<1>16. Departed(c)'
  <2>1. c \notin errors'
    BY <1>1, <1>10, <1>11 DEF Departed
  <2>2. \A j \in DOMAIN Queue' : ~Leaves(Queue'[j], c)
    <3>1. ~Leaves(x, c)
      BY <1>6 DEF Leaves
    <3> QED  BY <1>10, <1>11, <1>12, <3>1 DEF Departed
  <2> QED  BY <2>1, <2>2 DEF Departed
<1>17. Placed(c)'
  BY <1>1, <1>7, <1>8 DEF Placed, Present
<1>18. InTurn(c)'
  BY <1>13 DEF InTurn, NoneAsked
<1>19. ASSUME NEW r \in DOMAIN slots'  PROVE (r \in Valid' => Fitting(r)') /\ Cleared(r)'
  <2>1. r \in DOMAIN slots /\ Sender(r) # c
    BY <1>1, <1>11 DEF Sender
  <2>2. ~Stray(x, r)
    BY <1>6 DEF Stray
  <2> QED  BY <1>5, <1>9, <2>1, <2>2, OthersKept
<1>20. /\ SoundQueue' /\ OneSlot'
       /\ \A d \in Clients : d # c => Introduced(d)' /\ Departed(d)' /\ Placed(d)' /\ InTurn(d)'
  BY <1>5, <1>9, OthersKept
<1>21. \A d \in Clients : Introduced(d)' /\ Departed(d)' /\ Placed(d)' /\ InTurn(d)'
  BY <1>15, <1>16, <1>17, <1>18, <1>20
<1> QED  BY <1>19, <1>20, <1>21 DEF QInv, Valid
---------------------------------------------------------------------------
\* A client goes, and the notice of it, if there is one, comes after all else.
LEMMA DieAdds ==
  ASSUME Types, NEW c \in Clients, Die(c)
  PROVE  /\ \E x : Adds(x) /\ x.t = "DESTROYED" /\ x.from = c /\ x.imid = client[c].imid
         /\ client[c].phase \notin {"new", "gone"}
         /\ \A d \in Clients : d # c => client'[d] = client[d]
         /\ client'[c].phase = "gone" /\ client'[c].imid = client[c].imid
         /\ ~client'[c].ic /\ client'[c].awaits = ""
<1>1. /\ UNCHANGED <<slots, eventQ, held, scan, errors>> /\ client[c].phase \notin {"new", "gone"}
      /\ client' = [client EXCEPT ![c] = [NoClient EXCEPT !.phase = "gone", !.imid = client[c].imid]]
  BY DEF Die, Apart
<1>2. /\ \A d \in Clients : d # c => client'[d] = client[d]
      /\ client'[c] = [NoClient EXCEPT !.phase = "gone", !.imid = client[c].imid]
  BY <1>1 DEF Types
<1>3. /\ client'[c].phase = "gone" /\ client'[c].imid = client[c].imid
      /\ ~client'[c].ic /\ client'[c].awaits = ""
  BY <1>2 DEF NoClient
<1>4. CASE events' = events
  <2>1. Queue' = Queue
    BY <1>1, <1>4 DEF Queue
  <2>2. PICK x : x = [t |-> "DESTROYED", from |-> c, imid |-> client[c].imid]
    OBVIOUS
  <2>3. Adds(x) /\ x.t = "DESTROYED" /\ x.from = c /\ x.imid = client[c].imid
    BY <1>1, <2>1, <2>2 DEF Adds
  <2> QED  BY <1>1, <1>2, <1>3, <2>3
<1>5. CASE Send(c, "DESTROYED", "", "")
  <2>1. "" \in Majors /\ "" \in Args /\ "DESTROYED" \in {"CONNECT", "MESSAGE", "DESTROYED"}
    BY DEF Majors, Args
  <2>2. PICK t, major, arg : t = "DESTROYED" /\ major = "" /\ arg = ""
    OBVIOUS
  <2>3. PICK x : EventIs(x, t, c, major, client[c].imid, arg) /\ Longer(Queue', Queue, x, Len(Queue))
    BY <1>1, <1>5, <2>1, <2>2, SendComes
  <2>4. Adds(x) /\ x.t = "DESTROYED" /\ x.from = c /\ x.imid = client[c].imid
    BY <1>1, <2>2, <2>3 DEF Adds, EventIs
  <2> QED  BY <1>1, <1>2, <1>3, <2>4
<1> QED  BY <1>4, <1>5 DEF Die

LEMMA DieKept ==
  ASSUME Types, Types', QInv, NEW c \in Clients, Die(c)
  PROVE  QInv'
<1>1. PICK x : Adds(x) /\ x.t = "DESTROYED" /\ x.from = c /\ x.imid = client[c].imid
  BY DieAdds
<1>2. /\ client[c].phase \notin {"new", "gone"}
      /\ \A d \in Clients : d # c => client'[d] = client[d]
      /\ client'[c].phase = "gone" /\ client'[c].imid = client[c].imid
      /\ ~client'[c].ic /\ client'[c].awaits = ""
  BY DieAdds
<1>3. client[c].imid <= Len(slots) /\ c # "self"
  BY XimAssumption DEF QInv, Placed
<1>4. From(x, c)
  BY <1>1, <1>2, <1>3 DEF From, Asks, Dials, Leaves
<1>5. UNCHANGED <<slots, errors>>
  BY <1>1 DEF Adds
<1>6. Introduced(c) /\ Departed(c) /\ InTurn(c)
  BY DEF QInv
<1>7. /\ Carried(Still)
      /\ \A i \in DOMAIN Queue' : Still[i] = 0 => Queue'[i] = x
      /\ \A i \in DOMAIN Queue' : Still[i] # 0 => Still[i] = i /\ i \in DOMAIN Queue
      /\ \A i \in DOMAIN Queue : i \in DOMAIN Queue' /\ Queue'[i] = Queue[i]
      /\ \A i \in DOMAIN Queue' : Still[i] = 0 => \A j \in DOMAIN Queue' : ~(j > i)
  BY <1>1, AddsStill
<1>8. NewAloof(Still, c)
  BY <1>1, <1>7 DEF NewAloof, Aloof, Asks, Dials
<1>9. Gone(c)' /\ ~Gone(c)
  BY <1>2 DEF Gone
<1>10. Introduced(c)'
  <2>1. \A s \in DOMAIN slots' : slots'[s].client = c => s \in DOMAIN slots /\ slots[s].client = c
    BY <1>5
  <2> QED  BY <1>2, <1>6, <1>7, <1>8, <2>1, IntroducedKept
<1>11. Departed(c)'
  <2>1. ASSUME NEW j \in DOMAIN Queue', Leaves(Queue'[j], c)
        PROVE  \A i \in DOMAIN Queue' : i > j => ~Asks(Queue'[i], c)
    <3>1. Still[j] = 0
      BY <1>6, <1>7, <1>9, <2>1 DEF Departed
    <3> QED  BY <1>7, <3>1
  <2> QED  BY <1>9, <2>1 DEF Departed
<1>12. Placed(c)'
  BY <1>2, <1>3, <1>5 DEF Placed, Present
<1>13. InTurn(c)'
  BY <1>6, <1>7, <1>8, <1>9, InTurnKept
<1>14. /\ SoundQueue' /\ OneSlot'
       /\ \A d \in Clients : d # c => Introduced(d)' /\ Departed(d)' /\ Placed(d)' /\ InTurn(d)'
  BY <1>1, <1>4, OthersKept
<1>15. ASSUME NEW s \in DOMAIN slots'  PROVE (s \in Valid' => Fitting(s)') /\ Cleared(s)'
  <2>0. s \in DOMAIN slots /\ ~Stray(x, s)
    BY <1>1, <1>5 DEF Stray
  <2>1. CASE Sender(s) # c
    BY <1>1, <1>4, <2>0, <2>1, OthersKept
  <2>2. CASE Sender(s) = c
    <3>1. s \in Valid' => s \in Valid
      BY <1>5 DEF Valid
    <3>2. s \in Valid => Fitting(s)'
      <4> SUFFICES ASSUME s \in Valid  PROVE Fitting(s)'
        OBVIOUS
      <4>1. Fitting(s)
        BY DEF QInv
      <4>2. Same(s)
        BY <1>5 DEF Same, Sender, Ic
      <4>3. slots'[s].sync # "" => Ic(s).valid
        BY <1>5, <4>1 DEF Fitting
      <4>4. slots'[s].sync = slots[s].sync /\ (c \in errors' => c \in errors)
        BY <1>5
      <4> QED  BY <1>7, <1>8, <1>9, <2>0, <2>2, <4>1, <4>2, <4>3, <4>4, FittingKept
    <3>3. Cleared(s)'
      <4>1. Cleared(s)
        BY <2>0 DEF QInv
      <4>2. slots'[s].client = c
        BY <1>5, <2>2 DEF Sender
      <4>3. \A i \in DOMAIN Queue' : Still[i] = 0 => ~Stray(Queue[i], s)'
        BY <1>1, <1>7 DEF Stray
      <4>4. slots'[s].valid => /\ slots[s].valid /\ slots'[s].ic.used = Ic(s).used
                               /\ slots'[s].sync = "" \/ Ic(s).used
                               /\ client'[c].phase = client[c].phase \/ Gone(c)'
        <5>1. s \in Valid => (slots[s].sync # "" => Ic(s).used)
          BY DEF QInv, Fitting
        <5> QED  BY <1>5, <1>9, <2>0, <5>1 DEF Valid, Ic
      <4>5. ~(slots[s].valid /\ ~slots'[s].valid)
        BY <1>5
      <4> QED  BY <1>7, <1>8, <2>0, <2>2, <4>1, <4>2, <4>3, <4>4, <4>5, ClearedKept
    <3> QED  BY <3>1, <3>2, <3>3
  <2> QED  BY <2>1, <2>2
<1>16. \A d \in Clients : Introduced(d)' /\ Departed(d)' /\ Placed(d)' /\ InTurn(d)'
  BY <1>10, <1>11, <1>12, <1>13, <1>14
<1> QED  BY <1>14, <1>15, <1>16 DEF QInv, Valid
---------------------------------------------------------------------------
\* A client asks what it may ask.
LEMMA StepIsPair ==
  ASSUME NEW c, NEW q \in Steps(c)
  PROVE  \E m, a : q = <<m, a>>
<1>1. CASE client[c].phase = "met"
  BY <1>1 DEF Steps
<1>2. CASE client[c].phase = "connected"
  BY <1>2 DEF Steps
<1>3. CASE client[c].phase = "open" /\ ~client[c].ic
  <2>1. \/ q = <<"ENCODING", "ctext">> \/ q = <<"ENCODING", "other">> \/ q = <<"QUERY_EXT", "">>
        \/ q = <<"GET_IM", "">> \/ q = <<"CLOSE", "">> \/ \E st \in Styles : q = <<"CREATE_IC", st>>
    BY <1>3 DEF Steps
  <2> QED  BY <2>1
<1>4. CASE client[c].phase = "open" /\ client[c].ic
  <2>1. PICK m \in OfIc : q = <<m, "">>
    BY <1>4 DEF Steps, OfIc
  <2> QED  BY <2>1
<1>5. CASE client[c].phase = "closed"
  BY <1>5 DEF Steps
<1>6. Steps(c) # {}
  OBVIOUS
<1>7. client[c].phase \in {"met", "connected", "closed"} \/ client[c].phase = "open"
  BY <1>6 DEF Steps
<1> QED  BY <1>1, <1>2, <1>3, <1>4, <1>5, <1>7

AsksNow(c, x) ==
    /\ x.t = "MESSAGE" /\ x.from = c /\ x.imid = client[c].imid
    /\ <<x.major, x.arg>> \in Steps(c) /\ x.major \in Majors \ {"", "START_REPLY", "ERROR"}
LEMMA RequestAdds ==
  ASSUME Types, NEW c \in Clients, Request(c)
  PROVE  /\ \E x : /\ Adds(x) /\ AsksNow(c, x)
                   /\ client'[c].awaits = IF x.major \in Unanswered THEN client[c].awaits ELSE x.major
         /\ client[c].awaits = ""
         /\ \A d \in Clients : d # c => client'[d] = client[d]
         /\ client'[c].phase = client[c].phase /\ client'[c].imid = client[c].imid
         /\ client'[c].ic = client[c].ic
<1>1. PICK q \in Steps(c) :
         /\ client[c].awaits = ""
         /\ client' = IF q[1] \in Unanswered THEN client ELSE [client EXCEPT ![c].awaits = q[1]]
         /\ Send(c, "MESSAGE", q[1], q[2]) /\ UNCHANGED <<slots, eventQ, held, scan, errors>>
  BY DEF Request, Apart
<1>2. q[1] \in Majors \ {"", "START_REPLY", "ERROR"} /\ q[2] \in Args
  BY StepsAre
<1>3. PICK m, a : q = <<m, a>>
  BY StepIsPair
<1>4. m = q[1] /\ a = q[2] /\ <<m, a>> \in Steps(c)
  BY <1>3
<1>5. PICK t \in {"CONNECT", "MESSAGE", "DESTROYED"} : t = "MESSAGE"
  OBVIOUS
<1>6. m \in Majors /\ a \in Args /\ Send(c, t, m, a) /\ UNCHANGED <<eventQ, held>>
  BY <1>1, <1>2, <1>4, <1>5
<1>7. PICK x : EventIs(x, t, c, m, client[c].imid, a) /\ Longer(Queue', Queue, x, Len(Queue))
  BY <1>6, SendComes
<1>8. Adds(x)
  BY <1>1, <1>7 DEF Adds
<1>9. AsksNow(c, x) /\ x.major = m
  BY <1>2, <1>4, <1>5, <1>7 DEF AsksNow, EventIs
<1>10. /\ \A d \in Clients : d # c => client'[d] = client[d]
       /\ client'[c].phase = client[c].phase /\ client'[c].imid = client[c].imid
       /\ client'[c].ic = client[c].ic
       /\ client'[c].awaits = IF m \in Unanswered THEN client[c].awaits ELSE m
  <2>1. client' = IF m \in Unanswered THEN client ELSE [client EXCEPT ![c].awaits = m]
    BY <1>1, <1>4
  <2> QED  BY <2>1 DEF Types, ClientType
<1> QED  BY <1>1, <1>8, <1>9, <1>10
---------------------------------------------------------------------------
LEMMA NowFits ==
  ASSUME NEW s, NEW c, Knows(c, s), NEW x, AsksNow(c, x)
  PROVE  /\ Fits(x, s)
         /\ client[c].phase = "met" => x.major = "CONNECT"
         /\ client[c].phase = "connected" => x.major = "OPEN"
         /\ client[c].phase \in Present
<1>1. Timely(x.major, c)
  BY StepsTimely DEF AsksNow
<1>2. x.major \in {"CONNECT", "OPEN", "DISCONNECT"} \cup OfIm \cup OfIc
  BY DEF AsksNow, Majors, OfIm
<1>3. CASE x.major = "CONNECT"
  BY <1>1, <1>3 DEF Timely, Knows, Fits, OfIc, ByProxy
<1>4. CASE x.major = "OPEN"
  BY <1>1, <1>4 DEF Timely, Knows, Fits, OfIc, ByProxy
<1>5. CASE x.major = "DISCONNECT"
  BY <1>1, <1>5 DEF Timely, Knows, Fits, OfIc, ByProxy
<1>6. CASE x.major \in OfIm
  <2>1. x.major \notin OfIc /\ x.major \notin {"CONNECT", "OPEN"} /\ x.major # "DISCONNECT"
    BY <1>6 DEF OfIm, OfIc
  <2>2. client[c].phase = "open" /\ ~client[c].ic /\ x.imid = client[c].imid
    BY <1>1, <1>6 DEF Timely, AsksNow
  <2> QED  BY <2>1, <2>2 DEF Knows, Fits
<1>7. CASE x.major \in OfIc
  <2>1. x.major \notin {"CONNECT", "OPEN"} /\ x.major # "DISCONNECT"
    BY <1>7 DEF OfIc
  <2>2. client[c].phase = "open" /\ client[c].ic /\ x.imid = client[c].imid
    BY <1>1, <1>7 DEF Timely, AsksNow
  <2> QED  BY <1>7, <2>1, <2>2 DEF Knows, Fits
<1> QED  BY <1>2, <1>3, <1>4, <1>5, <1>6, <1>7

\* What the step is, seen from the clauses; s is the client's slot.
AsksNew(c, x, s) ==
    /\ Adds(x) /\ AsksNow(c, x) /\ From(x, c)
    /\ s \in Valid /\ Sender(s) = c /\ Knows(c, s) /\ ~Gone(c) /\ client[c].awaits = ""
    /\ \A d \in Clients : d # c => client'[d] = client[d]
    /\ client'[c].phase = client[c].phase /\ client'[c].imid = client[c].imid
    /\ client'[c].ic = client[c].ic
    /\ x.major \notin Unanswered => client'[c].awaits # ""
LEMMA RequestIs ==
  ASSUME Types, QInv, NEW c \in Clients, Request(c)
  PROVE  \E x, s : AsksNew(c, x, s)
<1>1. PICK x : /\ Adds(x) /\ AsksNow(c, x)
               /\ client'[c].awaits = IF x.major \in Unanswered THEN client[c].awaits ELSE x.major
  BY RequestAdds
<1>2. /\ client[c].awaits = ""
      /\ \A d \in Clients : d # c => client'[d] = client[d]
      /\ client'[c].phase = client[c].phase /\ client'[c].imid = client[c].imid
      /\ client'[c].ic = client[c].ic
  BY RequestAdds
<1>3. Timely(x.major, c) /\ Steps(c) # {}
  BY <1>1, StepsTimely DEF AsksNow
<1>4. client[c].phase \in Present
  BY <1>3 DEF Steps, Present
<1>5. PICK s \in Valid : Sender(s) = c
  BY <1>4 DEF QInv, Placed
<1>6. ~Gone(c)
  BY <1>4 DEF Gone, Present
<1>7. Knows(c, s)
  BY <1>5, <1>6 DEF QInv, Fitting
<1>8. client[c].imid <= Len(slots) /\ c # "self"
  BY XimAssumption DEF QInv, Placed
<1>9. From(x, c)
  BY <1>1, <1>2, <1>8 DEF From, AsksNow, Asks, Dials, Leaves
<1>10. x.major \notin Unanswered => client'[c].awaits # ""
  BY <1>1 DEF AsksNow
<1> QED  BY <1>1, <1>2, <1>5, <1>6, <1>7, <1>9, <1>10 DEF AsksNew

LEMMA AskerKept ==
  ASSUME Types, Types', QInv, NEW c \in Clients, NEW x, NEW s, AsksNew(c, x, s)
  PROVE  Introduced(c)' /\ Departed(c)' /\ Placed(c)' /\ InTurn(c)'
<1>1. Introduced(c) /\ Departed(c) /\ Placed(c) /\ InTurn(c)
  BY DEF QInv
<1>2. UNCHANGED <<slots, errors>>
  BY DEF AsksNew, Adds
<1>3. /\ \A i \in DOMAIN Queue' : Still[i] = 0 => Queue'[i] = x
      /\ \A i \in DOMAIN Queue' : Still[i] # 0 => Still[i] = i /\ i \in DOMAIN Queue
      /\ \A i \in DOMAIN Queue : i \in DOMAIN Queue' /\ Queue'[i] = Queue[i]
      /\ \A i \in DOMAIN Queue' : Still[i] = 0 => \A j \in DOMAIN Queue' : ~(j > i)
  BY AddsStill DEF AsksNew
<1>4. \A i \in DOMAIN Queue' : Queue'[i] = x \/ (i \in DOMAIN Queue /\ Queue'[i] = Queue[i])
  BY <1>3
<1>5. ~Unmet(c)
  BY <1>1 DEF AsksNew, Introduced, Valid, Sender
<1>6. ~Dials(x, c) /\ ~Leaves(x, c)
  BY DEF AsksNew, AsksNow, Dials, Leaves
<1>7. \A i \in DOMAIN Queue' : ~Dials(Queue'[i], c)
  BY <1>4, <1>5, <1>6 DEF Unmet, Calling
<1>8. Introduced(c)'
  BY <1>5, <1>7 DEF Introduced, Unmet, Calling, AsksNew
<1>9. Departed(c)'
  <2>1. c \notin errors'
    BY <1>1, <1>2 DEF Departed, AsksNew
  <2>2. \A j \in DOMAIN Queue' : ~Leaves(Queue'[j], c)
    BY <1>1, <1>4, <1>6 DEF Departed, AsksNew
  <2> QED  BY <2>1, <2>2 DEF Departed
<1>10. Placed(c)'
  <2>1. s \in Valid' /\ Sender(s)' = c
    BY <1>2 DEF AsksNew, Valid, Sender
  <2> QED  BY <1>1, <1>2, <2>1 DEF Placed, AsksNew
<1>11. \A i \in DOMAIN Queue : Asks(Queue[i], c) => Queue[i].major \in Unanswered
  BY <1>1 DEF InTurn, AsksNew
<1>12. Steps(c)' = Steps(c)
  BY DEF AsksNew, Steps
<1>13. ASSUME NEW i \in DOMAIN Queue', NEW j \in DOMAIN Queue', Asks(Queue'[i], c), Asks(Queue'[j], c), i < j
       PROVE  Queue'[i].major \in Unanswered
  <2>1. i \in Nat /\ j \in Nat
    BY QueueFactsNext DEF QueueForm
  <2>2. Still[i] # 0
    BY <1>3, <1>13, <2>1
  <2> QED  BY <1>3, <1>11, <1>13, <2>2
<1>14. ASSUME NEW i \in DOMAIN Queue', Asks(Queue'[i], c)
       PROVE  /\ Queue'[i].major \notin Unanswered => client'[c].awaits # ""
              /\ <<Queue'[i].major, Queue'[i].arg>> \in Steps(c)
  <2>1. CASE Queue'[i] = x
    BY <2>1 DEF AsksNew, AsksNow
  <2>2. CASE i \in DOMAIN Queue /\ Queue'[i] = Queue[i]
    BY <1>1, <1>11, <1>14, <2>2 DEF InTurn, AsksNew
  <2> QED  BY <1>4, <2>1, <2>2
<1>15. InTurn(c)'
  BY <1>12, <1>13, <1>14 DEF InTurn
<1> QED  BY <1>8, <1>9, <1>10, <1>15
---------------------------------------------------------------------------
LEMMA AskerFits ==
  ASSUME Types, Types', QInv, NEW c \in Clients, NEW x, NEW s, AsksNew(c, x, s)
  PROVE  Fitting(s)'
<1>1. Fitting(s) /\ Departed(c)
  BY DEF QInv, AsksNew
<1>2. UNCHANGED <<slots, errors, eventQ, held, scan>>
  BY DEF AsksNew, Adds
<1>3. Knows(c, s) /\ Sender(s) = c /\ ~Gone(c)
  BY DEF AsksNew
<1>4. Knows(c, s)'
  BY <1>2, <1>3 DEF AsksNew, Knows, Ic
<1>5. c \notin errors'
  BY <1>1, <1>2, <1>3 DEF Departed
<1>6. Sender(s)' = c
  BY <1>2, <1>3 DEF Sender
<1>7. ASSUME NEW i \in DOMAIN Queue', Asks(Queue'[i], c)
      PROVE  Fits(Queue[i], s)' /\ (Reviewed(i)' => slots'[s].sync # "")
  <2>1. CASE Still[i] = 0
    <3>1. Queue'[i] = x /\ i > Len(eventQ) + Len(held)
      BY <2>1, AddsStill DEF AsksNew
    <3>2. ~Reviewed(i)'
      <4>1. i \in Nat /\ Len(eventQ) \in Nat /\ Len(held) \in Nat
        <5>1. DOMAIN Queue' = 1 .. Len(Queue') /\ Len(Queue') \in Nat
          BY QueueFactsNext DEF QueueForm
        <5>2. Len(eventQ) \in Nat /\ Len(held) \in Nat
          BY QueueFacts DEF QueueForm
        <5> QED  BY <5>1, <5>2
      <4>2. ~(i <= Len(eventQ) + Len(held))
        BY <3>1, <4>1
      <4> QED  BY <1>2, <4>2 DEF Reviewed
    <3>3. Fits(x, s)
      BY <1>3, NowFits DEF AsksNew
    <3> QED  BY <1>2, <3>1, <3>2, <3>3 DEF Fits, Ic
  <2>2. CASE Still[i] # 0
    <3>1. i \in DOMAIN Queue /\ Queue'[i] = Queue[i]
      BY <2>2, AddsStill DEF AsksNew
    <3>2. Fits(Queue[i], s) /\ (Reviewed(i) => slots[s].sync # "")
      BY <1>1, <1>3, <1>7, <3>1 DEF Fitting
    <3>3. Reviewed(i)' = Reviewed(i)
      BY <1>2 DEF Reviewed
    <3> QED  BY <1>2, <3>1, <3>2, <3>3 DEF Fits, Ic
  <2> QED  BY <2>1, <2>2
<1>8. /\ slots'[s].ic.valid => slots'[s].ic.used /\ ~slots'[s].closed
      /\ slots'[s].sync # "" => slots'[s].ic.valid
  BY <1>1, <1>2 DEF Fitting, Ic
<1> QED  BY <1>4, <1>5, <1>6, <1>7, <1>8 DEF Fitting, Ic

LEMMA AskerClears ==
  ASSUME Types, Types', QInv, NEW c \in Clients, NEW x, NEW s, AsksNew(c, x, s)
  PROVE  Cleared(s)'
<1>1. s \in DOMAIN slots /\ slots[s].valid /\ Cleared(s)
  BY DEF QInv, AsksNew, Valid
<1>2. UNCHANGED <<slots, errors, eventQ, held, scan>>
  BY DEF AsksNew, Adds
<1>3. Knows(c, s) /\ Sender(s) = c /\ ~Gone(c) /\ client'[c].phase = client[c].phase
  BY DEF AsksNew
<1>4. ~Gone(c)' /\ Sender(s)' = c
  BY <1>2, <1>3 DEF Gone, Sender
<1>5. /\ client[c].phase = "met" => x.major = "CONNECT"
      /\ client[c].phase = "connected" => x.major = "OPEN"
  BY <1>3, NowFits DEF AsksNew
<1>6. ~Stray(x, s)
  BY <1>1, <1>3 DEF Stray, AsksNew, AsksNow
<1> SUFFICES ASSUME NEW p \in DOMAIN Queue', Stray(Queue[p], s)'
             PROVE  Queue'[p].major \in OfIc /\ Rests(s, p)'
  BY DEF Cleared
<1>7. p \in DOMAIN Queue /\ Queue'[p] = Queue[p]
  <2>1. Still[p] = 0 => Queue'[p] = x
    BY AddsStill DEF AsksNew
  <2>2. ~Stray(x, s)'
    BY <1>2, <1>6 DEF Stray, Sender
  <2>3. Still[p] # 0
    <3> SUFFICES ASSUME Still[p] = 0  PROVE FALSE
      OBVIOUS
    <3> QED  BY <2>1, <2>2 DEF Stray
  <2> QED  BY <2>3, AddsStill DEF AsksNew
<1>8. Stray(Queue[p], s)
  BY <1>2, <1>7 DEF Stray, Sender
<1>9. Queue[p].major \in OfIc /\ Rests(s, p)
  BY <1>1, <1>7, <1>8 DEF Cleared
<1>10. client[c].phase \in {"met", "connected"}
  BY <1>3, <1>9 DEF Rests
<1>11. ASSUME NEW j \in DOMAIN Queue', Asks(Queue'[j], c)
       PROVE  Queue'[j].major \in {"CONNECT", "OPEN"} /\ j > p /\ j > Len(eventQ) + Len(held)
  <2>1. CASE Still[j] = 0
    <3>1. Queue'[j] = x /\ j > p /\ j > Len(eventQ) + Len(held)
      BY <1>7, <2>1, AddsStill DEF AsksNew
    <3> QED  BY <1>5, <1>10, <3>1
  <2>2. CASE Still[j] # 0
    <3>1. j \in DOMAIN Queue /\ Queue'[j] = Queue[j]
      BY <2>2, AddsStill DEF AsksNew
    <3> QED  BY <1>3, <1>9, <1>11, <3>1 DEF Rests
  <2> QED  BY <2>1, <2>2
<1>12. ASSUME Connected(s)'  PROVE Connected(s)
  <2>1. CASE client[c].phase # "met"
    BY <1>3, <2>1 DEF Connected
  <2>2. CASE client[c].phase = "met"
    <3>1. PICK i \in DOMAIN Queue' : Asks(Queue'[i], c) /\ Queue'[i].major # "CONNECT"
      BY <1>3, <1>4, <1>12, <2>2 DEF Connected
    <3>2. Still[i] # 0
      <4>1. Still[i] = 0 => Queue'[i] = x
        BY AddsStill DEF AsksNew
      <4> QED  BY <1>5, <2>2, <3>1, <4>1
    <3>3. i \in DOMAIN Queue /\ Queue'[i] = Queue[i]
      BY <3>2, AddsStill DEF AsksNew
    <3> QED  BY <1>3, <3>1, <3>3 DEF Connected
  <2> QED  BY <2>1, <2>2
<1>13. Connected(s)' => scan' > 0 /\ scan' <= p /\ p <= Len(eventQ')
  BY <1>2, <1>9, <1>12 DEF Rests
<1>14. ~slots'[s].ic.used /\ slots'[s].sync = ""
  BY <1>2, <1>9 DEF Rests, Ic
<1>15. \A j \in DOMAIN Queue' : Asks(Queue'[j], c) =>
          Queue'[j].major \in {"CONNECT", "OPEN"} /\ j > p /\ j > Len(eventQ') + Len(held')
  BY <1>2, <1>11
<1>16. client'[c].phase \in {"met", "connected"}
  BY <1>3, <1>10
<1>17. Rests(s, p)'
  BY <1>4, <1>13, <1>14, <1>15, <1>16 DEF Rests, Ic
<1> QED  BY <1>7, <1>9, <1>17

LEMMA RequestKept ==
  ASSUME Types, Types', QInv, NEW c \in Clients, Request(c)
  PROVE  QInv'
<1>1. PICK x, s : AsksNew(c, x, s)
  BY RequestIs
<1>2. /\ SoundQueue' /\ OneSlot'
      /\ \A d \in Clients : d # c => Introduced(d)' /\ Departed(d)' /\ Placed(d)' /\ InTurn(d)'
  BY <1>1, OthersKept DEF AsksNew
<1>3. \A d \in Clients : Introduced(d)' /\ Departed(d)' /\ Placed(d)' /\ InTurn(d)'
  BY <1>1, <1>2, AskerKept
<1>4. UNCHANGED slots
  BY <1>1 DEF AsksNew, Adds
<1>5. ASSUME NEW r \in DOMAIN slots'  PROVE (r \in Valid' => Fitting(r)') /\ Cleared(r)'
  <2>0. r \in DOMAIN slots
    BY <1>4
  <2>1. CASE r = s
    BY <1>1, <2>1, AskerFits, AskerClears
  <2>2. CASE r # s
    <3>1. Sender(r) # c
      BY <1>1, <2>0, <2>2 DEF AsksNew, QInv, OneSlot, Valid, Sender
    <3>2. ~Stray(x, r)
      <4>1. Fits(x, s)
        BY <1>1, NowFits DEF AsksNew
      <4> QED  BY <2>2, <4>1 DEF Stray, Fits
    <3> QED  BY <1>1, <2>0, <3>1, <3>2, OthersKept DEF AsksNew
  <2> QED  BY <2>1, <2>2
<1> QED  BY <1>2, <1>3, <1>5 DEF QInv, Valid

---------------------------------------------------------------------------
(* The clauses about the queue hold.                                       *)

LEMMA QStays ==
  ASSUME Types, Types', QInv, UNCHANGED xVars
  PROVE  QInv'
<1>1. UNCHANGED <<slots, eventQ, scan, held, events, errors, client>>
  BY DEF xVars
<1>2. Queue' = Queue
  BY <1>1 DEF Queue
<1>3. \A i : Reviewed(i)' <=> Reviewed(i)
  BY <1>1 DEF Reviewed
<1> SUFFICES QInv'
  OBVIOUS
<1>4. Carried(Still) /\ \A i \in DOMAIN Queue' : Still[i] # 0
  <2>1. PICK x : x = 0
    OBVIOUS
  <2>2. /\ Carried(Still)
        /\ \A i \in DOMAIN Queue' : Still[i] = 0 => Queue' # Queue /\ Queue'[i] = x
    BY <1>1, <1>2, StillCarried
  <2> QED  BY <1>2, <2>2
<1>5. Quiet(Still)
  BY <1>4 DEF Quiet
<1> QED  BY <1>1, <1>4, <1>5, NothingTold

LEMMA QKept ==
  ASSUME Types, Types', QInv, [XNext]_xVars
  PROVE  QInv'
<1>1. CASE UNCHANGED xVars
  BY <1>1, QStays
<1>2. CASE TakeConnect
  BY <1>2, ConnectKept
<1>3. CASE TakeMessage
  <2>1. CASE Waits(Head(events))
    BY <1>3, <2>1, PutAside
  <2>2. CASE ~Waits(Head(events))
    <3>1. PICK p \in Nat : Reads(p, Head(events))
      BY <1>3, <2>2, TakenReads
    <3> QED  BY <3>1, ReadKept
  <2> QED  BY <2>1, <2>2
<1>4. CASE ScanOne
  <2>1. CASE Waits(eventQ[scan])
    BY <1>4, <2>1, LeftAside
  <2>2. CASE ~Waits(eventQ[scan])
    <3>1. PICK p \in Nat : Reads(p, eventQ[scan])
      BY <1>4, <2>2, ScannedReads
    <3> QED  BY <3>1, ReadKept
  <2> QED  BY <2>1, <2>2
<1>5. CASE ScanEnd
  BY <1>5, ScanEnds
<1>6. CASE TakeDestroyed
  BY <1>6, DestroyedKept
<1>7. CASE TakeRestart
  BY <1>7, RestartKept
<1>8. CASE \E e \in errors : XError(e)
  BY <1>8, BadKept
<1>9. ASSUME NEW c \in Clients, Preconnect(c) \/ Request(c) \/ ReplyStart(c) \/ Die(c)
      PROVE  QInv'
  BY <1>9, PreconnectKept, RequestKept, ReplyKept, DieKept
<1>10. CASE WimeRestart
  BY <1>10, WimeKept
<1> QED
  BY <1>1, <1>2, <1>3, <1>4, <1>5, <1>6, <1>7, <1>8, <1>9, <1>10 DEF XNext, Server

LEMMA QInit == XInit => Types /\ QInv
<1> SUFFICES ASSUME XInit  PROVE Types /\ QInv
  OBVIOUS
<1>1. /\ slots = <<>> /\ eventQ = <<>> /\ scan = 0 /\ held = <<>> /\ cxns = <<>>
      /\ events = <<>> /\ errors = {} /\ client = [c \in Clients |-> NoClient] /\ early = FALSE
  BY DEF XInit
<1>2. DOMAIN slots = {} /\ DOMAIN cxns = {}
  BY <1>1
<1>3. Types
  <2>1. slots \in Seq(SlotType) /\ eventQ \in Seq(Asked) /\ held \in Seq(Asked) /\ events \in Seq(EventType)
    BY <1>1, EmptySeq
  <2>2. IsFiniteSet(DOMAIN cxns)
    BY <1>2, FS_EmptySet
  <2>3. NoClient \in ClientType
    BY DEF NoClient, ClientType, Phases, Majors, Args, Windows
  <2>4. client \in [Clients -> ClientType]
    BY <1>1, <2>3
  <2>5. scan \in Nat /\ Len(held) <= 1 /\ (scan = 0 => held = <<>>)
    BY <1>1
  <2>6. errors \subseteq Clients \cup {"other"} /\ early \in BOOLEAN
    BY <1>1
  <2> QED  BY <1>2, <2>1, <2>2, <2>4, <2>5, <2>6 DEF Types
<1>4. Queue = <<>> /\ DOMAIN Queue = {}
  <2>1. PICK z : z = <<>> /\ z \in Seq(Nat) /\ z \o z = z
    BY ConcatEmptySeq, EmptySeq
  <2>2. Queue = z
    BY <1>1, <2>1 DEF Queue
  <2> QED  BY <2>1, <2>2
<1>5. \A c \in Clients : /\ client[c].phase = "new" /\ client[c].imid = 0
                         /\ ~client[c].ic /\ client[c].awaits = ""
  BY <1>1 DEF NoClient
<1>6. Len(slots) = 0
  BY <1>1
<1>7. ASSUME NEW c \in Clients  PROVE Introduced(c) /\ Departed(c) /\ Placed(c) /\ InTurn(c)
  <2>1. Introduced(c)
    BY <1>2, <1>4, <1>5 DEF Introduced, NoneAsked, Calling
  <2>2. Departed(c)
    BY <1>1, <1>4 DEF Departed
  <2>3. Placed(c)
    <3>1. client[c].phase = "new" /\ client[c].imid <= Len(slots)
      <4>1. 0 <= Len(slots)
        BY <1>6
      <4> QED  BY <1>5, <4>1
    <3>2. client[c].phase \notin Present
      BY <3>1 DEF Present
    <3> QED  BY <3>1, <3>2 DEF Placed
  <2>4. InTurn(c)
    BY <1>4 DEF InTurn
  <2> QED  BY <2>1, <2>2, <2>3, <2>4
<1> QED  BY <1>2, <1>3, <1>4, <1>7 DEF QInv, SoundQueue, OneSlot, Valid

---------------------------------------------------------------------------
(* The contexts of wime.                                                   *)

\* Each IC that lives has a context to itself, with its focus.
Owns(s) == Lives(slots[s]) => /\ slots[s].ic.cxn \in DOMAIN cxns
                              /\ cxns[slots[s].ic.cxn].focus = slots[s].ic.focus
Differ(r, s) == r # s /\ Lives(slots[r]) /\ Lives(slots[s]) => slots[r].ic.cxn # slots[s].ic.cxn
EachOwns == /\ \A s \in DOMAIN slots : Owns(s)
            /\ \A r, s \in DOMAIN slots : Differ(r, s)

LEMMA OwnsAre == (Settled => EachOwns) => OwnContext /\ FocusKept
<1> SUFFICES ASSUME Settled => EachOwns  PROVE OwnContext /\ FocusKept
  OBVIOUS
<1>1. ASSUME NEW s \in LiveIcs  PROVE s \in DOMAIN slots /\ Lives(slots[s])
  BY DEF LiveIcs, Lives, Ic
<1>2. OwnContext
  BY <1>1 DEF OwnContext, EachOwns, Owns, Differ, Known, Ic
<1>3. FocusKept
  BY <1>1 DEF FocusKept, EachOwns, Owns, Known, Ic
<1> QED  BY <1>2, <1>3

\* One slot changes.
LEMMA OneOwns ==
  ASSUME EachOwns, NEW s \in DOMAIN slots, DOMAIN slots' = DOMAIN slots,
         \A r \in DOMAIN slots : r # s => slots'[r] = slots[r],
         Lives(slots'[s]) => /\ slots'[s].ic.cxn \in DOMAIN cxns'
                             /\ cxns'[slots'[s].ic.cxn].focus = slots'[s].ic.focus
                             /\ \A r \in DOMAIN slots : r # s /\ Lives(slots[r])
                                   => slots[r].ic.cxn # slots'[s].ic.cxn,
         \A r \in DOMAIN slots : r # s /\ Lives(slots[r])
            => /\ slots[r].ic.cxn \in DOMAIN cxns'
               /\ cxns'[slots[r].ic.cxn].focus = cxns[slots[r].ic.cxn].focus
  PROVE  EachOwns'
<1>1. ASSUME NEW r \in DOMAIN slots'  PROVE Owns(r)'
  <2>1. CASE r = s
    BY <2>1 DEF Owns
  <2>2. CASE r # s
    BY <2>2 DEF EachOwns, Owns
  <2> QED  BY <2>1, <2>2
<1>2. ASSUME NEW q \in DOMAIN slots', NEW r \in DOMAIN slots'  PROVE Differ(q, r)'
  <2>1. CASE q = s
    BY <2>1 DEF Differ
  <2>2. CASE r = s
    BY <2>2 DEF Differ
  <2>3. CASE q # s /\ r # s
    BY <2>3 DEF Differ, EachOwns
  <2> QED  BY <2>1, <2>2, <2>3
<1> QED  BY <1>1, <1>2 DEF EachOwns

\* An IC keeps its context, and their focus.
LEMMA SameOwns ==
  ASSUME Types, EachOwns, NEW s \in DOMAIN slots, NEW v, NEW cl, NEW y, NEW i, SlotBecomes(s, v, cl, y, i),
         v /\ ~cl /\ i.valid => /\ Lives(slots[s]) /\ i.cxn = slots[s].ic.cxn
                                /\ i.focus = slots[s].ic.focus,
         cxns' = cxns
  PROVE  EachOwns'
<1>1. /\ DOMAIN slots' = DOMAIN slots
      /\ slots'[s].valid = v /\ slots'[s].closed = cl /\ slots'[s].ic = i
      /\ \A r \in DOMAIN slots : r # s => slots'[r] = slots[r]
  BY SlotTurns
<1>2. ASSUME Lives(slots'[s])
      PROVE  Lives(slots[s]) /\ i.cxn = slots[s].ic.cxn /\ i.focus = slots[s].ic.focus
  BY <1>1, <1>2 DEF Lives
<1>3. ASSUME NEW r \in DOMAIN slots, Lives(slots[r])
      PROVE  slots[r].ic.cxn \in DOMAIN cxns /\ cxns[slots[r].ic.cxn].focus = slots[r].ic.focus
  BY <1>3 DEF EachOwns, Owns
<1>4. ASSUME NEW r \in DOMAIN slots, r # s, Lives(slots[r]), Lives(slots[s])
      PROVE  slots[r].ic.cxn # slots[s].ic.cxn
  BY <1>4 DEF EachOwns, Differ
<1>5. Lives(slots'[s]) => /\ slots'[s].ic.cxn \in DOMAIN cxns'
                          /\ cxns'[slots'[s].ic.cxn].focus = slots'[s].ic.focus
                          /\ \A r \in DOMAIN slots : r # s /\ Lives(slots[r])
                                => slots[r].ic.cxn # slots'[s].ic.cxn
  <2> SUFFICES ASSUME Lives(slots'[s])
               PROVE  /\ slots'[s].ic.cxn \in DOMAIN cxns'
                      /\ cxns'[slots'[s].ic.cxn].focus = slots'[s].ic.focus
                      /\ \A r \in DOMAIN slots : r # s /\ Lives(slots[r])
                            => slots[r].ic.cxn # slots'[s].ic.cxn
    OBVIOUS
  <2>1. slots'[s].ic.cxn = slots[s].ic.cxn /\ slots'[s].ic.focus = slots[s].ic.focus /\ Lives(slots[s])
    BY <1>1, <1>2
  <2> QED  BY <1>3, <1>4, <2>1
<1>6. \A r \in DOMAIN slots : r # s /\ Lives(slots[r])
         => /\ slots[r].ic.cxn \in DOMAIN cxns'
            /\ cxns'[slots[r].ic.cxn].focus = cxns[slots[r].ic.cxn].focus
  BY <1>3
<1> QED  BY <1>1, <1>5, <1>6, OneOwns

\* A live IC is told its focus, or its composition changes.
LEMMA LiveOwns ==
  ASSUME Types, EachOwns, NEW s \in DOMAIN slots, Lives(slots[s]),
         NEW v, NEW cl, NEW y, NEW i, SlotBecomes(s, v, cl, y, i), i.cxn = slots[s].ic.cxn,
         DOMAIN cxns' = DOMAIN cxns,
         \A k \in DOMAIN cxns : cxns'[k].focus = IF k = slots[s].ic.cxn THEN i.focus ELSE cxns[k].focus
  PROVE  EachOwns'
<1>1. /\ DOMAIN slots' = DOMAIN slots /\ slots'[s].ic = i
      /\ \A r \in DOMAIN slots : r # s => slots'[r] = slots[r]
  BY SlotTurns
<1>3. ASSUME NEW r \in DOMAIN slots, Lives(slots[r])
      PROVE  slots[r].ic.cxn \in DOMAIN cxns
  BY <1>3 DEF EachOwns, Owns
<1>4. ASSUME NEW r \in DOMAIN slots, r # s, Lives(slots[r])
      PROVE  slots[r].ic.cxn # slots[s].ic.cxn
  BY <1>4 DEF EachOwns, Differ
<1>5. /\ slots'[s].ic.cxn \in DOMAIN cxns'
      /\ cxns'[slots'[s].ic.cxn].focus = slots'[s].ic.focus
      /\ \A r \in DOMAIN slots : r # s /\ Lives(slots[r]) => slots[r].ic.cxn # slots'[s].ic.cxn
  BY <1>1, <1>3, <1>4
<1>6. \A r \in DOMAIN slots : r # s /\ Lives(slots[r])
         => /\ slots[r].ic.cxn \in DOMAIN cxns'
            /\ cxns'[slots[r].ic.cxn].focus = cxns[slots[r].ic.cxn].focus
  BY <1>3, <1>4
<1> QED  BY <1>1, <1>5, <1>6, OneOwns

\* An IC goes, with its context.
LEMMA GoneOwns ==
  ASSUME Types, EachOwns, NEW s \in DOMAIN slots,
         NEW v, NEW cl, NEW y, NEW i, SlotBecomes(s, v, cl, y, i), i.valid = FALSE,
         \/ cxns' = cxns
         \/ Lives(slots[s]) /\ cxns' = [k \in DOMAIN cxns \ {slots[s].ic.cxn} |-> cxns[k]]
  PROVE  EachOwns'
<1>1. /\ DOMAIN slots' = DOMAIN slots /\ slots'[s].ic = i
      /\ \A r \in DOMAIN slots : r # s => slots'[r] = slots[r]
  BY SlotTurns
<1>2. ~Lives(slots'[s])
  BY <1>1 DEF Lives
<1>3. ASSUME NEW r \in DOMAIN slots, Lives(slots[r])
      PROVE  slots[r].ic.cxn \in DOMAIN cxns
  BY <1>3 DEF EachOwns, Owns
<1>4. ASSUME NEW r \in DOMAIN slots, r # s, Lives(slots[r]), Lives(slots[s])
      PROVE  slots[r].ic.cxn # slots[s].ic.cxn
  BY <1>4 DEF EachOwns, Differ
<1>6. \A r \in DOMAIN slots : r # s /\ Lives(slots[r])
         => /\ slots[r].ic.cxn \in DOMAIN cxns'
            /\ cxns'[slots[r].ic.cxn].focus = cxns[slots[r].ic.cxn].focus
  BY <1>3, <1>4
<1> QED  BY <1>1, <1>2, <1>6, OneOwns

\* An IC is made, with a context that no other has.
LEMMA NewOwns ==
  ASSUME Types, EachOwns, NEW s \in DOMAIN slots,
         NEW v, NEW cl, NEW y, NEW i, SlotBecomes(s, v, cl, y, i),
         i.cxn = FreeCxn(DOMAIN cxns), i.focus = FALSE, cxns' = With(cxns, FreeCxn(DOMAIN cxns), NewCxn)
  PROVE  EachOwns'
<1>1. /\ DOMAIN slots' = DOMAIN slots /\ slots'[s].ic = i
      /\ \A r \in DOMAIN slots : r # s => slots'[r] = slots[r]
  BY SlotTurns
<1>2. PICK k : k = FreeCxn(DOMAIN cxns)
  OBVIOUS
<1>3. k \notin DOMAIN cxns
  <2>1. IsFiniteSet(DOMAIN cxns)
    BY DEF Types
  <2> QED  BY <1>2, <2>1, FreeIsFree
<1>4. /\ DOMAIN cxns' = DOMAIN cxns \cup {k} /\ cxns'[k].focus = FALSE
      /\ \A j \in DOMAIN cxns : cxns'[j] = cxns[j]
  BY <1>2, <1>3 DEF With, NewCxn
<1>5. ASSUME NEW r \in DOMAIN slots, Lives(slots[r])
      PROVE  slots[r].ic.cxn \in DOMAIN cxns
  BY <1>5 DEF EachOwns, Owns
<1>6. /\ slots'[s].ic.cxn \in DOMAIN cxns'
      /\ cxns'[slots'[s].ic.cxn].focus = slots'[s].ic.focus
      /\ \A r \in DOMAIN slots : r # s /\ Lives(slots[r]) => slots[r].ic.cxn # slots'[s].ic.cxn
  <2>1. slots'[s].ic.cxn = k /\ slots'[s].ic.focus = FALSE
    BY <1>1, <1>2
  <2> QED  BY <1>3, <1>4, <1>5, <2>1
<1>7. \A r \in DOMAIN slots : r # s /\ Lives(slots[r])
         => /\ slots[r].ic.cxn \in DOMAIN cxns'
            /\ cxns'[slots[r].ic.cxn].focus = cxns[slots[r].ic.cxn].focus
  BY <1>4, <1>5
<1> QED  BY <1>1, <1>6, <1>7, OneOwns

\* What a request of a client meets: an IC that lives if it is about one, and
\* else none that is valid.
Meet(m, s) == IF m.major \in OfIc THEN Lives(slots[s])
              ELSE m.major # "START_REPLY" => Ic(s).valid = FALSE
LEMMA HandledMeets ==
  ASSUME Types, QInv, NEW p, NEW m, Reads(p, m), NEW s \in Valid, s = Found(m), Handle(m, s),
         m.major \in OfIc => Ic(s).used
  PROVE  Meet(m, s)
<1>1. CASE m.major = "START_REPLY"
  BY <1>1 DEF Meet, OfIc
<1>2. CASE m.major # "START_REPLY"
  <2>1. Fits(m, s)
    BY <1>2, HandledIsOwn
  <2>2. s \in DOMAIN slots /\ slots[s].valid
    BY DEF Valid
  <2>3. Ic(s).valid => ~slots[s].closed
    BY DEF QInv, Fitting
  <2>4. CASE m.major \in OfIc
    BY <2>1, <2>2, <2>3, <2>4 DEF Meet, Fits, Lives, Ic
  <2>5. CASE m.major \notin OfIc
    <3>1. ~Ic(s).valid
      BY <2>1, <2>5 DEF Fits
    <3>2. Ic(s).valid \in BOOLEAN
      BY <2>2, SenderFacts DEF IcType
    <3> QED  BY <2>5, <3>1, <3>2 DEF Meet
  <2> QED  BY <2>4, <2>5
<1> QED  BY <1>1, <1>2

\* The handlers, those that leave the IC first.
LEMMA StaysOwns ==
  ASSUME Types, EachOwns, NEW s \in DOMAIN slots, Stays(s), cxns' = cxns
  PROVE  EachOwns'
<1>1. PICK v, cl, y, i : v = slots[s].valid /\ cl = slots[s].closed /\ y = "" /\ i = slots[s].ic
  OBVIOUS
<1>2. SlotBecomes(s, v, cl, y, i)
  BY <1>1 DEF Stays, Ic
<1>3. v /\ ~cl /\ i.valid => /\ Lives(slots[s]) /\ i.cxn = slots[s].ic.cxn
                             /\ i.focus = slots[s].ic.focus
  BY <1>1 DEF Lives
<1> QED  BY <1>2, <1>3, SameOwns
LEMMA PlainOwns ==
  ASSUME Types, EachOwns, NEW s \in DOMAIN slots, NEW c \in Clients, c = Sender(s), NEW st \in Args,
         \/ Connect(s) \/ Open(s) \/ Close(s) \/ PreeditStartReply(s) \/ SetIcValues(s)
         \/ QueryExtension(s) \/ GetImValues(s) \/ GetIcValues(s) \/ EncodingNego(s, st) \/ ResetIc(s)
  PROVE  EachOwns'
<1>1. CASE \/ Connect(s) \/ Open(s) \/ PreeditStartReply(s)
           \/ QueryExtension(s) \/ GetImValues(s) \/ GetIcValues(s) \/ EncodingNego(s, st) \/ ResetIc(s)
  <2>1. Stays(s) /\ cxns' = cxns
    BY <1>1, Answers, ReplyTurns
  <2> QED  BY <2>1, StaysOwns
<1>2. CASE Close(s)
  <2>1. SlotBecomes(s, slots[s].valid, TRUE, "", Ic(s)) /\ cxns' = cxns
    BY <1>2, Answers
  <2>2. PICK v, cl, y, i : v = slots[s].valid /\ cl = TRUE /\ y = "" /\ i = Ic(s)
    OBVIOUS
  <2>3. SlotBecomes(s, v, cl, y, i)
    BY <2>1, <2>2
  <2> QED  BY <2>1, <2>2, <2>3, SameOwns
<1>3. CASE SetIcValues(s)
  <2>1. SlotBecomes(s, slots[s].valid, slots[s].closed, "", [Ic(s) EXCEPT !.window = "own"]) /\ cxns' = cxns
    BY <1>3, Answers
  <2>2. PICK v, cl, y, i : /\ v = slots[s].valid /\ cl = slots[s].closed /\ y = ""
                           /\ i = [Ic(s) EXCEPT !.window = "own"]
    OBVIOUS
  <2>3. SlotBecomes(s, v, cl, y, i)
    BY <2>1, <2>2
  <2>4. i.valid = Ic(s).valid /\ i.cxn = Ic(s).cxn /\ i.focus = Ic(s).focus
    <3>1. Ic(s) \in IcType
      BY SenderFacts
    <3> QED  BY <2>2, <3>1 DEF IcType
  <2>5. v /\ ~cl /\ i.valid => /\ Lives(slots[s]) /\ i.cxn = slots[s].ic.cxn
                               /\ i.focus = slots[s].ic.focus
    BY <2>2, <2>4 DEF Lives, Ic
  <2> QED  BY <2>1, <2>3, <2>5, SameOwns
<1> QED  BY <1>1, <1>2, <1>3

\* Those that change it.
LEMMA CreateOwns ==
  ASSUME Types, EachOwns, NEW s \in DOMAIN slots, NEW c \in Clients, c = Sender(s), NEW st \in Args,
         CreateIc(s, st)
  PROVE  EachOwns'
<1>1. PICK i \in IcType : /\ SlotBecomes(s, slots[s].valid, slots[s].closed, "", i)
                          /\ i.cxn = FreeCxn(DOMAIN cxns) /\ i.focus = FALSE
  BY CreateTurns
<1>2. cxns' = With(cxns, FreeCxn(DOMAIN cxns), NewCxn)
  BY CreateTurns
<1>3. PICK v, cl, y : v = slots[s].valid /\ cl = slots[s].closed /\ y = ""
  OBVIOUS
<1>4. SlotBecomes(s, v, cl, y, i)
  BY <1>1, <1>3
<1> QED  BY <1>1, <1>2, <1>4, NewOwns
LEMMA DestroyOwns ==
  ASSUME Types, EachOwns, NEW s \in DOMAIN slots, NEW c \in Clients, c = Sender(s), DestroyIc(s),
         Lives(slots[s])
  PROVE  EachOwns'
<1>1. /\ SlotBecomes(s, slots[s].valid, slots[s].closed, "", [Ic(s) EXCEPT !.valid = FALSE])
      /\ cxns' = [k \in DOMAIN cxns \ {Ic(s).cxn} |-> cxns[k]]
  BY DestroyTurns
<1>2. PICK v, cl, y, i : /\ v = slots[s].valid /\ cl = slots[s].closed /\ y = ""
                         /\ i = [Ic(s) EXCEPT !.valid = FALSE]
  OBVIOUS
<1>3. SlotBecomes(s, v, cl, y, i) /\ i.valid = FALSE
  <2>1. Ic(s) \in IcType
    BY SenderFacts
  <2> QED  BY <1>1, <1>2, <2>1, IcChanges
<1>4. cxns' = [k \in DOMAIN cxns \ {slots[s].ic.cxn} |-> cxns[k]]
  BY <1>1 DEF Ic
<1> QED  BY <1>3, <1>4, GoneOwns
LEMMA LeaveOwns ==
  ASSUME Types, EachOwns, NEW s \in DOMAIN slots, NEW c \in Clients, c = Sender(s),
         NEW told, NEW windows, DisconnectClient(s, told, windows),
         \/ told = <<>>
         \/ told = [phase |-> "left", awaits |-> ""],
         Lives(slots[s]) \/ Ic(s).valid = FALSE
  PROVE  EachOwns'
<1>1. /\ SlotBecomes(s, FALSE, slots[s].closed, "", [Ic(s) EXCEPT !.valid = FALSE])
      /\ cxns' = IF Ic(s).valid THEN [k \in DOMAIN cxns \ {Ic(s).cxn} |-> cxns[k]] ELSE cxns
  BY LeaveTurns
<1>2. PICK v, cl, y, i : /\ v = FALSE /\ cl = slots[s].closed /\ y = ""
                         /\ i = [Ic(s) EXCEPT !.valid = FALSE]
  OBVIOUS
<1>3. SlotBecomes(s, v, cl, y, i) /\ i.valid = FALSE
  <2>1. Ic(s) \in IcType
    BY SenderFacts
  <2> QED  BY <1>1, <1>2, <2>1, IcChanges
<1>4. \/ cxns' = cxns
      \/ Lives(slots[s]) /\ cxns' = [k \in DOMAIN cxns \ {slots[s].ic.cxn} |-> cxns[k]]
  BY <1>1 DEF Ic
<1> QED  BY <1>3, <1>4, GoneOwns
LEMMA FocusOwns ==
  ASSUME Types, EachOwns, NEW s \in DOMAIN slots, NEW in \in BOOLEAN, SetIcFocus(s, in), Lives(slots[s])
  PROVE  EachOwns'
<1>1. /\ SlotBecomes(s, slots[s].valid, slots[s].closed, "", [Ic(s) EXCEPT !.focus = in])
      /\ DOMAIN cxns' = DOMAIN cxns
      /\ \A k \in DOMAIN cxns : cxns'[k].focus = IF k = Ic(s).cxn THEN in ELSE cxns[k].focus
  BY FocusTurns
<1>2. PICK v, cl, y, i : /\ v = slots[s].valid /\ cl = slots[s].closed /\ y = ""
                         /\ i = [Ic(s) EXCEPT !.focus = in]
  OBVIOUS
<1>3. i.cxn = slots[s].ic.cxn /\ i.focus = in
  <2>1. Ic(s) \in IcType
    BY SenderFacts
  <2> QED  BY <1>2, <2>1 DEF IcType, Ic
<1>4. SlotBecomes(s, v, cl, y, i)
  BY <1>1, <1>2
<1>5. \A k \in DOMAIN cxns : cxns'[k].focus = IF k = slots[s].ic.cxn THEN i.focus ELSE cxns[k].focus
  BY <1>1, <1>3 DEF Ic
<1> QED  BY <1>1, <1>3, <1>4, <1>5, LiveOwns
LEMMA KeyOwns ==
  ASSUME Types, EachOwns, NEW s \in DOMAIN slots, NEW c \in Clients, c = Sender(s), ForwardKey(s),
         Lives(slots[s])
  PROVE  EachOwns'
<1>1. PICK i, y : SlotBecomes(s, slots[s].valid, slots[s].closed, y, i) /\ IcAs(i, Ic(s))
  BY KeyTurns
<1>2. DOMAIN cxns' = DOMAIN cxns /\ \A k \in DOMAIN cxns : cxns'[k].focus = cxns[k].focus
  BY KeyTurns
<1>3. PICK v, cl : v = slots[s].valid /\ cl = slots[s].closed
  OBVIOUS
<1>4. SlotBecomes(s, v, cl, y, i) /\ i.cxn = slots[s].ic.cxn /\ i.focus = slots[s].ic.focus
  BY <1>1, <1>3 DEF IcAs, Ic
<1>5. cxns[slots[s].ic.cxn].focus = slots[s].ic.focus
  BY DEF EachOwns, Owns
<1>6. \A k \in DOMAIN cxns : cxns'[k].focus = IF k = slots[s].ic.cxn THEN i.focus ELSE cxns[k].focus
  BY <1>2, <1>4, <1>5
<1> QED  BY <1>2, <1>4, <1>6, LiveOwns

LEMMA HandleOwns ==
  ASSUME Types, EachOwns, NEW s \in DOMAIN slots, NEW c \in Clients, c = Sender(s), NEW m \in EventType,
         Handle(m, s), Meet(m, s)
  PROVE  EachOwns'
<1>0. m.arg \in Args
  BY DEF EventType
<1>1. CASE \/ Connect(s) \/ Open(s) \/ Close(s) \/ PreeditStartReply(s) \/ SetIcValues(s)
           \/ QueryExtension(s) \/ GetImValues(s) \/ GetIcValues(s) \/ EncodingNego(s, m.arg) \/ ResetIc(s)
  BY <1>0, <1>1, PlainOwns
<1>2. CASE CreateIc(s, m.arg)
  BY <1>0, <1>2, CreateOwns
<1>3. CASE m.major = "DESTROY_IC" /\ DestroyIc(s)
  <2>1. Lives(slots[s])
    BY <1>3 DEF Meet, OfIc
  <2> QED  BY <1>3, <2>1, DestroyOwns
<1>4. CASE m.major = "DISCONNECT" /\ Disconnect(s)
  <2>1. Ic(s).valid = FALSE
    BY <1>4 DEF Meet, OfIc
  <2>2. PICK told, windows : /\ told = [phase |-> "left", awaits |-> ""] /\ windows = {"comm"}
    OBVIOUS
  <2>3. DisconnectClient(s, told, windows)
    BY <1>4, <2>2 DEF Disconnect
  <2> QED  BY <2>1, <2>2, <2>3, LeaveOwns
<1>5. CASE m.major \in {"FOCUS", "UNFOCUS"} /\ (SetIcFocus(s, TRUE) \/ SetIcFocus(s, FALSE))
  <2>1. Lives(slots[s])
    BY <1>5 DEF Meet, OfIc
  <2>2. PICK in \in BOOLEAN : SetIcFocus(s, in)
    BY <1>5
  <2> QED  BY <2>1, <2>2, FocusOwns
<1>6. CASE m.major = "KEY" /\ ForwardKey(s)
  <2>1. Lives(slots[s])
    BY <1>6 DEF Meet, OfIc
  <2> QED  BY <1>6, <2>1, KeyOwns
<1> QED  BY <1>1, <1>2, <1>3, <1>4, <1>5, <1>6 DEF Handle

LEMMA ReadOwns ==
  ASSUME Types, QInv, EachOwns, NEW p, NEW m, Reads(p, m)
  PROVE  EachOwns'
<1>1. CASE UNCHANGED <<slots, cxns>>
  BY <1>1 DEF EachOwns, Owns, Differ
<1>2. ASSUME NEW s, s = Found(m), s # 0, Handle(m, s), m.major \in OfIc => Ic(s).used
      PROVE  EachOwns'
  <2>1. s \in Valid
    BY <1>2, FoundFacts
  <2>2. Meet(m, s)
    BY <1>2, <2>1, HandledMeets
  <2>3. s \in DOMAIN slots
    BY <2>1 DEF Valid
  <2>4. PICK c \in Clients : c = Sender(s)
    BY <2>3, SenderFacts
  <2>5. m \in EventType
    BY DEF Reads
  <2> QED  BY <1>2, <2>2, <2>3, <2>4, <2>5, HandleOwns
<1>3. PICK rest : Process(m, rest)
  BY DEF Reads
<1>4. PICK s : s = Found(m)
  OBVIOUS
<1> QED  BY <1>1, <1>2, <1>3, <1>4 DEF Process, Crash

\* A restart that the event loop has not seen is still ahead, unless it sees it.
LEMMA TailIs ==
  ASSUME NEW T, NEW q \in Seq(T), q # <<>>
  PROVE  /\ Tail(q) \in Seq(T) /\ Len(q) > 0 /\ Len(q) \in Nat /\ Len(Tail(q)) = Len(q) - 1
         /\ \A i \in 1 .. Len(q) - 1 : Tail(q)[i] = q[i + 1]
<1>1. Len(q) \in Nat /\ Len(q) # 0
  BY EmptySeq
<1> QED  BY <1>1, HeadTailProperties
NoRestart(q) == \A i \in DOMAIN q : q[i].t # "RESTART"
LEMMA AppendAhead ==
  ASSUME NEW q \in Seq(EventType), NEW x \in EventType, NoRestart(Append(q, x))
  PROVE  NoRestart(q)
<1>1. /\ DOMAIN Append(q, x) = 1 .. Len(q) + 1 /\ DOMAIN q = 1 .. Len(q) /\ Len(q) \in Nat
      /\ \A i \in 1 .. Len(q) : Append(q, x)[i] = q[i]
  BY AppendProperties
<1>2. \A i \in DOMAIN q : i \in DOMAIN Append(q, x) /\ Append(q, x)[i] = q[i]
  BY <1>1
<1> QED  BY <1>2 DEF NoRestart
LEMMA TailAhead ==
  ASSUME NEW q \in Seq(EventType), q # <<>>, Head(q).t # "RESTART", NoRestart(Tail(q))
  PROVE  NoRestart(q)
<1> SUFFICES ASSUME NEW i \in DOMAIN q  PROVE q[i].t # "RESTART"
  BY DEF NoRestart
<1>1. PICK n \in Nat : n = Len(q) /\ n > 0
  BY TailIs
<1>2. /\ DOMAIN q = 1 .. n /\ DOMAIN Tail(q) = 1 .. n - 1
      /\ \A j \in 1 .. n - 1 : Tail(q)[j] = q[j + 1]
  <2>1. Tail(q) \in Seq(EventType) /\ Len(Tail(q)) = n - 1
    BY <1>1, TailIs
  <2> QED  BY <1>1, <2>1, TailIs
<1>3. CASE i = 1
  BY <1>3
<1>4. CASE i # 1
  <2>1. PICK j \in 1 .. n - 1 : i = j + 1
    <3>1. i - 1 \in 1 .. n - 1 /\ i = (i - 1) + 1
      BY <1>1, <1>2, <1>4
    <3> QED  BY <3>1
  <2>2. Tail(q)[j] = q[i]
    BY <1>2, <2>1
  <2> QED  BY <1>2, <2>1, <2>2 DEF NoRestart
<1> QED  BY <1>3, <1>4

\* Of the events at most the next is taken, which is no restart, and at most
\* one comes.
Flows == \E q \in Seq(EventType) :
            /\ q = events \/ (events # <<>> /\ Head(events).t # "RESTART" /\ q = Tail(events))
            /\ events' = q \/ \E x \in EventType : events' = Append(q, x)
LEMMA SettledBefore ==
  ASSUME Types, Flows, Settled'
  PROVE  Settled
<1>1. PICK q \in Seq(EventType) :
            /\ q = events \/ (events # <<>> /\ Head(events).t # "RESTART" /\ q = Tail(events))
            /\ events' = q \/ \E x \in EventType : events' = Append(q, x)
  BY DEF Flows
<1>2. events \in Seq(EventType)
  BY DEF Types
<1>3. NoRestart(events')
  BY DEF Settled, NoRestart
<1>4. NoRestart(q)
  <2>1. ASSUME NEW x \in EventType, events' = Append(q, x)  PROVE NoRestart(q)
    <3>1. NoRestart(Append(q, x))
      BY <1>3, <2>1
    <3> QED  BY <3>1, AppendAhead
  <2> QED  BY <1>1, <1>3, <2>1
<1>5. ASSUME events # <<>>, Head(events).t # "RESTART", q = Tail(events)  PROVE NoRestart(events)
  BY <1>2, <1>4, <1>5, TailAhead
<1>6. NoRestart(events)
  BY <1>1, <1>4, <1>5
<1> QED  BY <1>6 DEF Settled, NoRestart

LEMMA ProcessFlows ==
  ASSUME Types, NEW m, NEW q \in Seq(EventType), Process(m, q),
         q = events \/ (events # <<>> /\ Head(events).t # "RESTART" /\ q = Tail(events))
  PROVE  Flows
<1>1. events' = q \/ events' = WithError(q)
  BY DEF Process
<1>2. events' = q \/ events' = Append(q, ErrorMessage)
  BY <1>1, ErrorComes
<1>3. ErrorMessage \in EventType
  BY ErrorComes
<1> QED  BY <1>2, <1>3 DEF Flows

\* Every step keeps the contexts, once the event loop has seen the restarts.
Owned == Settled => EachOwns
LEMMA OwnsKept ==
  ASSUME Types, QInv, Owned, [XNext]_xVars
  PROVE  Owned'
<1> USE DEF Owned
<1>a. events \in Seq(EventType)
  BY DEF Types
<1>b. ASSUME UNCHANGED <<slots, cxns>>, Flows  PROVE Owned'
  <2> SUFFICES ASSUME Settled'  PROVE EachOwns'
    OBVIOUS
  <2>1. EachOwns
    BY <1>b, SettledBefore
  <2> QED  BY <1>b, <2>1 DEF EachOwns, Owns, Differ
<1>c. events' = events => Flows
  BY <1>a DEF Flows
<1>d. ASSUME events # <<>>, Head(events).t # "RESTART", events' = Tail(events)  PROVE Flows
  <2>1. Tail(events) \in Seq(EventType)
    BY <1>a, <1>d, TailIs
  <2> QED  BY <1>d, <2>1 DEF Flows
<1>1. CASE UNCHANGED xVars
  BY <1>1, <1>b, <1>c DEF xVars
<1>2. CASE TakeConnect
  <2> SUFFICES ASSUME Settled'  PROVE EachOwns'
    OBVIOUS
  <2>1. /\ Head(events).t = "CONNECT" /\ UNCHANGED cxns /\ events # <<>> /\ events' = Tail(events)
    BY <1>2, ConnectTurns DEF QInv
  <2>2. PICK c \in Clients : \E s \in Nat : NewSlot(c, s)
    BY <1>2, ConnectTurns DEF QInv
  <2>3. PICK s \in Nat : NewSlot(c, s)
    BY <2>2
  <2>4. EachOwns
    BY <1>d, <2>1, SettledBefore
  <2>5. ~Lives(slots'[s])
    BY <2>3, NewSlotIs DEF NewSlot, Lives
  <2>6. DOMAIN slots' = DOMAIN slots \cup {s} /\ \A r \in DOMAIN slots : r # s => slots'[r] = slots[r]
    BY <2>3 DEF NewSlot
  <2>7. ASSUME NEW r \in DOMAIN slots', Lives(slots'[r])  PROVE r \in DOMAIN slots /\ slots'[r] = slots[r]
    BY <2>5, <2>6, <2>7
  <2> QED  BY <2>1, <2>4, <2>7 DEF EachOwns, Owns, Differ
<1>3. CASE TakeMessage
  <2>1. events # <<>> /\ Head(events).t # "RESTART"
    BY <1>3 DEF TakeMessage, Taking
  <2>2. CASE Waits(Head(events))
    <3>1. events' = Tail(events) /\ UNCHANGED <<slots, cxns>>
      BY <1>3, <2>2 DEF TakeMessage
    <3> QED  BY <1>b, <1>d, <2>1, <3>1
  <2>3. CASE ~Waits(Head(events))
    <3> SUFFICES ASSUME Settled'  PROVE EachOwns'
      OBVIOUS
    <3>1. Process(Head(events), Tail(events))
      BY <1>3, <2>3 DEF TakeMessage
    <3>2. Tail(events) \in Seq(EventType)
      BY <1>a, <2>1, TailIs
    <3>3. Flows
      BY <2>1, <3>1, <3>2, ProcessFlows
    <3>4. EachOwns
      BY <3>3, SettledBefore
    <3>5. PICK p \in Nat : Reads(p, Head(events))
      BY <1>3, <2>3, TakenReads
    <3> QED  BY <3>4, <3>5, ReadOwns
  <2> QED  BY <2>2, <2>3
<1>4. CASE ScanOne
  <2>2. CASE Waits(eventQ[scan])
    <3>1. events' = events /\ UNCHANGED <<slots, cxns>>
      BY <1>4, <2>2 DEF ScanOne
    <3> QED  BY <1>b, <1>c, <3>1
  <2>3. CASE ~Waits(eventQ[scan])
    <3> SUFFICES ASSUME Settled'  PROVE EachOwns'
      OBVIOUS
    <3>1. Process(eventQ[scan], events)
      BY <1>4, <2>3 DEF ScanOne
    <3>3. Flows
      BY <1>a, <3>1, ProcessFlows
    <3>4. EachOwns
      BY <3>3, SettledBefore
    <3>5. PICK p \in Nat : Reads(p, eventQ[scan])
      BY <1>4, <2>3, ScannedReads
    <3> QED  BY <3>4, <3>5, ReadOwns
  <2> QED  BY <2>2, <2>3
<1>5. CASE ScanEnd
  BY <1>5, <1>b, <1>c DEF ScanEnd
<1>6. CASE TakeDestroyed
  <2> SUFFICES ASSUME Settled'  PROVE EachOwns'
    OBVIOUS
  <2>1. PICK c \in Clients :
            /\ Head(events).t = "DESTROYED"
            /\ \/ UNCHANGED <<slots, errors, cxns, client, early>>
               \/ \E s \in Valid : Sender(s) = c /\ DisconnectClient(s, <<>>, {})
            /\ events # <<>> /\ events' = Tail(events)
    BY <1>6, DestroyedTurns DEF QInv
  <2>2. EachOwns
    BY <1>d, <2>1, SettledBefore
  <2>3. CASE UNCHANGED <<slots, cxns>>
    BY <1>b, <1>d, <2>1, <2>3
  <2>4. ASSUME NEW s \in Valid, Sender(s) = c, DisconnectClient(s, <<>>, {})  PROVE EachOwns'
    <3>1. s \in DOMAIN slots /\ slots[s].valid
      BY DEF Valid
    <3>2. Lives(slots[s]) \/ Ic(s).valid = FALSE
      <4>1. Ic(s).valid => ~slots[s].closed
        BY DEF QInv, Fitting
      <4>2. Ic(s).valid \in BOOLEAN
        BY <3>1, SenderFacts DEF IcType
      <4> QED  BY <3>1, <4>1, <4>2 DEF Lives, Ic
    <3>3. PICK told, windows : told = <<>> /\ windows = {}
      OBVIOUS
    <3>4. DisconnectClient(s, told, windows)
      BY <2>4, <3>3
    <3> QED  BY <2>2, <2>4, <3>1, <3>2, <3>3, <3>4, LeaveOwns
  <2> QED  BY <2>1, <2>3, <2>4
<1>7. CASE TakeRestart
  BY <1>7, RestartTurns DEF EachOwns, Owns, Differ
<1>8. CASE \E e \in errors : XError(e)
  <2> SUFFICES ASSUME Settled'  PROVE EachOwns'
    OBVIOUS
  <2>1. PICK e : XError(e)
    BY <1>8
  <2>2. /\ slots' = slots \/ \E s \in DOMAIN slots : Sender(s) = e /\ BadSlot(s)
        /\ UNCHANGED <<cxns, events>>
    BY <2>1, BadTurns
  <2>3. EachOwns
    BY <1>c, <2>2, SettledBefore
  <2>4. ASSUME NEW s \in DOMAIN slots, BadSlot(s)  PROVE EachOwns'
    <3>1. DOMAIN slots' = DOMAIN slots /\ ~slots'[s].valid
          /\ \A r \in DOMAIN slots : r # s => slots'[r] = slots[r]
      BY <2>4 DEF BadSlot
    <3>2. ASSUME NEW r \in DOMAIN slots', Lives(slots'[r])  PROVE r \in DOMAIN slots /\ slots'[r] = slots[r]
      BY <3>1, <3>2 DEF Lives
    <3> QED  BY <2>2, <2>3, <3>2 DEF EachOwns, Owns, Differ
  <2> QED  BY <1>b, <1>c, <2>2, <2>4
<1>9. ASSUME NEW c \in Clients, Preconnect(c) \/ Request(c) \/ ReplyStart(c) \/ Die(c)
      PROVE  Owned'
  <2>1. UNCHANGED <<slots, cxns, eventQ, held>>
    BY <1>9 DEF Preconnect, Request, ReplyStart, Die, Apart
  <2>2. events' = events \/ \E x \in EventType : events' = Append(events, x)
    <3>1. ASSUME NEW t \in {"CONNECT", "MESSAGE", "DESTROYED"}, NEW major \in Majors, NEW arg \in Args,
                 Send(c, t, major, arg)
          PROVE  \E x \in EventType : events' = Append(events, x)
      <4>1. client[c].imid \in Nat /\ c # "self"
        BY XimAssumption DEF Types, ClientType
      <4>2. Event(t, c, major, arg) \in EventType
        BY <4>1 DEF Event, EventType
      <4> QED  BY <3>1, <4>2 DEF Send
    <3>2. "" \in Majors /\ "START_REPLY" \in Majors /\ "" \in Args
      BY DEF Majors, Args
    <3>3. Preconnect(c) => Send(c, "CONNECT", "", "")
      BY DEF Preconnect
    <3>4. ReplyStart(c) => Send(c, "MESSAGE", "START_REPLY", "")
      BY DEF ReplyStart
    <3>5. Die(c) => events' = events \/ Send(c, "DESTROYED", "", "")
      BY DEF Die
    <3>6. Request(c) => \E q \in Steps(c) : Send(c, "MESSAGE", q[1], q[2])
      BY DEF Request
    <3>7. \A q \in Steps(c) : q[1] \in Majors /\ q[2] \in Args
      BY StepsAre
    <3> QED  BY <1>9, <3>1, <3>2, <3>3, <3>4, <3>5, <3>6, <3>7
  <2>3. Flows
    BY <1>a, <2>2 DEF Flows
  <2> QED  BY <1>b, <2>1, <2>3
<1>10. CASE WimeRestart
  <2>1. events' = Append(events, Restarted)
    BY <1>10 DEF WimeRestart
  <2>2. PICK n \in Nat : n = Len(events)
    BY <1>a
  <2>3. PICK x \in EventType : x = Restarted /\ x.t = "RESTART"
    <3>1. PICK x : x = Restarted
      OBVIOUS
    <3>2. EventIs(x, "RESTART", "self", "", 0, "")
      BY <3>1 DEF Restarted, Event, EventIs, EventType, Majors, Args
    <3> QED  BY <3>1, <3>2 DEF EventIs
  <2>4. n + 1 \in DOMAIN events' /\ events'[n + 1] = x
    <3>1. events' \in Seq(EventType) /\ Len(events') = n + 1 /\ events'[n + 1] = x
      BY <1>a, <2>1, <2>2, <2>3, AppendProperties
    <3> QED  BY <2>2, <3>1
  <2> QED  BY <2>3, <2>4 DEF Settled
<1> QED
  BY <1>1, <1>2, <1>3, <1>4, <1>5, <1>6, <1>7, <1>8, <1>9, <1>10 DEF XNext, Server

---------------------------------------------------------------------------
(* What a client has asked, message by message.                            *)

\* The requests of c among the first i of q, in x[i].
Adding(r, m, c) == IF Asks(m, c) THEN Append(r, m) ELSE r
Gathers(x, q, c, n) ==
    /\ x[0] = <<>> /\ \A i \in 1 .. n : x[i] = Adding(x[i - 1], q[i], c)
    /\ \A i \in 0 .. n : x[i] \in Seq({q[j] : j \in {k \in 1 .. n : Asks(q[k], c)}})
LEMMA RequestsGather ==
  ASSUME NEW T, NEW q \in Seq(T), NEW c, NEW n \in Nat, n = Len(q)
  PROVE  \E x : Gathers(x, q, c, n) /\ Requests(q, c) = x[n]
<1> DEFINE D == Seq({q[j] : j \in {k \in 1 .. n : Asks(q[k], c)}})
           step == [p \in D \X (1 .. n) |-> Adding(p[1], q[p[2]], c)]
           Is(g) == g = [i \in 0 .. n |-> IF i = 0 THEN <<>>
                                          ELSE IF Asks(q[i], c) THEN Append(g[i - 1], q[i]) ELSE g[i - 1]]
           x == CHOOSE g : Is(g)
<1>1. Requests(q, c) = x[n]
  BY DEF Requests
<1>2. ASSUME NEW r \in D, NEW i \in 1 .. n  PROVE Adding(r, q[i], c) \in D
  <2>1. CASE Asks(q[i], c)
    <3>1. q[i] \in {q[j] : j \in {k \in 1 .. n : Asks(q[k], c)}}
      BY <2>1
    <3>2. Append(r, q[i]) \in D
      BY <3>1
    <3> QED  BY <3>2, <2>1 DEF Adding
  <2>2. CASE ~ Asks(q[i], c)
    BY <2>2 DEF Adding
  <2> QED  BY <2>1, <2>2
<1>3. step \in [D \X (1 .. n) -> D]
  <2> SUFFICES ASSUME NEW p \in D \X (1 .. n)  PROVE Adding(p[1], q[p[2]], c) \in D
    OBVIOUS
  <2> HIDE DEF D
  <2> QED  BY <1>2
<1>4. <<>> \in D
  BY EmptySeq
<1>5. PICK s \in [0 .. n -> D] :
         s[0] = <<>> /\ \A i \in 1 .. n : s[i] = step[<<s[i - 1], i>>]
  <2> HIDE DEF D
  <2>1. PICK b, st : b = <<>> /\ st = step
    OBVIOUS
  <2> HIDE DEF step
  <2>2. b \in D /\ \A d \in D, i \in 1 .. n : st[<<d, i>>] \in D
    BY <1>3, <1>4, <2>1
  <2>3. \E s : Course(s, D, b, n, st)
    BY <2>2, Iterated
  <2> QED  BY <2>1, <2>3 DEF Course
<1>6. ASSUME NEW i \in 1 .. n  PROVE s[i] = Adding(s[i - 1], q[i], c)
  <2> HIDE DEF D
  <2>1. i - 1 \in 0 .. n /\ i \in 0 .. n /\ i # 0
    OBVIOUS
  <2>2. s[i - 1] \in D /\ s[i] = step[<<s[i - 1], i>>]
    BY <1>5, <2>1
  <2>3. <<s[i - 1], i>> \in D \X (1 .. n)
    BY <2>2
  <2> QED  BY <2>2, <2>3
<1>7. Is(s)
  <2> HIDE DEF D
  <2>1. s = [i \in 0 .. n |-> s[i]]
    BY <1>5
  <2>2. \A i \in 0 .. n : s[i] = IF i = 0 THEN <<>>
                                 ELSE IF Asks(q[i], c) THEN Append(s[i - 1], q[i]) ELSE s[i - 1]
    <3> SUFFICES ASSUME NEW i \in 0 .. n
                 PROVE  s[i] = IF i = 0 THEN <<>>
                               ELSE IF Asks(q[i], c) THEN Append(s[i - 1], q[i]) ELSE s[i - 1]
      OBVIOUS
    <3>1. CASE i = 0
      BY <1>5, <3>1
    <3>2. CASE i # 0
      <4>1. i \in 1 .. n
        BY <3>2
      <4>2. s[i] = Adding(s[i - 1], q[i], c)
        BY <1>6, <4>1
      <4> QED  BY <3>2, <4>2 DEF Adding
    <3> QED  BY <3>1, <3>2
  <2> QED  BY <2>1, <2>2
<1>8. Is(x)
  <2> HIDE DEF Is
  <2> QED  BY <1>7
<1>9. ASSUME NEW i \in 1 .. n  PROVE x[i] = Adding(x[i - 1], q[i], c)
  <2> HIDE DEF x
  <2>1. i \in 0 .. n /\ i # 0
    OBVIOUS
  <2> QED  BY <1>8, <2>1 DEF Adding
<1>10. x = s
  <2> DEFINE W == {i \in 0 .. n : x[i] # s[i]}
  <2> HIDE DEF x, D, step
  <2>0. x[0] = <<>>
    BY <1>8
  <2>1. ASSUME W # {}  PROVE FALSE
    <3>1. PICK k \in W : \A j \in W : k <= j
      <4>1. W \subseteq Nat
        OBVIOUS
      <4> HIDE DEF W
      <4> QED  BY <2>1, <4>1, LeastNat
    <3>2. k # 0
      BY <1>5, <2>0
    <3>3. x[k - 1] = s[k - 1]
      BY <3>1, <3>2
    <3>4. k \in 1 .. n /\ x[k] # s[k]
      BY <3>1, <3>2
    <3> QED  BY <1>6, <1>9, <3>3, <3>4
  <2>2. x = [i \in 0 .. n |-> x[i]] /\ s = [i \in 0 .. n |-> s[i]]
    BY <1>5, <1>8
  <2> QED  BY <2>1, <2>2
<1>11. Gathers(s, q, c, n)
  BY <1>5, <1>6 DEF Gathers
<1> HIDE DEF x
<1> QED  BY <1>1, <1>10, <1>11

LEMMA PendingAsked ==
  ASSUME Types, NEW c
  PROVE  /\ Pending(c) \in Seq(EventType)
         /\ \A i \in DOMAIN Pending(c) :
               \E j \in DOMAIN Queue : Pending(c)[i] = Queue[j] /\ Asks(Queue[j], c)
<1>1. PICK n \in Nat : n = Len(Queue) /\ DOMAIN Queue = 1 .. n
  BY QueueFacts DEF QueueForm
<1>2. Queue \in Seq(EventType)
  BY QueueFacts DEF QueueForm
<1>3. PICK x : Gathers(x, Queue, c, n) /\ Pending(c) = x[n]
  BY <1>1, <1>2, RequestsGather DEF Pending
<1>4. Pending(c) \in Seq({Queue[j] : j \in {k \in 1 .. n : Asks(Queue[k], c)}})
  BY <1>1, <1>3 DEF Gathers
<1>5. ASSUME NEW S, NEW r \in Seq(S), NEW i \in DOMAIN r  PROVE r[i] \in S
  OBVIOUS
<1>6. ASSUME NEW i \in DOMAIN Pending(c)
      PROVE  \E j \in DOMAIN Queue : Pending(c)[i] = Queue[j] /\ Asks(Queue[j], c)
  <2>1. Pending(c)[i] \in {Queue[j] : j \in {k \in 1 .. n : Asks(Queue[k], c)}}
    BY <1>4, <1>5
  <2> QED  BY <1>1, <2>1
<1>7. {Queue[j] : j \in {k \in 1 .. n : Asks(Queue[k], c)}} \subseteq EventType
  BY <1>1, QueueFacts DEF QueueForm
<1>8. Pending(c) \in Seq(EventType)
  BY <1>4, <1>7, SeqMonotonic
<1> QED  BY <1>6, <1>8

---------------------------------------------------------------------------
(* The order of what a client asks.                                        *)

LEMMA AppendAfter ==
  ASSUME NEW T, NEW s \in Seq(T), NEW t \in Seq(T), NEW e \in T
  PROVE  s \o Append(t, e) = Append(s \o t, e)
<1>1. Append(t, e) = t \o <<e>> /\ <<e>> \in Seq(T)
  BY AppendIsConcat
<1>2. s \o (t \o <<e>>) = (s \o t) \o <<e>>
  BY <1>1, ConcatAssociative
<1>3. s \o t \in Seq(T)
  BY ConcatProperties
<1>4. Append(s \o t, e) = (s \o t) \o <<e>>
  BY <1>3, AppendIsConcat
<1> QED  BY <1>1, <1>2, <1>4

LEMMA AddingAfter ==
  ASSUME NEW c, NEW s \in Seq(EventType), NEW t \in Seq(EventType), NEW m \in EventType
  PROVE  Adding(s \o t, m, c) = s \o Adding(t, m, c)
<1>1. s \o Append(t, m) = Append(s \o t, m)
  BY AppendAfter
<1> QED  BY <1>1 DEF Adding

\* What is gathered of messages that are the same is the same, after what was
\* gathered before.
SameTo(x, y, q, r, c, d, a, e) ==
    /\ \A i \in a .. e : y[i] \in Seq(EventType)
    /\ \A i \in a + 1 .. e : /\ r[i] = q[i + d] /\ r[i] \in EventType
                             /\ y[i] = Adding(y[i - 1], r[i], c)
                             /\ x[i + d] = Adding(x[i + d - 1], q[i + d], c)
After(z, x, y, d, i) == x[i + d] = z \o y[i]
LEMMA GatherAlike ==
  ASSUME NEW c, NEW q, NEW r, NEW x, NEW y, NEW d \in Nat, NEW a \in Nat, NEW e \in Nat, a <= e,
         NEW z \in Seq(EventType), SameTo(x, y, q, r, c, d, a, e), After(z, x, y, d, a)
  PROVE  After(z, x, y, d, e)
<1> USE DEF After
<1> DEFINE W == {i \in a .. e : x[i + d] # z \o y[i]}
<1>1. ASSUME W # {}  PROVE FALSE
  <2>1. PICK k \in W : \A j \in W : k <= j
    <3>1. W \subseteq Nat
      OBVIOUS
    <3> HIDE DEF W
    <3> QED  BY <1>1, <3>1, LeastNat
  <2>2. k \in a + 1 .. e
    <3>1. k \in a .. e /\ x[k + d] # z \o y[k]
      BY <2>1
    <3>2. k # a
      BY <3>1
    <3> QED  BY <3>1, <3>2
  <2>3. PICK l \in Nat : l = k - 1 /\ l \in a .. e /\ l < k
    <3>1. k - 1 \in Nat /\ k - 1 \in a .. e /\ k - 1 < k
      BY <2>2
    <3> QED  BY <3>1
  <2>4. x[l + d] = z \o y[l]
    <3>1. l \notin W
      <4>1. ~(k <= l)
        BY <2>2, <2>3
      <4> HIDE DEF W
      <4> QED  BY <2>1, <4>1
    <3> QED  BY <2>3, <3>1
  <2>5. /\ r[k] = q[k + d] /\ r[k] \in EventType /\ y[k] = Adding(y[l], r[k], c)
        /\ x[k + d] = Adding(x[l + d], q[k + d], c)
    <3>1. k + d - 1 = l + d /\ k - 1 = l
      BY <2>2, <2>3
    <3> QED  BY <2>2, <3>1 DEF SameTo
  <2>6. y[l] \in Seq(EventType)
    BY <2>3 DEF SameTo
  <2>7. x[k + d] = z \o y[k]
    <3>1. PICK w, m : w \in Seq(EventType) /\ m \in EventType /\ w = y[l] /\ m = r[k]
      BY <2>5, <2>6
    <3>2. Adding(z \o w, m, c) = z \o Adding(w, m, c)
      BY <3>1, AddingAfter
    <3> QED  BY <2>4, <2>5, <3>1, <3>2
  <2> QED  BY <2>1, <2>7
<1>2. e \in a .. e
  OBVIOUS
<1> QED  BY <1>1, <1>2

\* What is gathered of a sequence of messages is one, at every place.
LEMMA GathersEvents ==
  ASSUME NEW q \in Seq(EventType), NEW c, NEW n \in Nat, n = Len(q), NEW x, Gathers(x, q, c, n)
  PROVE  \A i \in 0 .. n : x[i] \in Seq(EventType)
<1>1. {q[j] : j \in {k \in 1 .. n : Asks(q[k], c)}} \subseteq EventType
  BY ElementOfSeq
<1> QED  BY <1>1, SeqMonotonic DEF Gathers

\* Nothing is gathered where c has asked nothing.
NoneIn(q, c, e) == \A i \in 1 .. e : ~Asks(q[i], c)
LEMMA GathersNone ==
  ASSUME NEW q \in Seq(EventType), NEW c, NEW n \in Nat, n = Len(q), NEW x, Gathers(x, q, c, n),
         NEW e \in 0 .. n, NoneIn(q, c, e)
  PROVE  x[e] = <<>>
<1> DEFINE W == {i \in 0 .. e : x[i] # <<>>}
<1>1. ASSUME W # {}  PROVE FALSE
  <2>1. PICK k \in W : \A j \in W : k <= j
    <3>1. W \subseteq Nat
      OBVIOUS
    <3> HIDE DEF W
    <3> QED  BY <1>1, <3>1, LeastNat
  <2>2. k # 0
    BY <2>1 DEF Gathers
  <2>3. k \in 1 .. e /\ k - 1 \in 0 .. e /\ k - 1 < k
    BY <2>1, <2>2
  <2>4. x[k - 1] = <<>>
    BY <2>1, <2>3
  <2>5. x[k] = Adding(x[k - 1], q[k], c)
    BY <2>3 DEF Gathers
  <2> QED  BY <2>1, <2>3, <2>4, <2>5 DEF Adding, NoneIn
<1>2. e \in 0 .. e
  OBVIOUS
<1> QED  BY <1>1, <1>2

\* A message is taken out: if c has not asked it, what c has asked stays, and
\* if it is the first that c has asked, the rest does.
Shifted(x, y, p, n, m) ==
    /\ x[p - 1] = y[p - 1] /\ y[m] = y[n - 1]
    /\ \A z \in Seq(EventType) : x[p] = z \o y[p - 1] => x[n] = z \o y[m]
LEMMA DropsGather ==
  ASSUME NEW q \in Seq(EventType), NEW r \in Seq(EventType), NEW p, Drops(q, p, r), NEW c \in Clients,
         NEW n \in Nat, NEW m \in Nat, n = Len(q), m = Len(r), p \in 1 .. n,
         NEW x, NEW y, Gathers(x, q, c, n), Gathers(y, r, c, m)
  PROVE  Shifted(x, y, p, n, m)
<1>0. PICK k \in Nat, l \in Nat : k = p - 1 /\ l = n - 1
  <2>1. p - 1 \in Nat /\ n - 1 \in Nat
    OBVIOUS
  <2> QED  BY <2>1
<1>1. k = p - 1 /\ l = n - 1 /\ k <= l /\ l <= m /\ m \in {l, l + 1}
  <2>1. m = n - 1 \/ m = n
    BY DEF Drops
  <2> QED  BY <1>0, <2>1
<1>2. \A i \in 1 .. l : r[i] = IF i < p THEN q[i] ELSE q[i + 1]
  BY <1>1 DEF Drops, Came
<1>3. (\A i \in 0 .. m : y[i] \in Seq(EventType)) /\ \A i \in 0 .. n : x[i] \in Seq(EventType)
  BY GathersEvents
<1>4. \A i \in 1 .. m : r[i] \in EventType
  BY ElementOfSeq
<1>5. y[m] = y[l]
  <2>1. CASE m = l
    BY <2>1
  <2>2. CASE m = n
    <3>1. r[m] = ErrorMessage /\ m \in 1 .. m /\ m - 1 = l
      BY <1>1, <2>2 DEF Drops
    <3>2. y[m] = Adding(y[m - 1], r[m], c)
      BY <3>1 DEF Gathers
    <3>3. ~Asks(r[m], c)
      <4>1. ErrorMessage.from = "self" /\ c # "self"
        BY XimAssumption DEF ErrorMessage
      <4> QED  BY <3>1, <4>1 DEF Asks
    <3> QED  BY <3>1, <3>2, <3>3 DEF Adding
  <2> QED  BY <1>1, <2>1, <2>2
<1>6. x[k] = y[k]
  <2>1. PICK z, a, d : z = <<>> /\ a = 0 /\ d = 0
    OBVIOUS
  <2>2. SameTo(x, y, q, r, c, d, a, k)
    <3> SUFFICES ASSUME NEW i \in 1 .. k
                 PROVE  /\ r[i] = q[i] /\ r[i] \in EventType
                        /\ y[i] = Adding(y[i - 1], r[i], c)
                        /\ x[i] = Adding(x[i - 1], q[i], c)
      <4>1. \A i \in 0 .. k : y[i] \in Seq(EventType)
        <5>1. \A i \in 0 .. k : i \in 0 .. m
          BY <1>1
        <5> QED  BY <1>3, <5>1
      <4> QED  BY <2>1, <4>1 DEF SameTo
    <3>1. i \in 1 .. m /\ i \in 1 .. n /\ i \in 1 .. l /\ i < p
      BY <1>1
    <3> QED  BY <1>2, <1>4, <3>1 DEF Gathers
  <2>3. x[0] = <<>> /\ y[0] = <<>> /\ <<>> \o <<>> = <<>>
    BY ConcatEmptySeq, EmptySeq DEF Gathers
  <2>4. /\ z \in Seq(EventType) /\ a \in Nat /\ d \in Nat /\ a <= k /\ After(z, x, y, d, a)
    <3>1. z \in Seq(EventType)
      BY <2>1, EmptySeq
    <3> QED  BY <2>1, <2>3, <3>1 DEF After
  <2>5. After(z, x, y, d, k)
    BY <2>2, <2>4, GatherAlike
  <2>6. <<>> \o y[k] = y[k]
    <3>1. y[k] \in Seq(EventType)
      BY <1>1, <1>3
    <3> QED  BY <3>1, ConcatEmptySeq
  <2> QED  BY <2>1, <2>5, <2>6 DEF After
<1>7. ASSUME NEW z \in Seq(EventType), x[p] = z \o y[k]  PROVE x[n] = z \o y[l]
  <2>1. PICK d : d = 1
    OBVIOUS
  <2>2. SameTo(x, y, q, r, c, d, k, l)
    <3> SUFFICES ASSUME NEW i \in k + 1 .. l
                 PROVE  /\ r[i] = q[i + 1] /\ r[i] \in EventType
                        /\ y[i] = Adding(y[i - 1], r[i], c)
                        /\ x[i + 1] = Adding(x[i + 1 - 1], q[i + 1], c)
      <4>1. \A i \in k .. l : y[i] \in Seq(EventType)
        <5>1. \A i \in k .. l : i \in 0 .. m
          BY <1>1
        <5> QED  BY <1>3, <5>1
      <4> QED  BY <2>1, <4>1 DEF SameTo
    <3>1. i \in 1 .. m /\ i + 1 \in 1 .. n /\ i \in 1 .. l /\ ~(i < p)
      BY <1>1
    <3> QED  BY <1>2, <1>4, <3>1 DEF Gathers
  <2>3. /\ d \in Nat /\ After(z, x, y, d, k) /\ k + 1 = p /\ l + 1 = n
    <3>1. k + 1 = p /\ l + 1 = n
      BY <1>1
    <3> QED  BY <1>7, <2>1, <3>1 DEF After
  <2>4. After(z, x, y, d, l)
    BY <1>1, <2>2, <2>3, GatherAlike
  <2> QED  BY <2>1, <2>3, <2>4 DEF After
<1> QED  BY <1>1, <1>5, <1>6, <1>7 DEF Shifted

LEMMA FrontOfAppend ==
  ASSUME NEW T, NEW s \in Seq(T), NEW e \in T
  PROVE  Append(s, e) # <<>> /\ Front(Append(s, e)) = s
<1>0. PICK n \in Nat : n = Len(s)
  OBVIOUS
<1>1. PICK r : r = Append(s, e)
  OBVIOUS
<1>2. r \in Seq(T) /\ r # <<>> /\ Len(r) = n + 1 /\ \A i \in 1 .. n : r[i] = s[i]
  BY <1>0, <1>1, AppendProperties
<1>3. \A i \in 1 .. n + 1 : r[i] \in T
  BY <1>2, ElementOfSeq
<1>4. Front(r) = SubSeq(r, 1, n)
  <2>1. Len(r) - 1 = n
    BY <1>2
  <2> QED  BY <2>1 DEF Front
<1>5. SubSeq(r, 1, n) = s
  <2>1. \A i \in 1 .. n : r[i] \in T
    BY <1>3
  <2>2. /\ SubSeq(r, 1, n) \in Seq(T) /\ Len(SubSeq(r, 1, n)) = n
        /\ \A i \in 1 .. n : SubSeq(r, 1, n)[i] = r[i]
    <3>1. /\ SubSeq(r, 1, n) \in Seq(T) /\ Len(SubSeq(r, 1, n)) = IF 1 <= n THEN n - 1 + 1 ELSE 0
          /\ \A j \in 1 .. n - 1 + 1 : SubSeq(r, 1, n)[j] = r[1 + j - 1]
      BY <2>1, SubSeqProperties
    <3>2. n - 1 + 1 = n /\ \A j \in 1 .. n : 1 + j - 1 = j
      OBVIOUS
    <3>3. Len(SubSeq(r, 1, n)) = n
      BY <3>1
    <3> QED  BY <3>1, <3>2, <3>3
  <2>3. PICK u \in Seq(T) : u = SubSeq(r, 1, n)
    BY <2>2
  <2>4. Len(u) = Len(s) /\ \A i \in 1 .. Len(s) : u[i] = s[i]
    BY <1>0, <1>1, <1>2, <2>2, <2>3
  <2>5. u = s
    BY <2>4, SeqEqual
  <2> QED  BY <2>3, <2>5
<1> QED  BY <1>1, <1>2, <1>4, <1>5

LEMMA TailIsRest ==
  ASSUME NEW T, NEW e \in T, NEW s \in Seq(T)
  PROVE  <<e>> \o s # <<>> /\ Tail(<<e>> \o s) = s
<1>0. PICK n \in Nat : n = Len(s)
  OBVIOUS
<1>1. PICK u : u = <<e>> \o s
  OBVIOUS
<1>2. u \in Seq(T) /\ Len(u) = 1 + n /\ \A i \in 1 .. 1 + n : u[i] = IF i <= 1 THEN <<e>>[i] ELSE s[i - 1]
  <2>1. <<e>> \in Seq(T) /\ Len(<<e>>) = 1
    OBVIOUS
  <2> QED  BY <1>0, <1>1, <2>1, ConcatProperties
<1>3. u # <<>>
  BY <1>2, EmptySeq
<1>4. Tail(u) \in Seq(T) /\ Len(Tail(u)) = n /\ \A i \in 1 .. n : Tail(u)[i] = u[i + 1]
  BY <1>2, <1>3, TailIs
<1>5. \A i \in 1 .. n : Tail(u)[i] = s[i]
  <2> SUFFICES ASSUME NEW i \in 1 .. n  PROVE u[i + 1] = s[i]
    BY <1>4
  <2>1. i + 1 \in 1 .. 1 + n /\ ~(i + 1 <= 1) /\ (i + 1) - 1 = i
    BY <1>1
  <2> QED  BY <1>2, <2>1
<1> QED  BY <1>0, <1>1, <1>3, <1>4, <1>5, SeqEqual

\* What c has asked, when something else is taken or the first of it.
LEMMA PendingDrops ==
  ASSUME Types, Types', NEW p \in Nat, Drops(Queue, p, Queue'), NEW c \in Clients
  PROVE  /\ ~Asks(Queue[p], c) => Pending(c)' = Pending(c)
         /\ Asks(Queue[p], c) /\ (\A i \in DOMAIN Queue : Asks(Queue[i], c) => i >= p)
               => Pending(c) # <<>> /\ Pending(c)' = Tail(Pending(c))
<1>0. PICK n \in Nat, m \in Nat : n = Len(Queue) /\ m = Len(Queue')
  BY QueueFacts, QueueFactsNext DEF QueueForm
<1>1. PICK q, r : q = Queue /\ r = Queue' /\ n = Len(q) /\ m = Len(r)
  BY <1>0
<1>2. q \in Seq(EventType) /\ r \in Seq(EventType) /\ DOMAIN q = 1 .. n
  BY <1>1, QueueFacts, QueueFactsNext DEF QueueForm
<1>3. Drops(q, p, r) /\ p \in 1 .. n
  BY <1>1 DEF Drops
<1>4. PICK x : Gathers(x, q, c, n) /\ Requests(q, c) = x[n]
  BY <1>1, <1>2, RequestsGather
<1>5. PICK y : Gathers(y, r, c, m) /\ Requests(r, c) = y[m]
  BY <1>1, <1>2, RequestsGather
<1>6. Pending(c) = x[n] /\ Pending(c)' = y[m]
  BY <1>1, <1>4, <1>5 DEF Pending
<1>7. /\ x[p - 1] = y[p - 1] /\ y[m] = y[n - 1]
      /\ \A z \in Seq(EventType) : x[p] = z \o y[p - 1] => x[n] = z \o y[m]
  <2>1. Shifted(x, y, p, n, m)
    BY <1>1, <1>2, <1>3, <1>4, <1>5, DropsGather
  <2> QED  BY <2>1 DEF Shifted
<1>8. PICK k \in Nat : k = p - 1 /\ k \in 0 .. n /\ k \in 0 .. m
  <2>1. p - 1 \in Nat /\ p - 1 \in 0 .. n - 1 /\ (m = n - 1 \/ m = n)
    BY <1>1, <1>3 DEF Drops
  <2> QED  BY <1>1, <2>1
<1>9. x[p] = Adding(x[k], q[p], c)
  BY <1>3, <1>4, <1>8 DEF Gathers
<1>10. y[k] \in Seq(EventType) /\ y[m] \in Seq(EventType)
  <2>1. \A i \in 0 .. m : y[i] \in Seq(EventType)
    BY <1>1, <1>2, <1>5, GathersEvents
  <2> QED  BY <1>1, <1>8, <2>1
<1>11. ASSUME ~Asks(q[p], c)  PROVE x[n] = y[m]
  <2>1. <<>> \in Seq(EventType) /\ <<>> \o y[k] = y[k] /\ <<>> \o y[m] = y[m]
    BY <1>10, EmptySeq, ConcatEmptySeq
  <2>2. x[p] = <<>> \o y[k]
    BY <1>7, <1>8, <1>9, <1>11, <2>1 DEF Adding
  <2> QED  BY <1>7, <1>8, <2>1, <2>2
<1>12. ASSUME Asks(q[p], c), \A i \in 1 .. n : Asks(q[i], c) => i >= p
       PROVE  x[n] # <<>> /\ y[m] = Tail(x[n])
  <2>1. ASSUME NEW i \in 1 .. k  PROVE ~Asks(q[i], c)
    <3>1. i \in 1 .. n /\ ~(i >= p)
      BY <1>3, <1>8
    <3> QED  BY <1>12, <3>1
  <2>2. x[k] = <<>>
    <3>1. NoneIn(q, c, k)
      BY <2>1 DEF NoneIn
    <3>2. q \in Seq(EventType) /\ n = Len(q) /\ Gathers(x, q, c, n) /\ k \in 0 .. n
      BY <1>1, <1>2, <1>4, <1>8
    <3> QED  BY <3>1, <3>2, GathersNone
  <2>3. PICK e \in EventType : e = q[p]
    BY <1>1, <1>2, <1>3, ElementOfSeq
  <2>4. x[p] = <<e>> /\ <<e>> \in Seq(EventType) /\ y[k] = <<>>
    BY <1>7, <1>8, <1>9, <1>12, <2>2, <2>3 DEF Adding
  <2>5. x[p] = <<e>> \o y[k]
    BY <2>4, ConcatEmptySeq
  <2>6. x[n] = <<e>> \o y[m]
    BY <1>7, <1>8, <2>4, <2>5
  <2>7. <<e>> \o y[m] # <<>> /\ Tail(<<e>> \o y[m]) = y[m]
    BY <1>10, <2>3, TailIsRest
  <2> QED  BY <2>6, <2>7
<1> QED  BY <1>1, <1>2, <1>6, <1>11, <1>12

\* What c has asked, when something comes in.
LEMMA PendingLonger ==
  ASSUME Types, Types', NEW e \in EventType, Longer(Queue', Queue, e, Len(Queue)), NEW c \in Clients
  PROVE  \/ Pending(c)' = Pending(c)
         \/ Pending(c)' # <<>> /\ Front(Pending(c)') = Pending(c)
<1>0. PICK n \in Nat, m \in Nat : n = Len(Queue) /\ m = Len(Queue')
  BY QueueFacts, QueueFactsNext DEF QueueForm
<1>1. PICK q, r : q = Queue /\ r = Queue' /\ n = Len(q) /\ m = Len(r)
  BY <1>0
<1>2. q \in Seq(EventType) /\ r \in Seq(EventType)
  BY <1>1, QueueFacts, QueueFactsNext DEF QueueForm
<1>3. m = n + 1 /\ r[m] = e /\ \A i \in 1 .. n : r[i] = q[i]
  BY <1>1 DEF Longer
<1>4. PICK x : Gathers(x, q, c, n) /\ Requests(q, c) = x[n]
  BY <1>1, <1>2, RequestsGather
<1>5. PICK y : Gathers(y, r, c, m) /\ Requests(r, c) = y[m]
  BY <1>1, <1>2, RequestsGather
<1>6. Pending(c) = x[n] /\ Pending(c)' = y[m]
  BY <1>1, <1>4, <1>5 DEF Pending
<1>7. x[n] \in Seq(EventType)
  <2>1. \A i \in 0 .. n : x[i] \in Seq(EventType)
    BY <1>1, <1>2, <1>4, GathersEvents
  <2> QED  BY <1>1, <2>1
<1>8. y[n] = x[n]
  <2>1. PICK z, a, d : z = <<>> /\ a = 0 /\ d = 0
    OBVIOUS
  <2>2. SameTo(y, x, r, q, c, d, a, n)
    <3>1. \A i \in 0 .. n : x[i] \in Seq(EventType)
      BY <1>1, <1>2, <1>4, GathersEvents
    <3> SUFFICES ASSUME NEW i \in 1 .. n
                 PROVE  /\ q[i] = r[i] /\ q[i] \in EventType
                        /\ x[i] = Adding(x[i - 1], q[i], c)
                        /\ y[i] = Adding(y[i - 1], r[i], c)
      BY <2>1, <3>1 DEF SameTo
    <3>2. i \in 1 .. m
      <4>1. m = n + 1
        BY <1>3
      <4> QED  BY <4>1
    <3>3. q[i] \in EventType
      BY <1>1, <1>2, ElementOfSeq
    <3> QED  BY <1>3, <1>4, <1>5, <3>2, <3>3 DEF Gathers
  <2>3. x[0] = <<>> /\ y[0] = <<>> /\ <<>> \o <<>> = <<>>
    BY <1>4, <1>5, ConcatEmptySeq, EmptySeq DEF Gathers
  <2>4. /\ z \in Seq(EventType) /\ a \in Nat /\ d \in Nat /\ a <= n /\ After(z, y, x, d, a)
    <3>1. z \in Seq(EventType)
      BY <2>1, EmptySeq
    <3> QED  BY <1>1, <2>1, <2>3, <3>1 DEF After
  <2>5. After(z, y, x, d, n)
    BY <1>1, <2>2, <2>4, GatherAlike
  <2>6. <<>> \o x[n] = x[n]
    BY <1>7, ConcatEmptySeq
  <2> QED  BY <1>1, <2>1, <2>5, <2>6 DEF After
<1>9. y[m] = Adding(x[n], e, c)
  <2>1. m \in 1 .. m /\ m - 1 = n
    BY <1>1, <1>3
  <2> QED  BY <1>3, <1>5, <1>8, <2>1 DEF Gathers
<1>10. Append(x[n], e) # <<>> /\ Front(Append(x[n], e)) = x[n]
  BY <1>7, FrontOfAppend
<1> QED  BY <1>6, <1>9, <1>10 DEF Adding

---------------------------------------------------------------------------
(* Who has gone stays away, and who has not is heard in order.              *)

\* A handler tells nobody but the client it has found.
LEMMA HandleTells ==
  ASSUME NEW m, NEW s, Handle(m, s)
  PROVE  client' = client \/ \E k : Becomes(Sender(s), k)
<1>1. ASSUME NEW told, NEW changes, Answered(s, told, changes)
      PROVE  \E k : Becomes(Sender(s), k)
  BY <1>1 DEF Answered
<1>2. ASSUME NEW told, NEW windows, DisconnectClient(s, told, windows)
      PROVE  \E k : Becomes(Sender(s), k)
  BY <1>2 DEF DisconnectClient, DestroyIcIf, Tell
<1>3. CASE CreateIc(s, m.arg)
  BY <1>3 DEF CreateIc, Tell
<1>4. CASE DestroyIc(s)
  BY <1>4 DEF DestroyIc, DestroyIcIf
<1>5. CASE ForwardKey(s)
  BY <1>5 DEF ForwardKey, Tell
<1>6. CASE SetIcFocus(s, TRUE) \/ SetIcFocus(s, FALSE) \/ PreeditStartReply(s)
  BY <1>6 DEF SetIcFocus, PreeditStartReply
<1>7. CASE \/ Connect(s) \/ Open(s) \/ Close(s) \/ QueryExtension(s) \/ EncodingNego(s, m.arg)
           \/ GetImValues(s) \/ SetIcValues(s) \/ GetIcValues(s) \/ ResetIc(s)
  BY <1>1, <1>7 DEF Connect, Open, Close, QueryExtension, EncodingNego, GetImValues,
                    SetIcValues, GetIcValues, ResetIc
<1>8. CASE Disconnect(s)
  BY <1>2, <1>8 DEF Disconnect
<1> QED  BY <1>3, <1>4, <1>5, <1>6, <1>7, <1>8 DEF Handle

LEMMA GoneStays ==
  ASSUME Types, NEW m, NEW rest, Process(m, rest), NEW c \in Clients, Gone(c)
  PROVE  Gone(c)'
<1>1. CASE client' = client
  BY <1>1 DEF Gone
<1>2. ASSUME NEW d, NEW k, Becomes(d, k)  PROVE Gone(c)'
  <2>1. client'[c] = client[c]
    BY <1>2 DEF Becomes, Types, Gone
  <2> QED  BY <2>1 DEF Gone
<1>3. CASE \E s : Handle(m, s)
  BY <1>1, <1>2, <1>3, HandleTells
<1> QED  BY <1>1, <1>3 DEF Process, Crash

\* What is processed of a client that lives is the first of what it has asked.
LEMMA ReadFirst ==
  ASSUME Types, QInv, NEW p \in Nat, NEW m, Reads(p, m), NEW c \in Clients, ~Gone(c), Asks(m, c)
  PROVE  \A i \in DOMAIN Queue : Asks(Queue[i], c) => i >= p
<1>1. p \in DOMAIN Queue /\ Queue[p] = m
  BY DEF Reads
<1>2. <<m.major, m.arg>> \in Steps(c)
  BY <1>1 DEF QInv, InTurn
<1>3. m.major # "ERROR"
  <2>1. PICK q : q = <<m.major, m.arg>>
    OBVIOUS
  <2>2. q[1] \in Majors \ {"", "START_REPLY", "ERROR"}
    BY <1>2, <2>1, StepsAre
  <2> QED  BY <2>1, <2>2
<1>4. client[c].phase \in Present
  BY <1>2 DEF Steps, Present
<1>5. PICK s \in Valid : Sender(s) = c
  BY <1>4 DEF QInv, Placed
<1>6. Fits(m, s)
  BY <1>1, <1>5 DEF QInv, Fitting
<1>7. Found(m) = s
  BY <1>5, <1>6, OwnFound DEF QInv
<1> QED  BY <1>3, <1>5, <1>7, FirstAsked

\* What c has asked stays, or the first of it leaves, or one comes in.
Orderly(c) == \/ Pending(c)' = Pending(c)
              \/ Pending(c) # <<>> /\ Pending(c)' = Tail(Pending(c))
              \/ Pending(c)' # <<>> /\ Front(Pending(c)') = Pending(c)

LEMMA QueueStays ==
  ASSUME Queue' = Queue, NEW c
  PROVE  Orderly(c)
BY DEF Pending, Orderly

LEMMA ReadOrderly ==
  ASSUME Types, Types', QInv, NEW p \in Nat, NEW m, Reads(p, m), NEW c \in Clients, ~Gone(c)'
  PROVE  Orderly(c)
<1>1. Queue[p] = m /\ Drops(Queue, p, Queue') /\ \E rest : Process(m, rest)
  BY DEF Reads
<1>2. ~Gone(c)
  BY <1>1, GoneStays
<1>3. CASE Asks(m, c)
  <2>1. \A i \in DOMAIN Queue : Asks(Queue[i], c) => i >= p
    BY <1>2, <1>3, ReadFirst
  <2> QED  BY <1>1, <1>3, <2>1, PendingDrops DEF Orderly
<1>4. CASE ~Asks(m, c)
  BY <1>1, <1>4, PendingDrops DEF Orderly
<1> QED  BY <1>3, <1>4

\* A notice is taken, which nobody has asked.
LEMMA NoticeOrderly ==
  ASSUME Types, Types', QInv, scan = 0, events # <<>>, events' = Tail(events),
         UNCHANGED <<eventQ, scan, held>>, Head(events).t # "MESSAGE", NEW c \in Clients
  PROVE  Orderly(c)
<1>1. PICK p \in Nat : Queue[p] = Head(events) /\ Drops(Queue, p, Queue')
  BY HeadTaken
<1>2. ~Asks(Queue[p], c)
  BY <1>1 DEF Asks
<1> QED  BY <1>1, <1>2, PendingDrops DEF Orderly

LEMMA ComesOrderly ==
  ASSUME Types, Types', NEW x \in EventType, Longer(Queue', Queue, x, Len(Queue)), NEW c \in Clients
  PROVE  Orderly(c)
BY PendingLonger DEF Orderly

LEMMA LastComes ==
  ASSUME NEW T, NEW s \in Seq(T), NEW x, Append(s, x) \in Seq(T)
  PROVE  x \in T
<1>1. Append(s, x)[Len(s) + 1] = x /\ Len(s) + 1 \in 1 .. Len(Append(s, x))
  OBVIOUS
<1> QED  BY <1>1, ElementOfSeq

LEMMA StepOrderly ==
  ASSUME Types, Types', QInv, XNext, NEW c \in Clients, ~Gone(c)'
  PROVE  Orderly(c)
<1>1. CASE TakeConnect
  BY <1>1, NoticeOrderly DEF TakeConnect, Taking, TakenOnly
<1>2. CASE TakeMessage
  <2>1. CASE Waits(Head(events))
    BY <1>2, <2>1, AsideStays, QueueStays
  <2>2. CASE ~Waits(Head(events))
    BY <1>2, <2>2, TakenReads, ReadOrderly
  <2> QED  BY <2>1, <2>2
<1>3. CASE ScanOne
  <2>1. CASE Waits(eventQ[scan])
    <3>1. Queue' = Queue
      BY <1>3, <2>1 DEF ScanOne, Queue
    <3> QED  BY <3>1, QueueStays
  <2>2. CASE ~Waits(eventQ[scan])
    BY <1>3, <2>2, ScannedReads, ReadOrderly
  <2> QED  BY <2>1, <2>2
<1>4. CASE ScanEnd
  BY <1>4, EndStays, QueueStays
<1>5. CASE TakeDestroyed
  BY <1>5, NoticeOrderly DEF TakeDestroyed, Taking, TakenOnly
<1>6. CASE TakeRestart
  BY <1>6, NoticeOrderly DEF TakeRestart, Taking, TakenOnly
<1>7. CASE \E e \in errors : XError(e)
  <2>1. Queue' = Queue
    BY <1>7 DEF XError, Queue
  <2> QED  BY <2>1, QueueStays
<1>8. ASSUME NEW d \in Clients, Preconnect(d) \/ Request(d) \/ ReplyStart(d) \/ Die(d)
      PROVE  Orderly(c)
  <2>1. UNCHANGED <<eventQ, held>>
    BY <1>8 DEF Preconnect, Request, ReplyStart, Die, Apart
  <2>2. CASE events' = events
    <3>1. Queue' = Queue
      BY <2>1, <2>2 DEF Queue
    <3> QED  BY <3>1, QueueStays
  <2>3. CASE \E x : events' = Append(events, x)
    <3>1. PICK x : events' = Append(events, x)
      BY <2>3
    <3>2. x \in EventType
      BY <3>1, LastComes DEF Types
    <3> QED  BY <2>1, <3>1, <3>2, Comes, ComesOrderly
  <2>4. events' = events \/ \E x : events' = Append(events, x)
    BY <1>8 DEF Preconnect, Request, ReplyStart, Die, Send
  <2> QED  BY <2>2, <2>3, <2>4
<1>9. CASE WimeRestart
  <2>1. PICK x \in EventType : Longer(Queue', Queue, x, Len(Queue))
    BY <1>9, RestartComes DEF EventIs
  <2> QED  BY <2>1, ComesOrderly
<1> QED
  BY <1>1, <1>2, <1>3, <1>4, <1>5, <1>6, <1>7, <1>8, <1>9 DEF XNext, Server

---------------------------------------------------------------------------
(* What clients show of a composition that is drawn on the spot.            *)

\* A client that shows a composition on the spot has an IC that knows it does.
Shows(s) == /\ Lives(slots[s]) /\ slots[s].ic.style = "on" /\ ~Gone(slots[s].client)
            /\ client[slots[s].client].shown # 0
            => slots[s].ic.preedit # 0
EachShows == \A s \in DOMAIN slots : Shows(s)

\* Two live ICs are in no context of wime together, unless one was made between
\* a restart and its notice.
Shared(r, s) == /\ r # s /\ Lives(slots[r]) /\ Lives(slots[s]) /\ slots[r].ic.cxn = slots[s].ic.cxn
                /\ slots[r].ic.cxn \in DOMAIN cxns
NoneShared == \A r, s \in DOMAIN slots : ~Shared(r, s)
Alone == ~early => NoneShared

\* What is shown stays, or is shown no more.
Unshown(c) == ~Gone(c) => client'[c].shown = client[c].shown \/ client'[c].shown = 0
\* Of the contexts that stay, the compositions do.
KeepsComps == \A k \in DOMAIN cxns : k \in DOMAIN cxns' => cxns'[k].comp = cxns[k].comp

LEMMA ShownChanges ==
  ASSUME NEW r \in ClientType
  PROVE  /\ Updated(r, <<>>).shown = r.shown
         /\ \A p : Updated(r, [phase |-> p]).shown = r.shown
         /\ Updated(r, [awaits |-> ""]).shown = r.shown
         /\ \A p : Updated(r, [phase |-> p, awaits |-> ""]).shown = r.shown
         /\ \A p, n : Updated(r, [phase |-> p, imid |-> n]).shown = r.shown
         /\ Updated(r, [window |-> "own"]).shown = r.shown
         /\ \A n : Updated(r, [owes |-> n]).shown = r.shown
         /\ \A n : Updated(r, [shown |-> n]).shown = n
         /\ \A n : Updated(r, [owes |-> n, shown |-> 0]).shown = 0
         /\ \A st : Updated(r, [awaits |-> "", ic |-> TRUE, style |-> st, shown |-> 0, window |-> "none"]).shown = 0
<1>1. Updated(r, <<>>).shown = r.shown
  BY NoChange
<1>2. \A p : Updated(r, [phase |-> p]).shown = r.shown
  BY DEF Updated, ClientType
<1>3. Updated(r, [awaits |-> ""]).shown = r.shown
  BY DEF Updated, ClientType
<1>4. \A p : Updated(r, [phase |-> p, awaits |-> ""]).shown = r.shown
  BY DEF Updated, ClientType
<1>5. \A p, n : Updated(r, [phase |-> p, imid |-> n]).shown = r.shown
  BY DEF Updated, ClientType
<1>6. Updated(r, [window |-> "own"]).shown = r.shown
  BY DEF Updated, ClientType
<1>7. \A n : Updated(r, [owes |-> n]).shown = r.shown
  BY DEF Updated, ClientType
<1>8. \A n : Updated(r, [shown |-> n]).shown = n
  BY DEF Updated, ClientType
<1>9. \A n : Updated(r, [owes |-> n, shown |-> 0]).shown = 0
  BY DEF Updated, ClientType
<1>10. \A st : Updated(r, [awaits |-> "", ic |-> TRUE, style |-> st, shown |-> 0, window |-> "none"]).shown = 0
  BY DEF Updated, ClientType
<1> QED  BY <1>1, <1>2, <1>3, <1>4, <1>5, <1>6, <1>7, <1>8, <1>9, <1>10

LEMMA ToldIs ==
  ASSUME Types, NEW c \in Clients, NEW k, Becomes(c, k)
  PROVE  /\ \A d \in Clients : d # c => client'[d] = client[d]
         /\ Gone(c) => client'[c] = client[c]
         /\ ~Gone(c) => client'[c] = k
BY DEF Becomes, Types

\* The handlers, those first that answer and leave the rest.
LEMMA AnsweredUnshown ==
  ASSUME Types, NEW c \in Clients, NEW s, c = Sender(s), NEW told, NEW changes, Answered(s, told, changes),
         \/ told = <<>> \/ (\E p : told = [phase |-> p]) \/ (\E p, n : told = [phase |-> p, imid |-> n])
         \/ told = [window |-> "own"] \/ told = [shown |-> 0]
  PROVE  Unshown(c)
<1>1. PICK k \in ClientType : k = [client[c] EXCEPT !.awaits = ""] /\ k.shown = client[c].shown
  <2>1. PICK j \in ClientType : j = client[c]
    BY DEF Types
  <2>2. [j EXCEPT !.awaits = ""] \in ClientType /\ [j EXCEPT !.awaits = ""].shown = j.shown
    BY DEF ClientType, Majors
  <2> QED  BY <2>1, <2>2
<1>2. PICK l : l = Updated(k, told)
  OBVIOUS
<1>3. l.shown = k.shown \/ l.shown = 0
  <2>1. /\ Updated(k, <<>>).shown = k.shown
        /\ \A p : Updated(k, [phase |-> p]).shown = k.shown
        /\ \A p, n : Updated(k, [phase |-> p, imid |-> n]).shown = k.shown
        /\ Updated(k, [window |-> "own"]).shown = k.shown
        /\ Updated(k, [shown |-> 0]).shown = 0
    BY ShownChanges
  <2> QED  BY <1>2, <2>1
<1>4. Becomes(c, l)
  BY <1>1, <1>2 DEF Answered
<1>5. ~Gone(c) => client'[c] = l
  BY <1>4, ToldIs
<1> QED  BY <1>1, <1>3, <1>5 DEF Unshown

LEMMA PlainUnshown ==
  ASSUME Types, NEW c \in Clients, NEW s \in DOMAIN slots, c = Sender(s), NEW st \in Args,
         \/ Connect(s) \/ Open(s) \/ Close(s) \/ PreeditStartReply(s) \/ SetIcValues(s)
         \/ QueryExtension(s) \/ GetImValues(s) \/ GetIcValues(s) \/ EncodingNego(s, st) \/ ResetIc(s)
  PROVE  Unshown(c) /\ UNCHANGED <<cxns, early>>
<1>1. CASE PreeditStartReply(s)
  BY <1>1 DEF PreeditStartReply, Unshown
<1>2. CASE ~PreeditStartReply(s)
  <2>1. PICK told, changes :
           /\ Answered(s, told, changes)
           /\ \/ told = <<>> \/ (\E p : told = [phase |-> p]) \/ (\E p, n : told = [phase |-> p, imid |-> n])
              \/ told = [window |-> "own"] \/ told = [shown |-> 0]
    <3>1. CASE Connect(s)
      BY <3>1 DEF Connect
    <3>2. CASE Open(s)
      BY <3>2 DEF Open
    <3>3. CASE Close(s)
      BY <3>3 DEF Close
    <3>4. CASE QueryExtension(s) \/ GetImValues(s) \/ GetIcValues(s) \/ EncodingNego(s, st)
      BY <3>4 DEF QueryExtension, GetImValues, GetIcValues, EncodingNego
    <3>5. CASE SetIcValues(s)
      BY <3>5 DEF SetIcValues
    <3>6. CASE ResetIc(s)
      BY <3>6 DEF ResetIc
    <3> QED  BY <1>2, <3>1, <3>2, <3>3, <3>4, <3>5, <3>6
  <2> QED  BY <2>1, AnsweredUnshown DEF Answered
<1> QED  BY <1>1, <1>2

TellsOne(c) == /\ \A d \in Clients : d # c => client'[d] = client[d]
               /\ Gone(c) => client'[c] = client[c]

\* Of the shown, only what belongs to one slot changes.
LEMMA OneShows ==
  ASSUME Types, OneSlot, EachShows, NEW s \in DOMAIN slots, NEW c \in Clients, c = Sender(s),
         NEW v, NEW cl, NEW y, NEW i, SlotBecomes(s, v, cl, y, i), TellsOne(c), Shows(s)'
  PROVE  EachShows'
<1>1. /\ DOMAIN slots' = DOMAIN slots /\ \A r \in DOMAIN slots : r # s => slots'[r] = slots[r]
  BY SlotTurns
<1>2. ASSUME NEW r \in DOMAIN slots, r # s  PROVE Shows(r)'
  <2>1. slots[r].client \in Clients /\ slots[r].client # c
    BY <1>2, SenderFacts DEF OneSlot, Sender
  <2>2. client'[slots[r].client] = client[slots[r].client]
    BY <2>1 DEF TellsOne
  <2>3. Shows(r)
    BY DEF EachShows
  <2> QED  BY <1>1, <1>2, <2>2, <2>3 DEF Shows, Gone
<1> QED  BY <1>1, <1>2 DEF EachShows

\* The IC stays as it is, and no more is shown.
LEMMA SameShows ==
  ASSUME Types, OneSlot, EachShows, NEW s \in DOMAIN slots, NEW c \in Clients, c = Sender(s),
         NEW v, NEW cl, NEW y, NEW i, SlotBecomes(s, v, cl, y, i), TellsOne(c), Unshown(c),
         v /\ ~cl /\ i.valid => Lives(slots[s]), i.style = slots[s].ic.style, i.preedit = slots[s].ic.preedit
  PROVE  EachShows'
<1>1. /\ slots'[s].valid = v /\ slots'[s].closed = cl /\ slots'[s].ic = i
      /\ slots'[s].client = slots[s].client
  BY SlotTurns
<1>2. Lives(slots'[s]) => Lives(slots[s])
  BY <1>1 DEF Lives
<1>3. Shows(s)
  BY DEF EachShows
<1>4. ~Gone(c)' => ~Gone(c) /\ (client'[c].shown = client[c].shown \/ client'[c].shown = 0)
  BY DEF TellsOne, Unshown, Gone
<1>5. Shows(s)'
  BY <1>1, <1>2, <1>3, <1>4 DEF Shows, Sender
<1> QED  BY <1>5, OneShows

\* The IC goes.
LEMMA GoneShows ==
  ASSUME Types, OneSlot, EachShows, NEW s \in DOMAIN slots, NEW c \in Clients, c = Sender(s),
         NEW v, NEW cl, NEW y, NEW i, SlotBecomes(s, v, cl, y, i), TellsOne(c), i.valid = FALSE
  PROVE  EachShows'
<1>1. slots'[s].ic = i
  BY SlotTurns
<1>2. ~Lives(slots'[s])
  BY <1>1 DEF Lives
<1>3. Shows(s)'
  BY <1>2 DEF Shows
<1> QED  BY <1>3, OneShows

LEMMA PlainShows ==
  ASSUME Types, OneSlot, EachShows, NEW s \in DOMAIN slots, NEW c \in Clients, c = Sender(s), NEW st \in Args,
         TellsOne(c),
         \/ Connect(s) \/ Open(s) \/ Close(s) \/ PreeditStartReply(s) \/ SetIcValues(s)
         \/ QueryExtension(s) \/ GetImValues(s) \/ GetIcValues(s) \/ EncodingNego(s, st) \/ ResetIc(s)
  PROVE  EachShows'
<1>0. Unshown(c)
  BY PlainUnshown
<1>1. CASE \/ Connect(s) \/ Open(s) \/ PreeditStartReply(s)
           \/ QueryExtension(s) \/ GetImValues(s) \/ GetIcValues(s) \/ EncodingNego(s, st) \/ ResetIc(s)
  <2>1. Stays(s)
    BY <1>1, Answers, ReplyTurns
  <2>2. PICK v, cl, y, i : v = slots[s].valid /\ cl = slots[s].closed /\ y = "" /\ i = slots[s].ic
    OBVIOUS
  <2>3. SlotBecomes(s, v, cl, y, i)
    BY <2>1, <2>2 DEF Stays, Ic
  <2>4. (v /\ ~cl /\ i.valid => Lives(slots[s])) /\ i.style = slots[s].ic.style
        /\ i.preedit = slots[s].ic.preedit
    BY <2>2 DEF Lives
  <2> QED  BY <1>0, <2>3, <2>4, SameShows
<1>2. CASE Close(s)
  <2>1. SlotBecomes(s, slots[s].valid, TRUE, "", Ic(s))
    BY <1>2, Answers
  <2>2. PICK v, cl, y, i : v = slots[s].valid /\ cl = TRUE /\ y = "" /\ i = Ic(s)
    OBVIOUS
  <2>3. SlotBecomes(s, v, cl, y, i)
    BY <2>1, <2>2
  <2>4. (v /\ ~cl /\ i.valid => Lives(slots[s])) /\ i.style = slots[s].ic.style
        /\ i.preedit = slots[s].ic.preedit
    BY <2>2 DEF Ic
  <2> QED  BY <1>0, <2>3, <2>4, SameShows
<1>3. CASE SetIcValues(s)
  <2>1. SlotBecomes(s, slots[s].valid, slots[s].closed, "", [Ic(s) EXCEPT !.window = "own"])
    BY <1>3, Answers
  <2>2. PICK v, cl, y, i : /\ v = slots[s].valid /\ cl = slots[s].closed /\ y = ""
                           /\ i = [Ic(s) EXCEPT !.window = "own"]
    OBVIOUS
  <2>3. SlotBecomes(s, v, cl, y, i)
    BY <2>1, <2>2
  <2>4. i.valid = Ic(s).valid /\ i.style = Ic(s).style /\ i.preedit = Ic(s).preedit
    <3>1. Ic(s) \in IcType
      BY SenderFacts
    <3> QED  BY <2>2, <3>1 DEF IcType
  <2>5. (v /\ ~cl /\ i.valid => Lives(slots[s])) /\ i.style = slots[s].ic.style
        /\ i.preedit = slots[s].ic.preedit
    BY <2>2, <2>4 DEF Lives, Ic
  <2> QED  BY <1>0, <2>3, <2>5, SameShows
<1> QED  BY <1>1, <1>2, <1>3

LEMMA CreateShows ==
  ASSUME Types, OneSlot, EachShows, NEW s \in DOMAIN slots, NEW c \in Clients, c = Sender(s), NEW st \in Args,
         TellsOne(c), CreateIc(s, st)
  PROVE  EachShows'
<1>1. PICK i, v, cl, y : SlotBecomes(s, v, cl, y, i)
  BY CreateTurns
<1>2. ~Gone(c) => client'[c].shown = 0
  <2>1. PICK k : k = Updated(client[c], [awaits |-> "", ic |-> TRUE, style |-> st, shown |-> 0, window |-> "none"])
    OBVIOUS
  <2>2. Becomes(c, k)
    BY <2>1 DEF CreateIc, Tell
  <2>3. client[c] \in ClientType
    BY DEF Types
  <2>4. k.shown = 0
    <3>1. PICK r : r = client[c]
      OBVIOUS
    <3>2. r \in ClientType
      BY <2>3, <3>1
    <3>3. \A x : Updated(r, [awaits |-> "", ic |-> TRUE, style |-> x, shown |-> 0, window |-> "none"]).shown = 0
      BY <3>2, ShownChanges, ZenonT(60)
    <3>4. Updated(r, [awaits |-> "", ic |-> TRUE, style |-> st, shown |-> 0, window |-> "none"]).shown = 0
      BY <3>3
    <3> QED  BY <2>1, <3>1, <3>4
  <2> QED  BY <2>2, <2>4, ToldIs
<1>3. slots'[s].client = slots[s].client
  BY <1>1, SlotTurns
<1>4. Shows(s)'
  BY <1>2, <1>3 DEF Shows, Sender, TellsOne, Gone
<1> QED  BY <1>1, <1>4, OneShows

LEMMA DestroyShows ==
  ASSUME Types, OneSlot, EachShows, NEW s \in DOMAIN slots, NEW c \in Clients, c = Sender(s), TellsOne(c), DestroyIc(s)
  PROVE  EachShows'
<1>1. SlotBecomes(s, slots[s].valid, slots[s].closed, "", [Ic(s) EXCEPT !.valid = FALSE])
  BY DestroyTurns
<1>2. PICK v, cl, y, i : /\ v = slots[s].valid /\ cl = slots[s].closed /\ y = ""
                         /\ i = [Ic(s) EXCEPT !.valid = FALSE]
  OBVIOUS
<1>3. SlotBecomes(s, v, cl, y, i) /\ i.valid = FALSE
  <2>1. Ic(s) \in IcType
    BY SenderFacts
  <2> QED  BY <1>1, <1>2, <2>1, IcChanges
<1> QED  BY <1>3, GoneShows
LEMMA LeaveShows ==
  ASSUME Types, OneSlot, EachShows, NEW s \in DOMAIN slots, NEW c \in Clients, c = Sender(s), TellsOne(c),
         NEW told, NEW windows, DisconnectClient(s, told, windows),
         \/ told = <<>>
         \/ told = [phase |-> "left", awaits |-> ""]
  PROVE  EachShows'
<1>1. SlotBecomes(s, FALSE, slots[s].closed, "", [Ic(s) EXCEPT !.valid = FALSE])
  BY LeaveTurns
<1>2. PICK v, cl, y, i : /\ v = FALSE /\ cl = slots[s].closed /\ y = ""
                         /\ i = [Ic(s) EXCEPT !.valid = FALSE]
  OBVIOUS
<1>3. SlotBecomes(s, v, cl, y, i) /\ i.valid = FALSE
  <2>1. Ic(s) \in IcType
    BY SenderFacts
  <2> QED  BY <1>1, <1>2, <2>1, IcChanges
<1> QED  BY <1>3, GoneShows
LEMMA FocusShows ==
  ASSUME Types, OneSlot, EachShows, NEW s \in DOMAIN slots, NEW c \in Clients, c = Sender(s), TellsOne(c),
         NEW in \in BOOLEAN, SetIcFocus(s, in)
  PROVE  EachShows'
<1>1. SlotBecomes(s, slots[s].valid, slots[s].closed, "", [Ic(s) EXCEPT !.focus = in]) /\ client' = client
  BY FocusTurns
<1>2. PICK v, cl, y, i : /\ v = slots[s].valid /\ cl = slots[s].closed /\ y = ""
                         /\ i = [Ic(s) EXCEPT !.focus = in]
  OBVIOUS
<1>3. i.valid = Ic(s).valid /\ i.style = Ic(s).style /\ i.preedit = Ic(s).preedit
  <2>1. Ic(s) \in IcType
    BY SenderFacts
  <2> QED  BY <1>2, <2>1 DEF IcType
<1>4. SlotBecomes(s, v, cl, y, i) /\ Unshown(c)
  BY <1>1, <1>2 DEF Unshown
<1>5. (v /\ ~cl /\ i.valid => Lives(slots[s])) /\ i.style = slots[s].ic.style
      /\ i.preedit = slots[s].ic.preedit
  BY <1>2, <1>3 DEF Lives, Ic
<1> QED  BY <1>4, <1>5, SameShows

\* Of a key on the spot: nothing is drawn, the composition is drawn or cleared,
\* or nothing is shown and none is left.
SameComp(x) == \A k \in CxnType : Updated(k, x).comp = k.comp
CompIs(x, n) == \A k \in CxnType : Updated(k, x).comp = n
NowShown(o, c) == Updated(client[c], o.told).shown
Idle(o, s, c) == o.ic.preedit = Ic(s).preedit /\ NowShown(o, c) = client[c].shown /\ SameComp(o.cxn)
Draws(o, c) == \E n : NowShown(o, c) = n /\ CompIs(o.cxn, n) /\ (n # 0 => o.ic.preedit # 0)
Blank(o, s, c) == Ic(s).preedit = 0 /\ NowShown(o, c) = client[c].shown /\ CompIs(o.cxn, 0)
OnTheSpot(o, s, c) == /\ o.ic.style = Ic(s).style
                      /\ Ic(s).style = "on" => Idle(o, s, c) \/ Draws(o, c) \/ Blank(o, s, c)

LEMMA CompChanges ==
  /\ SameComp(<<>>)
  /\ \A b : SameComp([open |-> b])
  /\ \A b, d : SameComp([open |-> b, compWin |-> d])
  /\ \A n : CompIs([comp |-> n], n)
<1>1. SameComp(<<>>)
  BY NoChange DEF SameComp
<1>2. \A b : SameComp([open |-> b])
  BY DEF SameComp, Updated, CxnType
<1>3. \A b, d : SameComp([open |-> b, compWin |-> d])
  BY DEF SameComp, Updated, CxnType
<1>4. \A n : CompIs([comp |-> n], n)
  BY DEF CompIs, Updated, CxnType
<1> QED  BY <1>1, <1>2, <1>3, <1>4

LEMMA OutcomesOnTheSpot ==
  ASSUME Types, NEW s \in DOMAIN slots, NEW c \in Clients, c = Sender(s), NEW o \in KeyOutcomes(s)
  PROVE  OnTheSpot(o, s, c)
<1>1. Ic(s) \in IcType /\ client[c] \in ClientType
  BY SenderFacts DEF Types
<1>2. PICK w : w = client[c].owes + 1
  OBVIOUS
<1>3. /\ Updated(client[c], <<>>).shown = client[c].shown
      /\ Updated(client[c], [owes |-> w]).shown = client[c].shown
      /\ Updated(client[c], [owes |-> w, shown |-> 0]).shown = 0
      /\ \A n : Updated(client[c], [shown |-> n]).shown = n
  <2>1. PICK r : r = client[c]
    OBVIOUS
  <2>2. r \in ClientType
    BY <1>1, <2>1
  <2>3. Updated(r, <<>>).shown = r.shown
    BY <2>2, ShownChanges
  <2>4. Updated(r, [owes |-> w]).shown = r.shown
    BY <2>2, ShownChanges
  <2>5. Updated(r, [owes |-> w, shown |-> 0]).shown = 0
    BY <2>2, ShownChanges
  <2>6. \A n : Updated(r, [shown |-> n]).shown = n
    BY <2>2, ShownChanges
  <2> QED  BY <2>1, <2>3, <2>4, <2>5, <2>6
<1>4. ASSUME NEW i, NEW told, NEW x, NEW v, NEW y, i.style = Ic(s).style, i.preedit = Ic(s).preedit,
             Updated(client[c], told).shown = client[c].shown, SameComp(x)
      PROVE  OnTheSpot(Outcome(i, told, x, v, y), s, c)
  BY <1>4 DEF OnTheSpot, Outcome, Idle, NowShown
<1>5. ASSUME NEW i, NEW told, NEW x, NEW v, NEW y, NEW n, i.style = Ic(s).style,
             Updated(client[c], told).shown = n, CompIs(x, n), n = 0 \/ i.preedit # 0
      PROVE  OnTheSpot(Outcome(i, told, x, v, y), s, c)
  BY <1>5 DEF OnTheSpot, Outcome, Draws, NowShown
<1>6. ASSUME NEW i, NEW told, NEW x, NEW v, NEW y, i.style = Ic(s).style, Ic(s).preedit = 0,
             Updated(client[c], told).shown = client[c].shown, CompIs(x, 0)
      PROVE  OnTheSpot(Outcome(i, told, x, v, y), s, c)
  BY <1>6 DEF OnTheSpot, Outcome, Blank, NowShown
<1>7. OnTheSpot(Nothing(s), s, c)
  BY <1>3, <1>4, CompChanges DEF Nothing
<1>8. ASSUME NEW n \in Nat  PROVE OnTheSpot(Drawn(s, n), s, c)
  <2>1. CASE Ic(s).style # "on"
    <3>1. Drawn(s, n) = Outcome(Ic(s), <<>>, [comp |-> n], {}, "")
      BY <2>1 DEF Drawn, Nothing, Outcome
    <3>2. PICK i, told, x, v, y : /\ i = Ic(s) /\ told = <<>> /\ x = [comp |-> n] /\ v = {} /\ y = ""
      OBVIOUS
    <3>3. Outcome(i, told, x, v, y).ic = i
      BY DEF Outcome
    <3>4. Drawn(s, n).ic = Ic(s)
      BY <3>1, <3>2, <3>3
    <3> QED  BY <2>1, <3>4 DEF OnTheSpot
  <2>2. CASE Ic(s).style = "on"
    <3>a. CompIs([comp |-> n], n)
      BY CompChanges
    <3>b. Updated(client[c], <<>>).shown = client[c].shown /\ Updated(client[c], [shown |-> n]).shown = n
      BY <1>3
    <3>d. PICK told, x, none, v : told = [shown |-> n] /\ x = [comp |-> n] /\ none = <<>> /\ v = {"ic"}
      OBVIOUS
    <3>0. /\ told = [shown |-> n] /\ x = [comp |-> n] /\ none = <<>> /\ v = {"ic"}
          /\ CompIs(x, n) /\ Updated(client[c], told).shown = n
          /\ Updated(client[c], none).shown = client[c].shown
      BY <3>a, <3>b, <3>d
    <3>1. CASE n > 0
      <4>1. PICK i : i = [Ic(s) EXCEPT !.preedit = n]
        OBVIOUS
      <4>2. i.style = Ic(s).style /\ i.preedit = n
        BY <1>1, <4>1 DEF IcType
      <4>3. n = 0 \/ i.preedit # 0
        BY <3>1, <4>2
      <4>4. Drawn(s, n) = Outcome(i, told, x, v, "")
        BY <2>2, <3>0, <3>1, <4>1 DEF Drawn
      <4>5. OnTheSpot(Outcome(i, told, x, v, ""), s, c)
        BY <1>5, <3>0, <4>2, <4>3
      <4> QED  BY <4>4, <4>5
    <3>2. CASE ~(n > 0) /\ Ic(s).preedit > 0
      <4>1. Drawn(s, n) = Outcome(Ic(s), told, x, v, "")
        BY <2>2, <3>0, <3>2 DEF Drawn
      <4>2. n = 0
        BY <3>2
      <4>3. OnTheSpot(Outcome(Ic(s), told, x, v, ""), s, c)
        BY <1>5, <3>0, <4>2
      <4> QED  BY <4>1, <4>3
    <3>3. CASE ~(n > 0) /\ ~(Ic(s).preedit > 0)
      <4>1. Drawn(s, n) = Outcome(Ic(s), none, x, v, "")
        BY <2>2, <3>0, <3>3 DEF Drawn
      <4>2. n = 0
        BY <3>3
      <4>3. Ic(s).preedit = 0
        <5>1. PICK d \in Nat : d = Ic(s).preedit
          BY <1>1 DEF IcType
        <5> QED  BY <3>3, <5>1
      <4>4. CompIs(x, 0)
        BY <3>0, <4>2
      <4>5. OnTheSpot(Outcome(Ic(s), none, x, v, ""), s, c)
        BY <1>6, <3>0, <4>3, <4>4
      <4> QED  BY <4>1, <4>5
    <3> QED  BY <3>1, <3>2, <3>3
  <2> QED  BY <2>1, <2>2
<1>9. ASSUME NEW n \in Nat  PROVE OnTheSpot(Done(s, n), s, c)
  <2>1. CASE Ic(s).style # "on" \/ n > 0
    BY <1>8, <2>1 DEF Done
  <2>2. CASE ~(Ic(s).style # "on" \/ n > 0)
    <3>0. PICK cleared, told, x, v, y :
             /\ cleared = [owes |-> w, shown |-> 0] /\ told = [owes |-> w] /\ x = [comp |-> 0] /\ v = {}
             /\ y = "START_REPLY" /\ CompIs(x, 0) /\ Updated(client[c], cleared).shown = 0
             /\ Updated(client[c], told).shown = client[c].shown
      BY <1>3, CompChanges
    <3>1. PICK i : i = [Ic(s) EXCEPT !.preedit = 0]
      OBVIOUS
    <3>x. i.style = Ic(s).style
      BY <1>1, <3>1 DEF IcType
    <3>2. CASE Ic(s).preedit > 0
      <4>1. Done(s, n) = Outcome(i, cleared, x, v, y)
        BY <1>2, <2>2, <3>0, <3>1, <3>2 DEF Done
      <4>2. OnTheSpot(Outcome(i, cleared, x, v, y), s, c)
        BY <1>5, <3>0, <3>x
      <4> QED  BY <4>1, <4>2
    <3>3. CASE ~(Ic(s).preedit > 0)
      <4>1. Done(s, n) = Outcome(i, told, x, v, y)
        BY <1>2, <2>2, <3>0, <3>1, <3>3 DEF Done
      <4>2. Ic(s).preedit = 0
        <5>1. PICK d \in Nat : d = Ic(s).preedit
          BY <1>1 DEF IcType
        <5> QED  BY <3>3, <5>1
      <4>3. OnTheSpot(Outcome(i, told, x, v, y), s, c)
        BY <1>6, <3>0, <3>x, <4>2
      <4> QED  BY <4>1, <4>3
    <3> QED  BY <3>2, <3>3
  <2> QED  BY <2>1, <2>2
<1>10. ASSUME NEW b \in BOOLEAN  PROVE OnTheSpot(ConvStart(s, b), s, c)
  <2>1. PICK i : i = (IF b THEN InitIc(s) ELSE Ic(s)) /\ i.style = Ic(s).style /\ i.preedit = Ic(s).preedit
    <3>1. LET j == [Ic(s) EXCEPT !.window = "made", !.made = TRUE]
          IN  j.style = Ic(s).style /\ j.preedit = Ic(s).preedit
      BY <1>1 DEF IcType
    <3>2. InitIc(s).style = Ic(s).style /\ InitIc(s).preedit = Ic(s).preedit
      BY <3>1 DEF InitIc
    <3> QED  BY <3>2
  <2>2. PICK told, y, v :
           /\ told = (IF i.style = "on" /\ b THEN [owes |-> w] ELSE <<>>)
           /\ y = (IF i.style = "on" /\ b THEN "START_REPLY" ELSE "")
           /\ v = MapCalls(i)
    OBVIOUS
  <2>3. OpenIme(s, i, b) = Outcome(i, told, [open |-> b], v, y)
    BY <1>2, <2>2 DEF OpenIme
  <2>4. Updated(client[c], told).shown = client[c].shown
    BY <1>3, <2>2
  <2>5. CASE ~b
    <3>1. ConvStart(s, b) = Outcome(i, told, [open |-> b], v, y)
      BY <2>1, <2>3, <2>5 DEF ConvStart
    <3>2. SameComp([open |-> b])
      BY CompChanges
    <3> QED  BY <1>4, <2>1, <2>4, <3>1, <3>2
  <2>6. CASE b
    <3>1. PICK u, x : /\ u = v \cup InitCalls(s)
                      /\ x = IF Ic(s).style = "on" THEN [open |-> b, compWin |-> FALSE] ELSE [open |-> b]
      OBVIOUS
    <3>2. PICK q : q = OpenIme(s, i, b)
      OBVIOUS
    <3>3. /\ q = [ic |-> i, told |-> told, cxn |-> [open |-> b], windows |-> v, sync |-> y]
          /\ q.cxn = [open |-> b] /\ q.windows = v
      BY <2>3, <3>2 DEF Outcome
    <3>4. ConvStart(s, b) = [q EXCEPT !.windows = @ \cup InitCalls(s),
                                      !.cxn = IF Ic(s).style = "on" THEN [open |-> b, compWin |-> FALSE] ELSE @]
      BY <2>1, <2>6, <3>2 DEF ConvStart
    <3>5. ConvStart(s, b) = [q EXCEPT !.windows = u, !.cxn = x]
      BY <3>1, <3>3, <3>4
    <3>6. ConvStart(s, b) = Outcome(i, told, x, u, y)
      BY <3>3, <3>5 DEF Outcome
    <3>7. SameComp(x)
      BY <3>1, CompChanges
    <3> QED  BY <1>4, <2>1, <2>4, <3>6, <3>7
  <2> QED  BY <2>5, <2>6
<1>11. \/ o = ConvStart(s, TRUE) \/ o = ConvStart(s, FALSE) \/ o = Nothing(s)
       \/ \E n \in Nat : o = Drawn(s, n) \/ o = Done(s, n)
  BY OutcomeIs
<1> QED  BY <1>7, <1>8, <1>9, <1>10, <1>11

LEMMA KeyShows ==
  ASSUME Types, OneSlot, EachShows, NEW s \in DOMAIN slots, NEW c \in Clients, c = Sender(s), ForwardKey(s)
  PROVE  EachShows'
<1>1. PICK o \in KeyOutcomes(s) :
            /\ OnTheSpot(o, s, c) /\ Tell(c, o.told)
            /\ SlotBecomes(s, slots[s].valid, slots[s].closed, o.sync, o.ic)
  BY KeyIs, OutcomesOnTheSpot
<1>2. PICK k : k = Updated(client[c], o.told) /\ Becomes(c, k)
  BY <1>1 DEF Tell
<1>3. TellsOne(c) /\ (~Gone(c) => client'[c] = k)
  BY <1>2, ToldIs DEF TellsOne
<1>4. /\ slots'[s].valid = slots[s].valid /\ slots'[s].closed = slots[s].closed /\ slots'[s].ic = o.ic
      /\ slots'[s].client = slots[s].client
  BY <1>1, SlotTurns
<1>5. IcAs(o.ic, Ic(s))
  BY OutcomesAreMild DEF Mild
<1>6. Lives(slots'[s]) => Lives(slots[s])
  BY <1>4, <1>5 DEF Lives, IcAs, Ic
<1>7. Shows(s)'
  <2> SUFFICES ASSUME Lives(slots'[s]), slots'[s].ic.style = "on", ~Gone(c)',
                      client'[c].shown # 0
               PROVE  slots'[s].ic.preedit # 0
    BY <1>4 DEF Shows, Sender, Gone
  <2>1. ~Gone(c) /\ client'[c].shown = NowShown(o, c)
    BY <1>2, <1>3 DEF TellsOne, Gone, NowShown
  <2>2. Ic(s).style = "on"
    BY <1>1, <1>4 DEF OnTheSpot
  <2>3. client[c].shown # 0 => Ic(s).preedit # 0
    BY <1>6, <2>1, <2>2 DEF EachShows, Shows, Sender, Ic
  <2>4. Idle(o, s, c) \/ Draws(o, c) \/ Blank(o, s, c)
    BY <1>1, <2>2 DEF OnTheSpot
  <2>5. CASE Idle(o, s, c)
    BY <1>4, <2>1, <2>3, <2>5 DEF Idle
  <2>6. CASE Draws(o, c)
    BY <1>4, <2>1, <2>6 DEF Draws
  <2>7. CASE Blank(o, s, c)
    BY <2>1, <2>3, <2>7 DEF Blank
  <2> QED  BY <2>4, <2>5, <2>6, <2>7
<1>8. PICK v, cl, y, i : SlotBecomes(s, v, cl, y, i)
  BY <1>1
<1> QED  BY <1>3, <1>7, <1>8, OneShows

\* On the spot, a key that changes the composition shows it.
LEMMA KeyDraws ==
  ASSUME Types, EachShows, NEW s \in DOMAIN slots, NEW c \in Clients, c = Sender(s), ForwardKey(s),
         Lives(slots[s]), ~Gone(c), Ic(s).style = "on", NEW k \in DOMAIN cxns, k = Ic(s).cxn,
         client[c].shown = cxns[k].comp, cxns'[k].comp # cxns[k].comp
  PROVE  client'[c].shown = cxns'[k].comp
<1>1. PICK o \in KeyOutcomes(s) :
            /\ OnTheSpot(o, s, c) /\ Tell(c, o.told) /\ cxns'[k] = Updated(cxns[k], o.cxn)
  BY KeyIs, OutcomesOnTheSpot
<1>2. client'[c].shown = NowShown(o, c)
  <2>1. PICK l : l = Updated(client[c], o.told) /\ Becomes(c, l)
    BY <1>1 DEF Tell
  <2>2. client'[c] = l
    BY <2>1, ToldIs
  <2> QED  BY <2>1, <2>2 DEF NowShown
<1>3. cxns[k] \in CxnType
  BY DEF Types
<1>4. Ic(s).preedit = 0 => client[c].shown = 0
  BY DEF EachShows, Shows, Sender, Ic
<1>5. Idle(o, s, c) \/ Draws(o, c) \/ Blank(o, s, c)
  BY <1>1 DEF OnTheSpot
<1>6. ~Idle(o, s, c)
  BY <1>1, <1>3 DEF Idle, SameComp
<1>7. CASE Draws(o, c)
  BY <1>1, <1>2, <1>3, <1>7 DEF Draws, CompIs
<1>8. CASE Blank(o, s, c)
  BY <1>1, <1>2, <1>3, <1>4, <1>8 DEF Blank, CompIs
<1> QED  BY <1>5, <1>6, <1>7, <1>8

\* Of a key to another IC, the composition stays.
LEMMA KeyLeaves ==
  ASSUME Types, NEW s \in DOMAIN slots, NEW c \in Clients, c = Sender(s), ForwardKey(s),
         NEW k \in DOMAIN cxns, k # Ic(s).cxn
  PROVE  cxns'[k] = cxns[k]
BY KeyIs

LEMMA HandleTellsOne ==
  ASSUME Types, NEW m, NEW s, NEW c \in Clients, c = Sender(s), Handle(m, s)
  PROVE  TellsOne(c)
<1>1. client' = client \/ \E k : Becomes(c, k)
  BY HandleTells
<1>2. ASSUME NEW k, Becomes(c, k)  PROVE TellsOne(c)
  BY <1>2, ToldIs DEF TellsOne
<1>3. CASE client' = client
  BY <1>3 DEF TellsOne
<1> QED  BY <1>1, <1>2, <1>3

LEMMA HandleShows ==
  ASSUME Types, OneSlot, EachShows, NEW s \in DOMAIN slots, NEW c \in Clients, c = Sender(s),
         NEW m \in EventType, Handle(m, s)
  PROVE  EachShows'
<1>0. m.arg \in Args /\ TellsOne(c)
  BY HandleTellsOne DEF EventType
<1>1. CASE \/ Connect(s) \/ Open(s) \/ Close(s) \/ PreeditStartReply(s) \/ SetIcValues(s)
           \/ QueryExtension(s) \/ GetImValues(s) \/ GetIcValues(s) \/ EncodingNego(s, m.arg) \/ ResetIc(s)
  BY <1>0, <1>1, PlainShows
<1>2. CASE CreateIc(s, m.arg)
  BY <1>0, <1>2, CreateShows
<1>3. CASE DestroyIc(s)
  BY <1>0, <1>3, DestroyShows
<1>4. CASE Disconnect(s)
  <2>1. PICK told, windows : /\ told = [phase |-> "left", awaits |-> ""] /\ windows = {"comm"}
    OBVIOUS
  <2>2. DisconnectClient(s, told, windows)
    BY <1>4, <2>1 DEF Disconnect
  <2> QED  BY <1>0, <2>1, <2>2, LeaveShows
<1>5. CASE SetIcFocus(s, TRUE) \/ SetIcFocus(s, FALSE)
  <2>1. PICK in \in BOOLEAN : SetIcFocus(s, in)
    BY <1>5
  <2> QED  BY <1>0, <2>1, FocusShows
<1>6. CASE ForwardKey(s)
  BY <1>6, KeyShows
<1> QED  BY <1>1, <1>2, <1>3, <1>4, <1>5, <1>6 DEF Handle

\* No IC comes to life or changes its number, and no context comes.
Fewer == /\ \A r \in DOMAIN slots' : Lives(slots'[r]) =>
                r \in DOMAIN slots /\ Lives(slots[r]) /\ slots'[r].ic.cxn = slots[r].ic.cxn
         /\ DOMAIN cxns' \subseteq DOMAIN cxns
LEMMA FewerAlone ==
  ASSUME Fewer, NoneShared
  PROVE  NoneShared'
<1> SUFFICES ASSUME NEW r \in DOMAIN slots', NEW s \in DOMAIN slots', Shared(r, s)'  PROVE FALSE
  BY DEF NoneShared
<1>1. /\ r # s /\ Lives(slots'[r]) /\ Lives(slots'[s]) /\ slots'[r].ic.cxn = slots'[s].ic.cxn
      /\ slots'[r].ic.cxn \in DOMAIN cxns'
  BY DEF Shared
<1>2. /\ r \in DOMAIN slots /\ Lives(slots[r]) /\ slots'[r].ic.cxn = slots[r].ic.cxn
      /\ s \in DOMAIN slots /\ Lives(slots[s]) /\ slots'[s].ic.cxn = slots[s].ic.cxn
      /\ slots'[r].ic.cxn \in DOMAIN cxns
  BY <1>1 DEF Fewer
<1>3. Shared(r, s)
  BY <1>1, <1>2 DEF Shared
<1> QED  BY <1>2, <1>3 DEF NoneShared
LEMMA OwnsAlone == EachOwns => NoneShared
BY DEF EachOwns, Differ, NoneShared, Shared
LEMMA OwnsAloneNext == EachOwns' => NoneShared'
BY OwnsAlone, PTL

LEMMA SlotFewer ==
  ASSUME Types, NEW s \in DOMAIN slots, NEW v, NEW cl, NEW y, NEW i, SlotBecomes(s, v, cl, y, i),
         v /\ ~cl /\ i.valid => Lives(slots[s]) /\ i.cxn = slots[s].ic.cxn,
         DOMAIN cxns' \subseteq DOMAIN cxns
  PROVE  Fewer
<1>1. /\ DOMAIN slots' = DOMAIN slots
      /\ slots'[s].valid = v /\ slots'[s].closed = cl /\ slots'[s].ic = i
      /\ \A r \in DOMAIN slots : r # s => slots'[r] = slots[r]
  BY SlotTurns
<1>2. Lives(slots'[s]) => Lives(slots[s]) /\ slots'[s].ic.cxn = slots[s].ic.cxn
  BY <1>1 DEF Lives
<1> QED  BY <1>1, <1>2 DEF Fewer

LEMMA PlainFewer ==
  ASSUME Types, NEW s \in DOMAIN slots, NEW c \in Clients, c = Sender(s), NEW st \in Args,
         \/ Connect(s) \/ Open(s) \/ Close(s) \/ PreeditStartReply(s) \/ SetIcValues(s)
         \/ QueryExtension(s) \/ GetImValues(s) \/ GetIcValues(s) \/ EncodingNego(s, st) \/ ResetIc(s)
  PROVE  Fewer /\ UNCHANGED <<cxns, early>>
<1>0. UNCHANGED <<cxns, early>>
  BY PlainUnshown
<1>1. CASE \/ Connect(s) \/ Open(s) \/ PreeditStartReply(s)
           \/ QueryExtension(s) \/ GetImValues(s) \/ GetIcValues(s) \/ EncodingNego(s, st) \/ ResetIc(s)
  <2>1. Stays(s)
    BY <1>1, Answers, ReplyTurns
  <2>2. PICK v, cl, y, i : v = slots[s].valid /\ cl = slots[s].closed /\ y = "" /\ i = slots[s].ic
    OBVIOUS
  <2>3. SlotBecomes(s, v, cl, y, i)
    BY <2>1, <2>2 DEF Stays, Ic
  <2>4. v /\ ~cl /\ i.valid => Lives(slots[s]) /\ i.cxn = slots[s].ic.cxn
    BY <2>2 DEF Lives
  <2> QED  BY <1>0, <2>3, <2>4, SlotFewer
<1>2. CASE Close(s)
  <2>1. SlotBecomes(s, slots[s].valid, TRUE, "", Ic(s))
    BY <1>2, Answers
  <2>2. PICK v, cl, y, i : v = slots[s].valid /\ cl = TRUE /\ y = "" /\ i = Ic(s)
    OBVIOUS
  <2>3. SlotBecomes(s, v, cl, y, i) /\ (v /\ ~cl /\ i.valid => Lives(slots[s]) /\ i.cxn = slots[s].ic.cxn)
    BY <2>1, <2>2
  <2> QED  BY <1>0, <2>3, SlotFewer
<1>3. CASE SetIcValues(s)
  <2>1. SlotBecomes(s, slots[s].valid, slots[s].closed, "", [Ic(s) EXCEPT !.window = "own"])
    BY <1>3, Answers
  <2>2. PICK v, cl, y, i : /\ v = slots[s].valid /\ cl = slots[s].closed /\ y = ""
                           /\ i = [Ic(s) EXCEPT !.window = "own"]
    OBVIOUS
  <2>3. SlotBecomes(s, v, cl, y, i)
    BY <2>1, <2>2
  <2>4. i.valid = Ic(s).valid /\ i.cxn = Ic(s).cxn
    <3>1. Ic(s) \in IcType
      BY SenderFacts
    <3> QED  BY <2>2, <3>1 DEF IcType
  <2>5. v /\ ~cl /\ i.valid => Lives(slots[s]) /\ i.cxn = slots[s].ic.cxn
    BY <2>2, <2>4 DEF Lives, Ic
  <2> QED  BY <1>0, <2>3, <2>5, SlotFewer
<1> QED  BY <1>0, <1>1, <1>2, <1>3

LEMMA DestroyFewer ==
  ASSUME Types, NEW s \in DOMAIN slots, NEW c \in Clients, c = Sender(s), DestroyIc(s)
  PROVE  Fewer /\ UNCHANGED early /\ KeepsComps
<1>1. /\ SlotBecomes(s, slots[s].valid, slots[s].closed, "", [Ic(s) EXCEPT !.valid = FALSE])
      /\ cxns' = [k \in DOMAIN cxns \ {Ic(s).cxn} |-> cxns[k]] /\ UNCHANGED early
  BY DestroyTurns
<1>2. PICK v, cl, y, i : /\ v = slots[s].valid /\ cl = slots[s].closed /\ y = ""
                         /\ i = [Ic(s) EXCEPT !.valid = FALSE]
  OBVIOUS
<1>3. SlotBecomes(s, v, cl, y, i) /\ i.valid = FALSE
  <2>1. Ic(s) \in IcType
    BY SenderFacts
  <2> QED  BY <1>1, <1>2, <2>1, IcChanges
<1>4. DOMAIN cxns' \subseteq DOMAIN cxns /\ KeepsComps
  BY <1>1 DEF KeepsComps
<1>5. v /\ ~cl /\ i.valid => Lives(slots[s]) /\ i.cxn = slots[s].ic.cxn
  BY <1>3
<1>6. Fewer
  BY <1>3, <1>4, <1>5, SlotFewer
<1> QED  BY <1>1, <1>4, <1>6
LEMMA LeaveFewer ==
  ASSUME Types, NEW s \in DOMAIN slots, NEW c \in Clients, c = Sender(s),
         NEW told, NEW windows, DisconnectClient(s, told, windows),
         \/ told = <<>>
         \/ told = [phase |-> "left", awaits |-> ""]
  PROVE  Fewer /\ UNCHANGED early /\ KeepsComps
<1>1. /\ SlotBecomes(s, FALSE, slots[s].closed, "", [Ic(s) EXCEPT !.valid = FALSE])
      /\ cxns' = IF Ic(s).valid THEN [k \in DOMAIN cxns \ {Ic(s).cxn} |-> cxns[k]] ELSE cxns
      /\ UNCHANGED early
  BY LeaveTurns
<1>2. PICK v, cl, y, i : /\ v = FALSE /\ cl = slots[s].closed /\ y = ""
                         /\ i = [Ic(s) EXCEPT !.valid = FALSE]
  OBVIOUS
<1>3. SlotBecomes(s, v, cl, y, i) /\ i.valid = FALSE
  <2>1. Ic(s) \in IcType
    BY SenderFacts
  <2> QED  BY <1>1, <1>2, <2>1, IcChanges
<1>4. DOMAIN cxns' \subseteq DOMAIN cxns /\ KeepsComps
  BY <1>1 DEF KeepsComps
<1>5. v /\ ~cl /\ i.valid => Lives(slots[s]) /\ i.cxn = slots[s].ic.cxn
  BY <1>3
<1>6. Fewer
  BY <1>3, <1>4, <1>5, SlotFewer
<1> QED  BY <1>1, <1>4, <1>6
LEMMA FocusFewer ==
  ASSUME Types, NEW s \in DOMAIN slots, NEW in \in BOOLEAN, SetIcFocus(s, in)
  PROVE  Fewer /\ UNCHANGED early /\ KeepsComps
<1>1. /\ SlotBecomes(s, slots[s].valid, slots[s].closed, "", [Ic(s) EXCEPT !.focus = in])
      /\ DOMAIN cxns' = DOMAIN cxns /\ UNCHANGED early
  BY FocusTurns
<1>2. PICK v, cl, y, i : /\ v = slots[s].valid /\ cl = slots[s].closed /\ y = ""
                         /\ i = [Ic(s) EXCEPT !.focus = in]
  OBVIOUS
<1>3. i.valid = Ic(s).valid /\ i.cxn = Ic(s).cxn
  <2>1. Ic(s) \in IcType
    BY SenderFacts
  <2> QED  BY <1>2, <2>1 DEF IcType
<1>4. SlotBecomes(s, v, cl, y, i)
  BY <1>1, <1>2
<1>5. v /\ ~cl /\ i.valid => Lives(slots[s]) /\ i.cxn = slots[s].ic.cxn
  BY <1>2, <1>3 DEF Lives, Ic
<1>6. KeepsComps
  <2>1. \A x \in CxnType : Updated(x, [focus |-> in]).comp = x.comp
    BY DEF Updated, CxnType
  <2>2. \A k \in DOMAIN cxns : cxns[k] \in CxnType
    BY DEF Types
  <2>3. \A k \in DOMAIN cxns : cxns'[k] = IF k = Ic(s).cxn THEN Updated(cxns[k], [focus |-> in]) ELSE cxns[k]
    BY DEF SetIcFocus, Changed, Known
  <2> QED  BY <2>1, <2>2, <2>3 DEF KeepsComps
<1>7. Fewer
  BY <1>1, <1>4, <1>5, SlotFewer
<1> QED  BY <1>1, <1>6, <1>7
LEMMA KeyFewer ==
  ASSUME Types, NEW s \in DOMAIN slots, NEW c \in Clients, c = Sender(s), ForwardKey(s)
  PROVE  Fewer /\ UNCHANGED early
<1>1. PICK i, y : SlotBecomes(s, slots[s].valid, slots[s].closed, y, i) /\ IcAs(i, Ic(s))
  BY KeyTurns
<1>2. DOMAIN cxns' = DOMAIN cxns /\ UNCHANGED early
  BY KeyTurns
<1>3. PICK v, cl : v = slots[s].valid /\ cl = slots[s].closed
  OBVIOUS
<1>4. SlotBecomes(s, v, cl, y, i) /\ i.cxn = slots[s].ic.cxn /\ i.valid = slots[s].ic.valid
  BY <1>1, <1>3 DEF IcAs, Ic
<1>5. v /\ ~cl /\ i.valid => Lives(slots[s]) /\ i.cxn = slots[s].ic.cxn
  BY <1>3, <1>4 DEF Lives
<1>6. Fewer
  BY <1>2, <1>4, <1>5, SlotFewer
<1> QED  BY <1>2, <1>6

\* A request other than for a new IC.
LEMMA HandleFewer ==
  ASSUME Types, NEW s \in DOMAIN slots, NEW c \in Clients, c = Sender(s), NEW m \in EventType, Handle(m, s)
  PROVE  /\ (m.major = "CREATE_IC" /\ CreateIc(s, m.arg)) \/ (Fewer /\ UNCHANGED early)
         /\ (m.major = "KEY" /\ ForwardKey(s)) \/ KeepsComps
<1>0. m.arg \in Args
  BY DEF EventType
<1>1. CASE \/ Connect(s) \/ Open(s) \/ Close(s) \/ PreeditStartReply(s) \/ SetIcValues(s)
           \/ QueryExtension(s) \/ GetImValues(s) \/ GetIcValues(s) \/ EncodingNego(s, m.arg) \/ ResetIc(s)
  <2>1. Fewer /\ UNCHANGED <<cxns, early>>
    BY <1>0, <1>1, PlainFewer
  <2> QED  BY <2>1 DEF KeepsComps
<1>2. CASE m.major = "CREATE_IC" /\ CreateIc(s, m.arg)
  <2>1. PICK k : k = FreeCxn(DOMAIN cxns) /\ cxns' = With(cxns, k, NewCxn)
    BY <1>2 DEF CreateIc
  <2>2. k \notin DOMAIN cxns
    BY <2>1, FreeIsFree DEF Types
  <2>3. KeepsComps
    BY <2>1, <2>2 DEF With, KeepsComps
  <2> QED  BY <1>2, <2>3
<1>3. CASE DestroyIc(s)
  BY <1>3, DestroyFewer
<1>4. CASE Disconnect(s)
  <2>1. PICK told, windows : /\ told = [phase |-> "left", awaits |-> ""] /\ windows = {"comm"}
    OBVIOUS
  <2>2. DisconnectClient(s, told, windows)
    BY <1>4, <2>1 DEF Disconnect
  <2> QED  BY <2>1, <2>2, LeaveFewer
<1>5. CASE SetIcFocus(s, TRUE) \/ SetIcFocus(s, FALSE)
  <2>1. PICK in \in BOOLEAN : SetIcFocus(s, in)
    BY <1>5
  <2> QED  BY <2>1, FocusFewer
<1>6. CASE m.major = "KEY" /\ ForwardKey(s)
  BY <1>6, KeyFewer
<1> QED  BY <1>1, <1>2, <1>3, <1>4, <1>5, <1>6 DEF Handle

LEMMA ReadShows ==
  ASSUME Types, QInv, EachShows, NEW p, NEW m, Reads(p, m)
  PROVE  EachShows'
<1>1. CASE UNCHANGED <<slots, client>>
  BY <1>1 DEF EachShows, Shows, Gone
<1>2. ASSUME NEW s, s = Found(m), s # 0, Handle(m, s)  PROVE EachShows'
  <2>1. s \in DOMAIN slots
    BY <1>2, FoundFacts DEF Valid
  <2>2. PICK c \in Clients : c = Sender(s)
    BY <2>1, SenderFacts
  <2>3. m \in EventType /\ OneSlot
    BY DEF Reads, QInv
  <2> QED  BY <1>2, <2>1, <2>2, <2>3, HandleShows
<1>3. PICK rest : Process(m, rest)
  BY DEF Reads
<1>4. PICK s : s = Found(m)
  OBVIOUS
<1> QED  BY <1>1, <1>2, <1>3, <1>4 DEF Process, Crash

LEMMA ReadAlone ==
  ASSUME Types, QInv, Owned, Alone, NEW p, NEW m, Reads(p, m)
  PROVE  Alone'
<1> SUFFICES ASSUME ~early'  PROVE NoneShared'
  BY DEF Alone
<1>1. CASE UNCHANGED <<slots, cxns, early>>
  BY <1>1 DEF Alone, NoneShared, Shared
<1>2. ASSUME NEW s, s = Found(m), s # 0, Handle(m, s)  PROVE NoneShared'
  <2>1. s \in DOMAIN slots
    BY <1>2, FoundFacts DEF Valid
  <2>2. PICK c \in Clients : c = Sender(s)
    BY <2>1, SenderFacts
  <2>3. m \in EventType /\ m.arg \in Args
    BY DEF Reads, EventType
  <2>4. CASE CreateIc(s, m.arg)
    <3>1. ~early /\ Settled
      BY <2>1, <2>2, <2>3, <2>4, CreateTurns DEF Settled
    <3>2. EachOwns'
      BY <2>1, <2>2, <2>3, <2>4, <3>1, CreateOwns DEF Owned
    <3> QED  BY <3>2, OwnsAloneNext
  <2>5. CASE Fewer /\ UNCHANGED early
    BY <2>5, FewerAlone DEF Alone
  <2> QED  BY <1>2, <2>1, <2>2, <2>3, <2>4, <2>5, HandleFewer
<1>3. PICK rest : Process(m, rest)
  BY DEF Reads
<1>4. PICK s : s = Found(m)
  OBVIOUS
<1> QED  BY <1>1, <1>2, <1>3, <1>4 DEF Process, Crash

\* A client whose composition changes is shown it.
LEMMA ReadRedraws ==
  ASSUME Types, QInv, Alone, EachShows, NEW p, NEW m, Reads(p, m), ~early,
         NEW s \in DOMAIN slots, Lives(slots[s]), Ic(s).style = "on", NEW c \in Clients, c = Sender(s),
         ~Gone(Sender(s))', NEW k \in DOMAIN cxns, k = Ic(s).cxn, k \in DOMAIN cxns',
         client[c].shown = cxns[k].comp, cxns'[k].comp # cxns[k].comp
  PROVE  client'[c].shown = cxns'[k].comp
<1>1. PICK rest : Process(m, rest)
  BY DEF Reads
<1>2. PICK t : t = Found(m)
  OBVIOUS
<1>3. t # 0 /\ Handle(m, t) /\ (m.major \in OfIc => Ic(t).used)
  BY <1>1, <1>2 DEF Process, Crash
<1>4. t \in Valid /\ t \in DOMAIN slots
  BY <1>2, <1>3, FoundFacts DEF Valid
<1>5. PICK d \in Clients : d = Sender(t)
  BY <1>4, SenderFacts
<1>6. m.major = "KEY" /\ ForwardKey(t)
  <2>1. ~KeepsComps
    BY DEF KeepsComps
  <2>2. m \in EventType
    BY DEF Reads
  <2> QED  BY <1>3, <1>4, <1>5, <2>1, <2>2, HandleFewer
<1>7. Lives(slots[t])
  <2>1. Meet(m, t)
    BY <1>2, <1>3, <1>4, HandledMeets
  <2> QED  BY <1>6, <2>1 DEF Meet, OfIc
<1>8. t = s
  <2> SUFFICES ASSUME t # s  PROVE FALSE
    OBVIOUS
  <2>a. ~Shared(t, s)
    BY <1>4 DEF Alone, NoneShared
  <2>1. Ic(t).cxn # k
    BY <1>7, <2>a DEF Shared, Ic
  <2>2. cxns'[k] = cxns[k]
    BY <1>4, <1>5, <1>6, <2>1, KeyLeaves
  <2> QED  BY <2>2
<1>9. slots'[s].client = c
  <2>1. PICK v, cl, y, i : SlotBecomes(s, v, cl, y, i)
    BY <1>5, <1>6, <1>8, KeyTurns
  <2> QED  BY <2>1, SlotTurns DEF Sender
<1>10. ~Gone(c)
  <2>1. TellsOne(c)
    BY <1>3, <1>8, HandleTellsOne
  <2> QED  BY <1>9, <2>1 DEF TellsOne, Gone, Sender
<1> QED  BY <1>6, <1>8, <1>10, KeyDraws

\* No client comes back or is shown more, and no IC comes to life or is drawn.
Shy == \A d \in Clients : ~Gone(d)' => ~Gone(d) /\ (client'[d].shown = client[d].shown \/ client'[d].shown = 0)
Likewise == \A r \in DOMAIN slots' : Lives(slots'[r]) =>
                /\ r \in DOMAIN slots /\ Lives(slots[r]) /\ slots'[r].client = slots[r].client
                /\ slots'[r].ic.style = slots[r].ic.style /\ slots'[r].ic.preedit = slots[r].ic.preedit
LEMMA ShyShows ==
  ASSUME Types, EachShows, Shy, Likewise
  PROVE  EachShows'
<1> SUFFICES ASSUME NEW r \in DOMAIN slots', Lives(slots'[r])  PROVE Shows(r)'
  BY DEF EachShows, Shows
<1>1. /\ r \in DOMAIN slots /\ Lives(slots[r]) /\ slots'[r].client = slots[r].client
      /\ slots'[r].ic.style = slots[r].ic.style /\ slots'[r].ic.preedit = slots[r].ic.preedit
  BY DEF Likewise
<1>2. slots[r].client \in Clients
  BY <1>1, SenderFacts DEF Sender
<1>3. Shows(r)
  BY <1>1 DEF EachShows
<1> QED  BY <1>1, <1>2, <1>3 DEF Shows, Shy, Gone

LEMMA OneShy ==
  ASSUME Types, NEW c \in Clients, TellsOne(c), Unshown(c)
  PROVE  Shy
<1> SUFFICES ASSUME NEW d \in Clients, ~Gone(d)'
             PROVE  ~Gone(d) /\ (client'[d].shown = client[d].shown \/ client'[d].shown = 0)
  BY DEF Shy
<1>1. CASE d = c
  BY <1>1 DEF TellsOne, Unshown, Gone
<1>2. CASE d # c
  BY <1>2 DEF TellsOne, Gone
<1> QED  BY <1>1, <1>2

LEMMA StepShy ==
  ASSUME Types, NEW c \in Clients, Preconnect(c) \/ Request(c) \/ ReplyStart(c) \/ Die(c)
  PROVE  Shy
<1>0. client \in [Clients -> ClientType] /\ client[c] \in ClientType
  BY DEF Types
<1>1. ASSUME NEW k, client' = [client EXCEPT ![c] = k],
             k.phase # "gone" => client[c].phase # "gone" /\ k.shown = client[c].shown
      PROVE  Shy
  BY <1>0, <1>1 DEF Shy, Gone
<1>2. CASE Preconnect(c)
  <2>1. PICK k : k = [client[c] EXCEPT !.phase = "asked"]
    OBVIOUS
  <2>2. client' = [client EXCEPT ![c] = k]
    BY <1>2, <2>1 DEF Preconnect
  <2>3. k.shown = client[c].shown
    BY <1>0, <2>1 DEF ClientType
  <2>4. client[c].phase # "gone"
    BY <1>2 DEF Preconnect
  <2> QED  BY <1>1, <2>2, <2>3, <2>4
<1>3. CASE Request(c)
  <2>1. CASE client' = client
    BY <2>1 DEF Shy, Gone
  <2>2. ASSUME NEW q, client' = [client EXCEPT ![c].awaits = q]  PROVE Shy
    <3>1. PICK k : k = [client[c] EXCEPT !.awaits = q]
      OBVIOUS
    <3>2. client' = [client EXCEPT ![c] = k]
      BY <2>2, <3>1
    <3>3. k.shown = client[c].shown /\ k.phase = client[c].phase
      BY <1>0, <3>1 DEF ClientType
    <3> QED  BY <1>1, <3>2, <3>3
  <2>3. client' = client \/ \E q : client' = [client EXCEPT ![c].awaits = q]
    BY <1>3 DEF Request
  <2> QED  BY <2>1, <2>2, <2>3
<1>4. CASE ReplyStart(c)
  <2>0. PICK w : w = client[c].owes - 1
    OBVIOUS
  <2>1. PICK k : k = [client[c] EXCEPT !.owes = w]
    OBVIOUS
  <2>2. client' = [client EXCEPT ![c] = k]
    BY <1>4, <2>0, <2>1 DEF ReplyStart
  <2>3. k.shown = client[c].shown /\ k.phase = client[c].phase
    BY <1>0, <2>1 DEF ClientType
  <2> QED  BY <1>1, <2>2, <2>3
<1>5. CASE Die(c)
  <2>1. PICK k : k = [NoClient EXCEPT !.phase = "gone", !.imid = client[c].imid]
    OBVIOUS
  <2>2. client' = [client EXCEPT ![c] = k]
    BY <1>5, <2>1 DEF Die
  <2>3. k.phase = "gone"
    BY <2>1 DEF NoClient
  <2> QED  BY <1>1, <2>2, <2>3
<1> QED  BY <1>2, <1>3, <1>4, <1>5

\* Every step keeps what is shown, and the contexts apart.
Drawing == EachShows /\ Alone
LEMMA ShownKept ==
  ASSUME Types, Types', QInv, Owned, Drawing, [XNext]_xVars
  PROVE  Drawing'
<1> USE DEF Drawing
<1>a. ASSUME UNCHANGED slots  PROVE Likewise
  BY <1>a DEF Likewise
<1>b. ASSUME UNCHANGED client  PROVE Shy
  BY <1>b DEF Shy, Gone
<1>c. ASSUME UNCHANGED slots, DOMAIN cxns' \subseteq DOMAIN cxns  PROVE Fewer
  BY <1>c DEF Fewer
<1>d. ASSUME Shy, Likewise, Fewer, UNCHANGED early  PROVE Drawing'
  <2>1. EachShows'
    BY <1>d, ShyShows
  <2>2. Alone'
    BY <1>d, FewerAlone DEF Alone
  <2> QED  BY <2>1, <2>2
<1>1. CASE UNCHANGED xVars
  BY <1>1, <1>a, <1>b, <1>c, <1>d DEF xVars
<1>2. CASE TakeConnect
  <2>1. PICK c \in Clients : Tell(c, [phase |-> "met"]) /\ \E s \in Nat : NewSlot(c, s)
    <3>1. PICK c \in Clients : Head(events).from = c /\ \E s \in Nat : NewSlot(c, s)
      BY <1>2, ConnectTurns DEF QInv
    <3>2. Tell(c, [phase |-> "met"])
      BY <1>2, <3>1 DEF TakeConnect
    <3> QED  BY <3>1, <3>2
  <2>2. PICK s \in Nat : NewSlot(c, s)
    BY <2>1
  <2>3. UNCHANGED <<cxns, early>>
    BY <1>2 DEF TakeConnect
  <2>4. PICK k : k = Updated(client[c], [phase |-> "met"]) /\ Becomes(c, k)
    BY <2>1 DEF Tell
  <2>5. TellsOne(c) /\ (~Gone(c) => client'[c] = k)
    BY <2>4, ToldIs DEF TellsOne
  <2>6. k.shown = client[c].shown
    <3>1. client[c] \in ClientType
      BY DEF Types
    <3> QED  BY <2>4, <3>1, ShownChanges
  <2>7. Shy
    <3>1. Unshown(c)
      BY <2>5, <2>6 DEF Unshown
    <3> QED  BY <2>5, <3>1, OneShy
  <2>8. ~Lives(slots'[s])
    BY <2>2, NewSlotIs DEF NewSlot, Lives
  <2>9. DOMAIN slots' = DOMAIN slots \cup {s} /\ \A r \in DOMAIN slots : r # s => slots'[r] = slots[r]
    BY <2>2 DEF NewSlot
  <2>10. ASSUME NEW r \in DOMAIN slots', Lives(slots'[r])  PROVE r \in DOMAIN slots /\ slots'[r] = slots[r]
    BY <2>8, <2>9, <2>10
  <2>11. Likewise /\ Fewer
    BY <2>3, <2>10 DEF Likewise, Fewer
  <2> QED  BY <1>d, <2>3, <2>7, <2>11
<1>3. CASE TakeMessage
  <2>1. CASE Waits(Head(events))
    <3>1. UNCHANGED <<slots, cxns, client, early>>
      BY <1>3, <2>1 DEF TakeMessage
    <3> QED  BY <3>1, <1>a, <1>b, <1>c, <1>d
  <2>2. CASE ~Waits(Head(events))
    <3>1. PICK p \in Nat : Reads(p, Head(events))
      BY <1>3, <2>2, TakenReads
    <3> QED  BY <3>1, ReadShows, ReadAlone
  <2> QED  BY <2>1, <2>2
<1>4. CASE ScanOne
  <2>1. CASE Waits(eventQ[scan])
    <3>1. UNCHANGED <<slots, cxns, client, early>>
      BY <1>4, <2>1 DEF ScanOne
    <3> QED  BY <3>1, <1>a, <1>b, <1>c, <1>d
  <2>2. CASE ~Waits(eventQ[scan])
    <3>1. PICK p \in Nat : Reads(p, eventQ[scan])
      BY <1>4, <2>2, ScannedReads
    <3> QED  BY <3>1, ReadShows, ReadAlone
  <2> QED  BY <2>1, <2>2
<1>5. CASE ScanEnd
  <2>1. UNCHANGED <<slots, cxns, client, early>>
    BY <1>5 DEF ScanEnd
  <2> QED  BY <2>1, <1>a, <1>b, <1>c, <1>d
<1>6. CASE TakeDestroyed
  <2>1. CASE UNCHANGED <<slots, errors, cxns, client, early>>
    BY <2>1, <1>a, <1>b, <1>c, <1>d
  <2>2. ASSUME NEW s \in Valid, DisconnectClient(s, <<>>, {})  PROVE Drawing'
    <3>1. s \in DOMAIN slots
      BY DEF Valid
    <3>2. PICK c \in Clients : c = Sender(s)
      BY <3>1, SenderFacts
    <3>3. PICK told, windows : told = <<>> /\ windows = {}
      OBVIOUS
    <3>4. DisconnectClient(s, told, windows)
      BY <2>2, <3>3
    <3>5. TellsOne(c)
      <4>1. PICK k : Becomes(c, k)
        BY <3>2, <3>4 DEF DisconnectClient, DestroyIcIf, Tell
      <4> QED  BY <4>1, ToldIs DEF TellsOne
    <3>6. EachShows'
      BY <3>1, <3>2, <3>3, <3>4, <3>5, LeaveShows DEF QInv
    <3>7. Fewer /\ UNCHANGED early
      BY <3>1, <3>2, <3>3, <3>4, LeaveFewer
    <3>8. Alone'
      BY <3>7, FewerAlone DEF Alone
    <3> QED  BY <3>6, <3>8
  <2> QED  BY <1>6, <2>1, <2>2, DestroyedTurns DEF QInv
<1>7. CASE TakeRestart
  <2>1. Shy
    BY <1>7, <1>b DEF TakeRestart
  <2>2. DOMAIN slots' = DOMAIN slots /\ \A s \in DOMAIN slots : Renumbered(slots'[s], slots[s])
    BY <1>7, RestartTurns
  <2>3. Likewise
    BY <2>2 DEF Likewise, Renumbered, Lives
  <2>4. EachOwns'
    BY <1>7, RestartTurns DEF EachOwns, Owns, Differ
  <2>5. NoneShared'
    BY <2>4, OwnsAloneNext
  <2> QED  BY <2>1, <2>3, <2>5, ShyShows DEF Alone
<1>8. CASE \E e \in errors : XError(e)
  <2>1. PICK e : XError(e)
    BY <1>8
  <2>2. /\ slots' = slots \/ \E s \in DOMAIN slots : BadSlot(s)
        /\ UNCHANGED <<cxns, client, early>>
    BY <2>1, BadTurns
  <2>3. CASE slots' = slots
    BY <2>2, <2>3, <1>a, <1>b, <1>c, <1>d
  <2>4. ASSUME NEW s \in DOMAIN slots, BadSlot(s)  PROVE Drawing'
    <3>1. DOMAIN slots' = DOMAIN slots /\ ~slots'[s].valid
          /\ \A r \in DOMAIN slots : r # s => slots'[r] = slots[r]
      BY <2>4 DEF BadSlot
    <3>2. ASSUME NEW r \in DOMAIN slots', Lives(slots'[r])  PROVE r \in DOMAIN slots /\ slots'[r] = slots[r]
      BY <3>1, <3>2 DEF Lives
    <3>3. Likewise /\ Fewer
      BY <2>2, <3>2 DEF Likewise, Fewer
    <3> QED  BY <1>b, <1>d, <2>2, <3>3
  <2> QED  BY <2>2, <2>3, <2>4
<1>9. ASSUME NEW c \in Clients, Preconnect(c) \/ Request(c) \/ ReplyStart(c) \/ Die(c)
      PROVE  Drawing'
  <2>1. UNCHANGED <<slots, cxns, early>>
    BY <1>9 DEF Preconnect, Request, ReplyStart, Die, Apart
  <2>2. Shy
    BY <1>9, StepShy
  <2> QED  BY <1>a, <1>c, <1>d, <2>1, <2>2
<1>10. CASE WimeRestart
  <2>1. UNCHANGED <<slots, client, early>> /\ cxns' = <<>>
    BY <1>10 DEF WimeRestart, Apart
  <2>2. DOMAIN cxns' \subseteq DOMAIN cxns
    BY <2>1
  <2> QED  BY <1>a, <1>b, <1>c, <1>d, <2>1, <2>2
<1> QED
  BY <1>1, <1>2, <1>3, <1>4, <1>5, <1>6, <1>7, <1>8, <1>9, <1>10 DEF XNext, Server

\* The action of ShownStays, of one IC.
Reshown(s) ==
    LET k == Ic(s).cxn
        c == Sender(s)
    IN  /\ ~early /\ ~Gone(c)' /\ Ic(s).style = "on"
        /\ Known(k) /\ Known(k)' /\ s \in LiveIcs' /\ Ic(s)'.cxn = k
        /\ client[c].shown = CompOf(k) /\ cxns'[k].comp # CompOf(k)
        => client'[c].shown = cxns'[k].comp

LEMMA CompsReshown ==
  ASSUME KeepsComps, NEW s
  PROVE  Reshown(s)
BY DEF KeepsComps, Reshown, Known, CompOf, Ic

LEMMA ReadReshown ==
  ASSUME Types, QInv, Alone, EachShows, NEW p, NEW m, Reads(p, m), NEW s \in LiveIcs
  PROVE  Reshown(s)
<1>1. s \in DOMAIN slots /\ Lives(slots[s])
  BY DEF LiveIcs, Lives, Ic
<1>2. PICK c \in Clients : c = Sender(s)
  BY <1>1, SenderFacts
<1>3. PICK k : k = Ic(s).cxn
  OBVIOUS
<1> SUFFICES ASSUME ~early, ~Gone(Sender(s))', Ic(s).style = "on", k \in DOMAIN cxns, k \in DOMAIN cxns',
                    client[c].shown = cxns[k].comp, cxns'[k].comp # cxns[k].comp
             PROVE  client'[c].shown = cxns'[k].comp
  BY <1>2, <1>3 DEF Reshown, Known, CompOf
<1> QED  BY <1>1, <1>2, <1>3, ReadRedraws

LEMMA RestartReshown ==
  ASSUME Types, TakeRestart, NEW s \in LiveIcs
  PROVE  Reshown(s)
<1>1. s \in DOMAIN slots
  BY DEF LiveIcs
<1>2. \A r \in DOMAIN slots : Lives(slots'[r]) => slots'[r].ic.cxn \notin DOMAIN cxns
  BY RestartTurns
<1>3. s \in LiveIcs' => Lives(slots'[s])
  BY DEF LiveIcs, Lives, Ic
<1>4. s \in LiveIcs' => ~(Known(Ic(s).cxn) /\ Ic(s)'.cxn = Ic(s).cxn)
  BY <1>1, <1>2, <1>3 DEF Known, Ic
<1> QED  BY <1>4 DEF Reshown

LEMMA StepReshown ==
  ASSUME Types, QInv, Drawing, XNext, NEW s \in LiveIcs
  PROVE  Reshown(s)
<1> USE DEF Drawing
<1>a. ASSUME UNCHANGED cxns  PROVE Reshown(s)
  <2>1. KeepsComps
    BY <1>a DEF KeepsComps
  <2> QED  BY <2>1, CompsReshown
<1>1. CASE TakeConnect
  BY <1>1, <1>a DEF TakeConnect
<1>2. CASE TakeMessage
  <2>1. CASE Waits(Head(events))
    <3>1. UNCHANGED cxns
      BY <1>2, <2>1 DEF TakeMessage
    <3> QED  BY <3>1, <1>a
  <2>2. CASE ~Waits(Head(events))
    <3>1. PICK p \in Nat : Reads(p, Head(events))
      BY <1>2, <2>2, TakenReads
    <3> QED  BY <3>1, ReadReshown
  <2> QED  BY <2>1, <2>2
<1>3. CASE ScanOne
  <2>1. CASE Waits(eventQ[scan])
    <3>1. UNCHANGED cxns
      BY <1>3, <2>1 DEF ScanOne
    <3> QED  BY <3>1, <1>a
  <2>2. CASE ~Waits(eventQ[scan])
    <3>1. PICK p \in Nat : Reads(p, eventQ[scan])
      BY <1>3, <2>2, ScannedReads
    <3> QED  BY <3>1, ReadReshown
  <2> QED  BY <2>1, <2>2
<1>4. CASE ScanEnd
  BY <1>4, <1>a DEF ScanEnd
<1>5. CASE TakeDestroyed
  <2>1. CASE UNCHANGED <<slots, errors, cxns, client, early>>
    BY <2>1, <1>a
  <2>2. ASSUME NEW r \in Valid, DisconnectClient(r, <<>>, {})  PROVE Reshown(s)
    <3>1. r \in DOMAIN slots
      BY DEF Valid
    <3>2. PICK c \in Clients : c = Sender(r)
      BY <3>1, SenderFacts
    <3>3. PICK told, windows : told = <<>> /\ windows = {}
      OBVIOUS
    <3>4. DisconnectClient(r, told, windows)
      BY <2>2, <3>3
    <3>5. KeepsComps
      BY <3>1, <3>2, <3>3, <3>4, LeaveFewer
    <3> QED  BY <3>5, CompsReshown
  <2> QED  BY <1>5, <2>1, <2>2, DestroyedTurns DEF QInv
<1>6. CASE TakeRestart
  BY <1>6, RestartReshown
<1>7. CASE \E e \in errors : XError(e)
  BY <1>7, <1>a DEF XError
<1>8. CASE \E c \in Clients : Preconnect(c) \/ Request(c) \/ ReplyStart(c) \/ Die(c)
  BY <1>8, <1>a DEF Preconnect, Request, ReplyStart, Die
<1>9. CASE WimeRestart
  <2>1. KeepsComps
    BY <1>9 DEF WimeRestart, KeepsComps
  <2> QED  BY <2>1, CompsReshown
<1> QED  BY <1>1, <1>2, <1>3, <1>4, <1>5, <1>6, <1>7, <1>8, <1>9 DEF XNext, Server

---------------------------------------------------------------------------
(* The theorems.                                                           *)

\* A client that is connected has its WxContext, and all it has asked finds it.
LEMMA FoundLive == Types /\ QInv => LiveFound
<1> SUFFICES ASSUME Types, QInv, NEW c \in Clients, client[c].phase \in Present
             PROVE  \E s \in DOMAIN slots :
                       /\ slots[s].client = c /\ slots[s].valid
                       /\ client[c].imid \in {0, s}
                       /\ \A i \in DOMAIN Pending(c) : Found(Pending(c)[i]) = s
  BY DEF LiveFound, Present
<1>1. PICK s \in Valid : Sender(s) = c
  BY DEF QInv, Placed
<1>2. s \in DOMAIN slots /\ slots[s].client = c /\ slots[s].valid
  BY <1>1 DEF Valid, Sender
<1>3. ~Gone(c)
  BY DEF Gone, Present
<1>4. client[c].imid \in {0, s}
  BY <1>1, <1>3 DEF QInv, Fitting, Knows
<1>5. ASSUME NEW i \in DOMAIN Pending(c)  PROVE Found(Pending(c)[i]) = s
  <2>1. PICK j \in DOMAIN Queue : Pending(c)[i] = Queue[j] /\ Asks(Queue[j], c)
    BY PendingAsked
  <2>2. Asks(Queue[j], Sender(s)) /\ Fits(Queue[j], s)
    BY <1>1, <2>1 DEF QInv, Fitting
  <2>3. OneSlot
    BY DEF QInv
  <2> QED  BY <1>1, <2>1, <2>2, <2>3, OwnFound
<1> QED  BY <1>2, <1>4, <1>5

\* The invariant holds.
XInv == Types /\ QInv /\ Owned /\ Drawing
THEOREM XInvariance == XSpec => []XInv
<1>1. XInit => XInv
  <2> SUFFICES ASSUME XInit  PROVE Owned /\ Drawing
    BY QInit DEF XInv
  <2>1. slots = <<>>
    BY DEF XInit
  <2>2. Owned
    BY <2>1 DEF Owned, EachOwns
  <2>3. Drawing
    BY <2>1 DEF Drawing, EachShows, Alone, NoneShared
  <2> QED  BY <2>2, <2>3
<1>2. XInv /\ [XNext]_xVars => XInv'
  <2> SUFFICES ASSUME XInv, [XNext]_xVars  PROVE XInv'
    OBVIOUS
  <2>1. Types /\ QInv /\ Owned /\ Drawing /\ SoundQueue
    BY DEF XInv, QInv
  <2>2. Types'
    BY <2>1, TypesKept
  <2>3. QInv'
    BY <2>1, <2>2, QKept
  <2>4. Owned'
    BY <2>1, OwnsKept
  <2>5. Drawing'
    BY <2>1, <2>2, ShownKept
  <2> QED  BY <2>2, <2>3, <2>4, <2>5 DEF XInv
<1> QED  BY <1>1, <1>2, PTL DEF XSpec

THEOREM ClientsFound == XSpec => []LiveFound
<1>1. XInv => LiveFound
  BY FoundLive DEF XInv
<1> QED  BY <1>1, XInvariance, PTL

THEOREM OwnContexts == XSpec => []OwnContext
<1>1. XInv => OwnContext
  BY OwnsAre DEF XInv, Owned
<1> QED  BY <1>1, XInvariance, PTL

THEOREM FocusStays == XSpec => []FocusKept
<1>1. XInv => FocusKept
  BY OwnsAre DEF XInv, Owned
<1> QED  BY <1>1, XInvariance, PTL

\* What a client asks is done in the order it asked.
THEOREM DoneInOrder == XSpec => InOrder
<1>1. XInv /\ XInv' /\ [XNext]_xVars => [\A c \in Clients : ~Gone(c)' => Orderly(c)]_xVars
  BY StepOrderly DEF XInv
<1>2. XSpec => [][\A c \in Clients : ~Gone(c)' => Orderly(c)]_xVars
  BY <1>1, XInvariance, PTL DEF XSpec
<1> QED  BY <1>2 DEF InOrder, Orderly

\* A client that shows wime's composition on the spot shows it again when a
\* key has changed it.
THEOREM ShownAgain == XSpec => ShownStays
<1>1. XInv /\ [XNext]_xVars => [\A s \in LiveIcs : Reshown(s)]_xVars
  BY StepReshown DEF XInv
<1>2. XSpec => [][\A s \in LiveIcs : Reshown(s)]_xVars
  BY <1>1, XInvariance, PTL DEF XSpec
<1> QED  BY <1>2 DEF ShownStays, Reshown
===========================================================================
