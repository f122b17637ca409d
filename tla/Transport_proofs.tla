-------------------------- MODULE Transport_proofs --------------------------
(***************************************************************************)
(* Proofs about Transport, for any clients, calls, connections and bounds.  *)
(***************************************************************************)
EXTENDS Transport, FiniteSetTheorems, SequenceTheorems, TLAPS

\* Calls in progress and pieces of packets, with the places that each can have.
Frames == {f \in [call : Names, at : Ats] : /\ f.at = "half" => f.call \in TwoWrites
                                            /\ f.at = "connect" => f.call \in Opening}
Pieces == {x \in [call : Names, part : {"whole", "head", "body"}] :
              x.call = "Init" => x.part = "whole"}

Replies == Names \cup {"refused"}

Types == /\ server \in {"down", "starting", "serving"}
         /\ fds \in Seq(Conns) /\ backlog \in Seq(Conns)
         /\ sessions \subseteq Conns
         /\ reader \in {"select", "body", "read"}
         /\ active \in Conns \cup {None}
         /\ hand \in [call : Names, stale : BOOLEAN]
         /\ in \in [Conns -> Seq(Pieces)]
         /\ out \in [Conns -> Seq(Replies)]
         /\ fd \in [Clients -> Conns \cup {None}]
         /\ calls \in [Clients -> Seq(Frames)]
         /\ registered \subseteq Clients /\ signalled \subseteq Clients /\ torn \subseteq Handlers
         /\ spent \in 0 .. Events

\* Connections are not shared, only those that are served have sessions or
\* are read, and replies wait only for clients that are there.
Apart == \A p, q \in Clients : fd[p] = fd[q] /\ fd[p] # None => p = q
Served == /\ sessions \subseteq ToSet(fds)
          /\ reader # "select" => active \in ToSet(fds)
Unread == \A k \in Conns : ~HasClient(k) => out[k] = <<>>

\* The stack of a client that is not torn: what lies below the top has failed.
Stacked(p) == /\ \A i \in 1 .. Len(calls[p]) - 1 : calls[p][i].at = "failed"
              /\ At(p, "connect") => fd[p] = None

\* Packets are whole, but for the first if its header has been read and the
\* last if its sender is half through.
Aligned(s, due, half) ==
    /\ \A i \in 1 .. Len(s) : s[i].part = "body" <=> IF i = 1 THEN due ELSE s[i - 1].part = "head"
    /\ half <=> IF s = <<>> THEN due ELSE s[Len(s)].part = "head"
Due(k) == reader = "body" /\ active = k

\* Where the one question or its answer is.
Question(x) == x.part # "body" /\ x.call \notin Silent
NoQuestion(s) == \A i \in 1 .. Len(s) : ~Question(s[i])
OneQuestion(s) == \E i \in 1 .. Len(s) :
                     Question(s[i]) /\ \A j \in 1 .. Len(s) : Question(s[j]) => j = i
Owed(s, asks, held, replies) ==
    \/ asks /\ OneQuestion(s) /\ ~held /\ replies = <<>>
    \/ asks /\ NoQuestion(s) /\ held /\ replies = <<>>
    \/ asks /\ NoQuestion(s) /\ ~held /\ Len(replies) = 1
    \/ ~asks /\ NoQuestion(s) /\ ~held /\ replies = <<>>

\* While an Init is on its way there is no session yet.
HoldsInit(k) == reader # "select" /\ active = k /\ hand.call = "Init"
InitDue(k) == HoldsInit(k) \/ \E i \in 1 .. Len(in[k]) : in[k][i].call = "Init"

Linked(k, p) == /\ Aligned(in[k], Due(k), At(p, "half"))
                /\ Owed(in[k], Asks(p), InHand(k), out[k])
                /\ InitDue(k) => k \notin sessions
Sound(p) == /\ Stacked(p)
            /\ fd[p] # None => \A i \in 1 .. Len(out[fd[p]]) : out[fd[p]][i] # "refused"
            /\ fd[p] # None /\ HasServer(fd[p]) => Linked(fd[p], p)

Common == Types /\ Apart /\ Served /\ Unread
Inv == Common /\ \A p \in Clients \ torn : Sound(p)

---------------------------------------------------------------------------
\* Sequences.

LEMMA FrontOf ==
  ASSUME NEW T, NEW s \in Seq(T), s # <<>>
  PROVE  /\ Front(s) \in Seq(T) /\ Len(Front(s)) = Len(s) - 1
         /\ \A i \in 1 .. Len(s) - 1 : Front(s)[i] = s[i]
         /\ Len(s) \in 1 .. Len(s) /\ Last(s) = s[Len(s)] /\ Last(s) \in T
<1>1. Len(s) \in Nat /\ Len(s) >= 1
  <2>1. Len(s) \in Nat \ {0}
    BY EmptySeq
  <2> DEFINE n == Len(s)
  <2>2. n \in Nat \ {0}
    BY <2>1
  <2> HIDE DEF n
  <2>3. n \in Nat /\ n >= 1
    BY <2>2
  <2> QED  BY <2>3 DEF n
<1>2. 1 \in Int /\ Len(s) - 1 \in Int /\ \A i \in 1 .. Len(s) - 1 : s[i] \in T
  BY <1>1, ElementOfSeq
<1> DEFINE f == SubSeq(s, 1, Len(s) - 1)
<1>3. /\ f \in Seq(T) /\ Len(f) = IF 1 <= Len(s) - 1 THEN (Len(s) - 1) - 1 + 1 ELSE 0
      /\ \A i \in 1 .. (Len(s) - 1) - 1 + 1 : f[i] = s[1 + i - 1]
  BY <1>2, SubSeqProperties
<1>4. Last(s) = s[Len(s)] /\ Last(s) \in T
  BY <1>1, ElementOfSeq DEF Last
<1>5. (Len(s) - 1) - 1 + 1 = Len(s) - 1 /\ \A i \in 1 .. Len(s) - 1 : 1 + i - 1 = i
  BY <1>1
<1>6. Front(s) = f
  BY DEF Front
<1> HIDE DEF f
<1>7. Len(f) = Len(s) - 1
  <2> DEFINE n == Len(s)
             m == Len(f)
  <2>1. n \in Nat /\ n >= 1 /\ m = IF 1 <= n - 1 THEN (n - 1) - 1 + 1 ELSE 0
    BY <1>1, <1>3
  <2> HIDE DEF n, m
  <2>2. m = n - 1
    BY <2>1
  <2> QED  BY <2>2 DEF n, m
<1>8. \A i \in 1 .. Len(s) - 1 : f[i] = s[i]
  <2> TAKE i \in 1 .. Len(s) - 1
  <2>1. f[i] = s[1 + i - 1]
    BY <1>3, <1>5
  <2>2. 1 + i - 1 = i
    BY <1>5
  <2> QED  BY <2>1, <2>2
<1> QED  BY <1>1, <1>3, <1>4, <1>6, <1>7, <1>8

\* The top of a stack is replaced.
LEMMA Replaced ==
  ASSUME NEW T, NEW s \in Seq(T), s # <<>>, NEW e \in T
  PROVE  /\ Append(Front(s), e) \in Seq(T) /\ Append(Front(s), e) # <<>>
         /\ Len(Append(Front(s), e)) = Len(s)
         /\ \A i \in 1 .. Len(s) - 1 : Append(Front(s), e)[i] = s[i]
         /\ Last(Append(Front(s), e)) = e
<1>1. /\ Front(s) \in Seq(T) /\ Len(Front(s)) = Len(s) - 1 /\ Len(s) \in Nat
      /\ \A i \in 1 .. Len(s) - 1 : Front(s)[i] = s[i]
  BY FrontOf
<1>2. /\ Append(Front(s), e) \in Seq(T) /\ Append(Front(s), e) # <<>>
      /\ Len(Append(Front(s), e)) = Len(Front(s)) + 1
      /\ \A i \in 1 .. Len(Front(s)) : Append(Front(s), e)[i] = Front(s)[i]
      /\ Append(Front(s), e)[Len(Front(s)) + 1] = e
  BY <1>1, AppendProperties
<1> QED  BY <1>1, <1>2 DEF Last

\* An element is removed.
LEMMA Removed ==
  ASSUME NEW T, NEW s \in Seq(T), NEW i \in DOMAIN s
  PROVE  /\ RemoveAt(s, i) \in Seq(T)
         /\ ToSet(RemoveAt(s, i)) \subseteq ToSet(s)
         /\ ToSet(s) \subseteq ToSet(RemoveAt(s, i)) \cup {s[i]}
<1> DEFINE l == SubSeq(s, 1, i - 1)
           r == SubSeq(s, i + 1, Len(s))
<1>1. Len(s) \in Nat /\ DOMAIN s = 1 .. Len(s) /\ i \in Nat /\ 1 <= i /\ i <= Len(s)
  BY LenProperties
<1>2. \A j \in 1 .. Len(s) : s[j] \in T
  BY ElementOfSeq
<1>3. l \in Seq(T) /\ Len(l) = i - 1 /\ \A j \in 1 .. i - 1 : l[j] = s[j]
  <2>1. 1 \in Int /\ i - 1 \in Int /\ \A j \in 1 .. i - 1 : s[j] \in T
    BY <1>1, <1>2
  <2>2. /\ l \in Seq(T) /\ Len(l) = IF 1 <= i - 1 THEN (i - 1) - 1 + 1 ELSE 0
        /\ \A j \in 1 .. (i - 1) - 1 + 1 : l[j] = s[1 + j - 1]
    BY <2>1, SubSeqProperties
  <2>3. (i - 1) - 1 + 1 = i - 1 /\ \A j \in 1 .. i - 1 : 1 + j - 1 = j
    BY <1>1
  <2> HIDE DEF l
  <2>4. Len(l) = i - 1
    BY <1>1, <2>2
  <2> QED  BY <2>2, <2>3, <2>4
<1>4. r \in Seq(T) /\ Len(r) = Len(s) - i /\ \A j \in 1 .. Len(s) - i : r[j] = s[i + j]
  <2>1. i + 1 \in Int /\ Len(s) \in Int /\ \A j \in i + 1 .. Len(s) : s[j] \in T
    BY <1>1, <1>2
  <2>2. /\ r \in Seq(T) /\ Len(r) = IF i + 1 <= Len(s) THEN Len(s) - (i + 1) + 1 ELSE 0
        /\ \A j \in 1 .. Len(s) - (i + 1) + 1 : r[j] = s[(i + 1) + j - 1]
    BY <2>1, SubSeqProperties
  <2>3. Len(s) - (i + 1) + 1 = Len(s) - i /\ \A j \in 1 .. Len(s) - i : (i + 1) + j - 1 = i + j
    BY <1>1
  <2> HIDE DEF r
  <2>4. Len(r) = Len(s) - i
    BY <1>1, <2>2
  <2> QED  BY <2>2, <2>3, <2>4
<1>5. RemoveAt(s, i) = l \o r
  BY DEF RemoveAt
<1> HIDE DEF l, r
<1> DEFINE t == RemoveAt(s, i)
<1>6. /\ t \in Seq(T) /\ Len(t) = Len(s) - 1
      /\ \A j \in 1 .. Len(s) - 1 : t[j] = IF j < i THEN s[j] ELSE s[j + 1]
  <2>1. /\ l \o r \in Seq(T) /\ Len(l \o r) = Len(l) + Len(r)
        /\ \A j \in 1 .. Len(l) + Len(r) : (l \o r)[j] = IF j <= Len(l) THEN l[j] ELSE r[j - Len(l)]
    BY <1>3, <1>4, ConcatProperties
  <2>2. Len(l) + Len(r) = Len(s) - 1
    BY <1>1, <1>3, <1>4
  <2>3. ASSUME NEW j \in 1 .. Len(s) - 1 PROVE t[j] = IF j < i THEN s[j] ELSE s[j + 1]
    <3>1. CASE j < i
      BY <1>1, <1>3, <1>5, <2>1, <2>2, <3>1
    <3>2. CASE ~(j < i)
      <4>1. j - (i - 1) \in 1 .. Len(s) - i /\ i + (j - (i - 1)) = j + 1
        BY <1>1, <3>2
      <4>2. j - Len(l) = j - (i - 1) /\ ~(j <= Len(l)) /\ j \in 1 .. Len(l) + Len(r)
        BY <1>1, <1>3, <2>2, <3>2
      <4>3. (l \o r)[j] = r[j - (i - 1)]
        BY <2>1, <4>2
      <4> QED  BY <1>4, <1>5, <3>2, <4>1, <4>3
    <3> QED  BY <3>1, <3>2
  <2> QED  BY <1>5, <2>1, <2>2, <2>3
<1>7. DOMAIN t = 1 .. Len(s) - 1
  BY <1>6, LenProperties
<1> HIDE DEF t
<1>8. ToSet(t) \subseteq ToSet(s)
  <2> SUFFICES ASSUME NEW j \in 1 .. Len(s) - 1 PROVE t[j] \in ToSet(s)
    BY <1>7 DEF ToSet
  <2> QED  BY <1>1, <1>6 DEF ToSet
<1>9. ToSet(s) \subseteq ToSet(t) \cup {s[i]}
  <2> SUFFICES ASSUME NEW j \in 1 .. Len(s), j # i PROVE s[j] \in ToSet(t)
    BY <1>1 DEF ToSet
  <2>1. CASE j < i
    <3>1. j \in 1 .. Len(s) - 1 /\ t[j] = s[j]
      BY <1>1, <1>6, <2>1
    <3> QED  BY <1>7, <3>1 DEF ToSet
  <2>2. CASE j > i
    <3>1. j - 1 \in 1 .. Len(s) - 1 /\ t[j - 1] = s[j]
      BY <1>1, <1>6, <2>2
    <3> QED  BY <1>7, <3>1 DEF ToSet
  <2> QED  BY <1>1, <2>1, <2>2
<1> QED  BY <1>6, <1>8, <1>9 DEF t

\* An element is added.
LEMMA Added ==
  ASSUME NEW T, NEW s \in Seq(T), NEW e \in T
  PROVE  Append(s, e) \in Seq(T) /\ ToSet(Append(s, e)) = ToSet(s) \cup {e}
<1> DEFINE t == Append(s, e)
<1>1. /\ t \in Seq(T) /\ Len(t) = Len(s) + 1 /\ Len(s) \in Nat
      /\ \A i \in 1 .. Len(s) : t[i] = s[i]
      /\ t[Len(s) + 1] = e
  BY AppendProperties, LenProperties
<1>2. DOMAIN t = 1 .. Len(s) + 1 /\ DOMAIN s = 1 .. Len(s)
  BY <1>1, LenProperties
<1> HIDE DEF t
<1>3. ToSet(t) \subseteq ToSet(s) \cup {e}
  BY <1>1, <1>2 DEF ToSet
<1>4. ToSet(s) \subseteq ToSet(t) /\ e \in ToSet(t)
  BY <1>1, <1>2 DEF ToSet
<1> QED  BY <1>1, <1>3, <1>4 DEF t

\* The first element is taken.
LEMMA TakenFirst ==
  ASSUME NEW T, NEW s \in Seq(T), s # <<>>
  PROVE  /\ Tail(s) \in Seq(T) /\ Head(s) = s[1] /\ Head(s) \in T
         /\ ToSet(s) = ToSet(Tail(s)) \cup {Head(s)}
<1>1. /\ Head(s) \in T /\ Tail(s) \in Seq(T) /\ Len(Tail(s)) = Len(s) - 1
      /\ \A i \in 1 .. Len(Tail(s)) : Tail(s)[i] = s[i + 1]
  BY HeadTailProperties
<1>2. Len(s) \in Nat \ {0} /\ DOMAIN s = 1 .. Len(s) /\ DOMAIN Tail(s) = 1 .. Len(s) - 1
  BY <1>1, EmptySeq, LenProperties
<1>3. Head(s) = s[1]
  OBVIOUS
<1>4. ToSet(s) \subseteq ToSet(Tail(s)) \cup {Head(s)}
  <2> SUFFICES ASSUME NEW j \in 1 .. Len(s), j # 1 PROVE s[j] \in ToSet(Tail(s))
    BY <1>2, <1>3 DEF ToSet
  <2>1. j - 1 \in 1 .. Len(s) - 1 /\ Tail(s)[j - 1] = s[j]
    BY <1>1, <1>2
  <2> QED  BY <1>2, <2>1 DEF ToSet
<1>5. ToSet(Tail(s)) \subseteq ToSet(s)
  BY <1>1, <1>2 DEF ToSet
<1>6. Head(s) \in ToSet(s)
  BY <1>2, <1>3 DEF ToSet
<1> QED  BY <1>1, <1>3, <1>4, <1>5, <1>6

---------------------------------------------------------------------------
\* Packets on their way.

LEMMA AlignedAdded ==
  ASSUME NEW s \in Seq(Pieces), NEW e \in Pieces, NEW due \in BOOLEAN, NEW half \in BOOLEAN,
         Aligned(s, due, half), e.part = "body" <=> half
  PROVE  Aligned(Append(s, e), due, e.part = "head")
<1> DEFINE t == Append(s, e)
           n == Len(s)
<1>1. /\ Len(t) = n + 1 /\ n \in Nat /\ t # <<>> /\ t[n + 1] = e
      /\ \A i \in 1 .. n : t[i] = s[i]
  BY AppendProperties, LenProperties
<1>2. s = <<>> <=> n = 0
  BY EmptySeq
<1>3. /\ \A i \in 1 .. n : s[i].part = "body" <=> IF i = 1 THEN due ELSE s[i - 1].part = "head"
      /\ half <=> IF n = 0 THEN due ELSE s[n].part = "head"
  BY <1>2 DEF Aligned
<1> HIDE DEF t, n
<1>4. ASSUME NEW i \in 1 .. n + 1
      PROVE  t[i].part = "body" <=> IF i = 1 THEN due ELSE t[i - 1].part = "head"
  <2>1. CASE i \in 1 .. n
    <3>1. t[i] = s[i] /\ (i # 1 => t[i - 1] = s[i - 1])
      BY <1>1, <2>1
    <3> QED  BY <1>3, <2>1, <3>1
  <2>2. CASE i = n + 1
    <3>1. CASE n = 0
      BY <1>1, <1>3, <2>2, <3>1
    <3>2. CASE n # 0
      <4>1. i - 1 = n /\ n \in 1 .. n /\ i # 1
        BY <1>1, <2>2, <3>2
      <4> QED  BY <1>1, <1>3, <2>2, <3>2, <4>1
    <3> QED  BY <3>1, <3>2
  <2> QED  BY <1>1, <2>1, <2>2
<1>5. t[Len(t)] = e
  BY <1>1
<1> QED  BY <1>1, <1>4, <1>5 DEF Aligned, t

LEMMA AlignedTaken ==
  ASSUME NEW s \in Seq(Pieces), s # <<>>, NEW due \in BOOLEAN, NEW half \in BOOLEAN,
         Aligned(s, due, half)
  PROVE  /\ Head(s).part = "body" <=> due
         /\ Aligned(Tail(s), Head(s).part = "head", half)
<1> DEFINE t == Tail(s)
           n == Len(t)
<1>1. /\ t \in Seq(Pieces) /\ Head(s) = s[1] /\ Len(s) = n + 1 /\ n \in Nat
      /\ \A i \in 1 .. n : t[i] = s[i + 1]
  BY HeadTailProperties, LenProperties
<1>2. t = <<>> <=> n = 0
  BY <1>1, EmptySeq
<1>3. /\ \A i \in 1 .. n + 1 : s[i].part = "body" <=> IF i = 1 THEN due ELSE s[i - 1].part = "head"
      /\ half <=> s[n + 1].part = "head"
  BY <1>1 DEF Aligned
<1> HIDE DEF t, n
<1>4. Head(s).part = "body" <=> due
  BY <1>1, <1>3
<1>5. ASSUME NEW i \in 1 .. n
      PROVE  t[i].part = "body" <=> IF i = 1 THEN s[1].part = "head" ELSE t[i - 1].part = "head"
  <2>1. i + 1 \in 1 .. n + 1 /\ i + 1 # 1 /\ (i + 1) - 1 = i
    BY <1>1
  <2>2. s[i + 1].part = "body" <=> s[i].part = "head"
    BY <1>3, <2>1
  <2>3. i # 1 => i - 1 \in 1 .. n /\ (i - 1) + 1 = i
    BY <1>1
  <2>4. i # 1 => t[i - 1] = s[i]
    BY <1>1, <2>3
  <2> QED  BY <1>1, <2>2, <2>4
<1>6. half <=> IF n = 0 THEN s[1].part = "head" ELSE t[n].part = "head"
  <2>1. CASE n = 0
    BY <1>3, <2>1
  <2>2. CASE n # 0
    BY <1>1, <1>3, <2>2
  <2> QED  BY <2>1, <2>2
<1>7. Aligned(t, s[1].part = "head", half)
  BY <1>2, <1>5, <1>6 DEF Aligned, n
<1> QED  BY <1>1, <1>4, <1>7 DEF t

LEMMA QuestionAdded ==
  ASSUME NEW s \in Seq(Pieces), NEW e \in Pieces
  PROVE  /\ NoQuestion(s) /\ Question(e) => OneQuestion(Append(s, e))
         /\ NoQuestion(s) /\ ~Question(e) => NoQuestion(Append(s, e))
         /\ OneQuestion(s) /\ ~Question(e) => OneQuestion(Append(s, e))
<1> DEFINE t == Append(s, e)
           n == Len(s)
<1>1. /\ Len(t) = n + 1 /\ n \in Nat /\ t[n + 1] = e
      /\ \A i \in 1 .. n : t[i] = s[i]
  BY AppendProperties, LenProperties
<1> HIDE DEF t
<1>2. NoQuestion(s) <=> \A i \in 1 .. n : ~Question(t[i])
  BY <1>1 DEF NoQuestion
<1>3. OneQuestion(s) <=> \E i \in 1 .. n :
                            Question(t[i]) /\ \A j \in 1 .. n : Question(t[j]) => j = i
  BY <1>1 DEF OneQuestion
<1> HIDE DEF n
<1>4. ASSUME NoQuestion(s), Question(e) PROVE OneQuestion(t)
  BY <1>1, <1>2, <1>4 DEF OneQuestion
<1>5. ASSUME NoQuestion(s), ~Question(e) PROVE NoQuestion(t)
  BY <1>1, <1>2, <1>5 DEF NoQuestion
<1>6. ASSUME OneQuestion(s), ~Question(e) PROVE OneQuestion(t)
  <2>1. PICK i \in 1 .. n : Question(t[i]) /\ \A j \in 1 .. n : Question(t[j]) => j = i
    BY <1>3, <1>6
  <2>2. i \in 1 .. Len(t) /\ \A j \in 1 .. Len(t) : Question(t[j]) => j = i
    BY <1>1, <1>6, <2>1
  <2> QED  BY <2>1, <2>2 DEF OneQuestion
<1> QED  BY <1>4, <1>5, <1>6 DEF t

LEMMA QuestionTaken ==
  ASSUME NEW s \in Seq(Pieces), s # <<>>
  PROVE  /\ NoQuestion(s) => ~Question(Head(s)) /\ NoQuestion(Tail(s))
         /\ OneQuestion(s) => IF Question(Head(s)) THEN NoQuestion(Tail(s)) ELSE OneQuestion(Tail(s))
<1> DEFINE t == Tail(s)
           n == Len(t)
<1>1. /\ Head(s) = s[1] /\ Len(s) = n + 1 /\ n \in Nat
      /\ \A i \in 1 .. n : t[i] = s[i + 1]
  BY HeadTailProperties, LenProperties
<1>2. NoQuestion(s) <=> \A i \in 1 .. n + 1 : ~Question(s[i])
  BY <1>1 DEF NoQuestion
<1>3. OneQuestion(s) <=> \E i \in 1 .. n + 1 :
                            Question(s[i]) /\ \A j \in 1 .. n + 1 : Question(s[j]) => j = i
  BY <1>1 DEF OneQuestion
<1>4. NoQuestion(t) <=> \A i \in 1 .. n : ~Question(s[i + 1])
  BY <1>1 DEF NoQuestion
<1>5. OneQuestion(t) <=> \E i \in 1 .. n :
                            Question(s[i + 1]) /\ \A j \in 1 .. n : Question(s[j + 1]) => j = i
  BY <1>1 DEF OneQuestion
<1> HIDE DEF t, n
<1>6. \A i \in 1 .. n : i + 1 \in 1 .. n + 1 /\ i + 1 # 1
  BY <1>1
<1>7. 1 \in 1 .. n + 1
  BY <1>1
<1>8. ASSUME NoQuestion(s) PROVE ~Question(s[1]) /\ NoQuestion(t)
  BY <1>2, <1>4, <1>6, <1>7, <1>8
<1>9. ASSUME OneQuestion(s), Question(s[1]) PROVE NoQuestion(t)
  <2>1. PICK i \in 1 .. n + 1 : \A j \in 1 .. n + 1 : Question(s[j]) => j = i
    BY <1>3, <1>9
  <2>2. i = 1
    BY <1>7, <1>9, <2>1
  <2> QED  BY <1>4, <1>6, <2>1, <2>2
<1>10. ASSUME OneQuestion(s), ~Question(s[1]) PROVE OneQuestion(t)
  <2>1. PICK i \in 1 .. n + 1 : Question(s[i]) /\ \A j \in 1 .. n + 1 : Question(s[j]) => j = i
    BY <1>3, <1>10
  <2>2. PICK h \in 1 .. n : i = h + 1
    <3>1. i # 1
      BY <1>10, <2>1
    <3>2. i - 1 \in 1 .. n /\ i = (i - 1) + 1
      BY <1>1, <3>1
    <3> QED  BY <3>2
  <2>3. ASSUME NEW j \in 1 .. n, Question(s[j + 1]) PROVE j = h
    <3>1. j + 1 = h + 1
      BY <1>6, <2>1, <2>2, <2>3
    <3> QED  BY <3>1
  <2> QED  BY <1>5, <2>1, <2>2, <2>3
<1> QED  BY <1>1, <1>8, <1>9, <1>10 DEF t

---------------------------------------------------------------------------
\* Calls and connections.

LEMMA Named ==
  /\ "none" \in Names /\ Opening \subseteq Names /\ Meanings \subseteq Names /\ "refused" \notin Names
  /\ \A p \in Clients : Calls[p] \subseteq Names \ Opening
<1>1. "refused" \notin Opening \cup Meanings \cup {"none"}
  BY DEF Opening, Meanings
<1>2. \A p \in Clients : "refused" \notin Calls[p] /\ Calls[p] \cap Opening = {}
  BY CallsAssumption DEF Opening
<1> QED  BY <1>1, <1>2 DEF Names

LEMMA InitInv == Init => Inv
<1> SUFFICES ASSUME Init PROVE Inv
  OBVIOUS
<1>1. \A T : <<>> \in Seq(T)
  OBVIOUS
<1>2. Nothing \in [call : Names, stale : BOOLEAN]
  BY Named DEF Nothing
<1>3. Empty \in [Conns -> Seq(Pieces)] /\ Empty \in [Conns -> Seq(Replies)]
  BY <1>1 DEF Empty
<1>4. 0 \in 0 .. Events
  BY BoundsAssumption
<1>5. Types
  BY <1>1, <1>2, <1>3, <1>4 DEF Init, Types
<1>6. \A k \in Conns : out[k] = <<>>
  BY DEF Init, Empty
<1>7. Apart /\ Served /\ Unread
  BY <1>6 DEF Init, Apart, Served, Unread, ToSet
<1>8. \A p \in Clients : Sound(p)
  <2> TAKE p \in Clients
  <2>1. calls[p] = <<>> /\ fd[p] = None
    BY DEF Init
  <2>2. \A i \in 1 .. Len(calls[p]) - 1 : FALSE
    BY <2>1
  <2> QED  BY <2>1, <2>2 DEF Sound, Stacked, At, Busy
<1> QED  BY <1>5, <1>7, <1>8 DEF Inv, Common

\* A call in progress goes to another of its places.
LEMMA Gone ==
  ASSUME Types, NEW p \in Clients, Busy(p), NEW where \in Ats, Goto(p, where),
         where = "half" => Top(p).call \in TwoWrites,
         where = "connect" => Top(p).call \in Opening
  PROVE  /\ calls' \in [Clients -> Seq(Frames)]
         /\ \A q \in Clients : q # p => calls'[q] = calls[q]
         /\ Len(calls'[p]) = Len(calls[p])
         /\ \A i \in 1 .. Len(calls[p]) - 1 : calls'[p][i] = calls[p][i]
         /\ Busy(p)' /\ Top(p)'.call = Top(p).call /\ Top(p)'.at = where
<1> DEFINE s == calls[p]
           e == [Last(s) EXCEPT !.at = where]
<1>1. s \in Seq(Frames) /\ s # <<>>
  BY DEF Types, Busy
<1>2. Last(s) \in Frames
  BY <1>1, FrontOf
<1>3. e \in Frames /\ e.call = Last(s).call /\ e.at = where
  BY <1>2 DEF Frames, Top
<1>4. calls' = [calls EXCEPT ![p] = Append(Front(s), e)]
  BY DEF Goto
<1> HIDE DEF e
<1>5. /\ Append(Front(s), e) \in Seq(Frames) /\ Append(Front(s), e) # <<>>
      /\ Len(Append(Front(s), e)) = Len(s)
      /\ \A i \in 1 .. Len(s) - 1 : Append(Front(s), e)[i] = s[i]
      /\ Last(Append(Front(s), e)) = e
  BY <1>1, <1>3, Replaced
<1>6. calls \in [Clients -> Seq(Frames)]
  BY DEF Types
<1>7. calls'[p] = Append(Front(s), e)
  BY <1>4, <1>6
<1>8. Top(p)' = e /\ Busy(p)'
  BY <1>5, <1>7 DEF Top, Busy
<1>9. calls' \in [Clients -> Seq(Frames)] /\ \A q \in Clients : q # p => calls'[q] = calls[q]
  BY <1>4, <1>5, <1>6
<1> QED  BY <1>3, <1>5, <1>7, <1>8, <1>9 DEF Top

\* A call is made, over those in progress.
LEMMA Pushed ==
  ASSUME Types, NEW p \in Clients, NEW s \in Seq(Frames), NEW call \in Names, NEW where \in Ats,
         where = "half" => call \in TwoWrites, where = "connect" => call \in Opening,
         calls' = [calls EXCEPT ![p] = Append(s, [call |-> call, at |-> where])]
  PROVE  /\ calls' \in [Clients -> Seq(Frames)]
         /\ \A q \in Clients : q # p => calls'[q] = calls[q]
         /\ Len(calls'[p]) = Len(s) + 1
         /\ \A i \in 1 .. Len(s) : calls'[p][i] = s[i]
         /\ Busy(p)' /\ Top(p)'.call = call /\ Top(p)'.at = where
<1> DEFINE e == [call |-> call, at |-> where]
<1>1. e \in Frames /\ e.call = call /\ e.at = where
  BY DEF Frames
<1>2. calls' = [calls EXCEPT ![p] = Append(s, e)] /\ calls \in [Clients -> Seq(Frames)]
  BY DEF Types
<1> HIDE DEF e
<1>3. /\ Append(s, e) \in Seq(Frames) /\ Append(s, e) # <<>> /\ Len(Append(s, e)) = Len(s) + 1
      /\ \A i \in 1 .. Len(s) : Append(s, e)[i] = s[i]
      /\ Append(s, e)[Len(s) + 1] = e
  BY <1>1, AppendProperties
<1>4. calls'[p] = Append(s, e)
  BY <1>2
<1>5. Busy(p)' /\ Top(p)' = e
  BY <1>3, <1>4 DEF Top, Busy, Last
<1>6. calls' \in [Clients -> Seq(Frames)] /\ \A q \in Clients : q # p => calls'[q] = calls[q]
  BY <1>2, <1>3
<1> QED  BY <1>1, <1>3, <1>4, <1>5, <1>6

\* What the end of a call leaves.
LEMMA Finished ==
  ASSUME Types, NEW p \in Clients, Busy(p), NEW ok \in BOOLEAN, NEW left \in Seq(Replies),
         Finish(p, ok, left)
  PROVE  /\ calls' = [calls EXCEPT ![p] = Front(@)] /\ calls' \in [Clients -> Seq(Frames)]
         /\ fd' \in [Clients -> Conns \cup {None}] /\ fd'[p] \in {fd[p], None}
         /\ \A q \in Clients : q # p => fd'[q] = fd[q] /\ calls'[q] = calls[q]
         /\ out' \in [Conns -> Seq(Replies)]
         /\ \A k \in Conns : k # fd[p] => out'[k] = out[k]
         /\ fd[p] # None /\ fd'[p] # fd[p] => out'[fd[p]] = <<>>
         /\ fd[p] # None /\ fd'[p] = fd[p] => out'[fd[p]] = left
         /\ Top(p).call \in Opening /\ ~ok => fd'[p] = None
         /\ registered' \subseteq Clients
<1> DEFINE call == Top(p).call
           closes == call = "Finalize" \/ (call \in Opening /\ ~ok)
<1>1. /\ calls' = [calls EXCEPT ![p] = Front(@)]
      /\ fd' = IF closes THEN [fd EXCEPT ![p] = None] ELSE fd
      /\ out' = IF fd[p] = None THEN out
                ELSE [out EXCEPT ![fd[p]] = IF closes THEN <<>> ELSE left]
      /\ registered' = IF call \in Opening THEN registered \cup {p}
                       ELSE IF call = "Finalize" THEN registered \ {p} ELSE registered
  BY DEF Finish
<1>2. /\ calls \in [Clients -> Seq(Frames)] /\ fd \in [Clients -> Conns \cup {None}]
      /\ out \in [Conns -> Seq(Replies)] /\ registered \subseteq Clients
  BY DEF Types
<1>3. Front(calls[p]) \in Seq(Frames)
  BY <1>2, FrontOf DEF Busy
<1>4. /\ calls' \in [Clients -> Seq(Frames)]
      /\ \A q \in Clients : q # p => calls'[q] = calls[q]
  BY <1>1, <1>2, <1>3
<1>5. <<>> \in Seq(Replies)
  OBVIOUS
<1>6. registered' \subseteq Clients
  BY <1>1, <1>2
<1>7. Top(p).call \in Opening /\ ~ok => closes
  OBVIOUS
<1> HIDE DEF closes, call
<1>8. CASE closes
  BY <1>1, <1>2, <1>4, <1>5, <1>6, <1>8
<1>9. CASE ~closes
  BY <1>1, <1>2, <1>4, <1>5, <1>6, <1>7, <1>9
<1> QED  BY <1>8, <1>9

\* A step of a client that gives it at most a connection that nobody has.
LEMMA CommonKept ==
  ASSUME Common, Types', NEW p \in Clients, UNCHANGED <<fds, sessions, reader, active>>,
         \A q \in Clients : q # p => fd'[q] = fd[q],
         fd'[p] \in {fd[p], None} \/ ~HasClient(fd'[p]),
         \A k \in Conns : k # fd[p] => out'[k] = out[k],
         fd[p] # None /\ fd'[p] # fd[p] => out'[fd[p]] = <<>>
  PROVE  Common'
<1>1. Apart'
  <2> SUFFICES ASSUME NEW q \in Clients, NEW r \in Clients, fd'[q] = fd'[r], fd'[q] # None
               PROVE  q = r
    BY DEF Apart
  <2>1. Apart
    BY DEF Common
  <2>2. CASE q # p /\ r # p
    BY <2>1, <2>2 DEF Apart
  <2>3. CASE fd'[p] \in {fd[p], None}
    BY <2>1, <2>3 DEF Apart
  <2>4. CASE ~HasClient(fd'[p])
    BY <2>1, <2>4 DEF HasClient, Apart
  <2> QED  BY <2>3, <2>4
<1>2. Served'
  BY DEF Common, Served
<1>3. Unread'
  <2> SUFFICES ASSUME NEW k \in Conns, ~HasClient(k)' PROVE out'[k] = <<>>
    BY DEF Unread
  <2>1. \A q \in Clients : fd'[q] # k
    BY DEF HasClient
  <2>2. CASE k = fd[p]
    <3>1. fd[p] # None
      BY <2>2, ConnsAssumption
    <3> QED  BY <2>1, <2>2, <3>1
  <2>3. CASE k # fd[p]
    <3>1. ~HasClient(k)
      BY <2>1, <2>3 DEF HasClient
    <3> QED  BY <2>3, <3>1 DEF Common, Unread
  <2> QED  BY <2>2, <2>3
<1> QED  BY <1>1, <1>2, <1>3 DEF Common

\* A client that a step leaves alone.
LEMMA Undisturbed ==
  ASSUME NEW q \in Clients, NEW k, Sound(q), fd[q] = k, fd'[q] = k, calls'[q] = calls[q],
         k # None => /\ in'[k] = in[k] /\ out'[k] = out[k]
                     /\ HasServer(k)' => HasServer(k)
                     /\ Due(k)' <=> Due(k)
                     /\ InHand(k)' <=> InHand(k)
                     /\ HoldsInit(k)' => HoldsInit(k)
                     /\ k \in sessions' => k \in sessions
  PROVE  Sound(q)'
<1>1. Stacked(q)'
  BY DEF Sound, Stacked, At, Busy, Top
<1>2. ASSUME k # None PROVE \A i \in 1 .. Len(out'[k]) : out'[k][i] # "refused"
  BY <1>2 DEF Sound
<1>3. ASSUME k # None, HasServer(k)' PROVE Linked(k, q)'
  <2>1. Linked(k, q)
    BY <1>3 DEF Sound
  <2>2. (At(q, "half")' <=> At(q, "half")) /\ (Asks(q)' <=> Asks(q))
    BY DEF At, Asks, Busy, Top
  <2>3. Aligned(in[k], Due(k), At(q, "half"))'
    BY <1>3, <2>1, <2>2 DEF Linked, Aligned
  <2>4. Owed(in[k], Asks(q), InHand(k), out[k])'
    BY <1>3, <2>1, <2>2 DEF Linked, Owed, OneQuestion, NoQuestion
  <2>5. InitDue(k)' => k \notin sessions'
    BY <1>3, <2>1 DEF Linked, InitDue
  <2> QED  BY <2>3, <2>4, <2>5 DEF Linked
<1> QED  BY <1>1, <1>2, <1>3 DEF Sound

\* Likewise in a step of another client.
LEMMA Aside ==
  ASSUME Types, NEW q \in Clients, Sound(q), UNCHANGED <<threads, sessions, fds>>,
         fd'[q] = fd[q], calls'[q] = calls[q],
         fd[q] # None => /\ in'[fd[q]] = in[fd[q]] /\ out'[fd[q]] = out[fd[q]]
                         /\ fd[q] \in ToSet(backlog') => fd[q] \in ToSet(backlog)
  PROVE  Sound(q)'
<1>1. PICK k \in Conns \cup {None} : k = fd[q]
  BY DEF Types
<1>2. /\ Due(k)' <=> Due(k)
      /\ InHand(k)' <=> InHand(k)
      /\ HoldsInit(k)' => HoldsInit(k)
      /\ k \in sessions' => k \in sessions
  BY DEF Due, InHand, HoldsInit, threads
<1>3. k # None => /\ in'[k] = in[k] /\ out'[k] = out[k]
                  /\ HasServer(k)' => HasServer(k)
  BY <1>1 DEF HasServer
<1>4. fd[q] = k /\ fd'[q] = k
  BY <1>1
<1> QED  BY <1>2, <1>3, <1>4, Undisturbed

\* A client without a connection is sound if its stack is.
LEMMA Detached ==
  ASSUME NEW p \in Clients, fd'[p] = None,
         \A i \in 1 .. Len(calls'[p]) - 1 : calls'[p][i].at = "failed"
  PROVE  Sound(p)'
BY DEF Sound, Stacked

\* What is left of a sound stack when its top has ended asks nothing.
LEMMA StackLeft ==
  ASSUME Types, NEW p \in Clients, Stacked(p), Busy(p), calls' = [calls EXCEPT ![p] = Front(@)]
  PROVE  /\ \A i \in 1 .. Len(calls'[p]) - 1 : calls'[p][i].at = "failed"
         /\ ~Asks(p)' /\ ~At(p, "half")' /\ ~At(p, "connect")'
<1> DEFINE s == calls[p]
           t == calls'[p]
           n == Len(s)
           m == Len(t)
<1>1. s \in Seq(Frames) /\ s # <<>> /\ t = Front(s)
  BY DEF Types, Busy
<1>2. /\ t \in Seq(Frames) /\ m = n - 1 /\ n \in Nat /\ \A i \in 1 .. n - 1 : t[i] = s[i]
  BY <1>1, FrontOf
<1>3. \A i \in 1 .. n - 1 : s[i].at = "failed"
  BY DEF Stacked
<1>4. m \in Nat /\ (t # <<>> => m # 0)
  BY <1>2, EmptySeq
<1>5. Busy(p)' <=> t # <<>>
  BY DEF Busy
<1>6. Top(p)' = t[m]
  BY DEF Top, Last
<1> HIDE DEF s, t, n, m
<1>7. \A i \in 1 .. m : t[i].at = "failed"
  BY <1>2, <1>3, <1>4
<1>8. Busy(p)' => Top(p)'.at = "failed"
  <2>1. t # <<>> => m \in 1 .. m
    BY <1>4
  <2> QED  BY <1>5, <1>6, <1>7, <2>1
<1>9. \A i \in 1 .. m - 1 : t[i].at = "failed"
  BY <1>4, <1>7
<1>10. ~Asks(p)' /\ ~At(p, "half")' /\ ~At(p, "connect")'
  BY <1>8 DEF Asks, At
<1> QED  BY <1>9, <1>10 DEF t, m

LEMMA PieceIs ==
  ASSUME NEW call \in Names, NEW part \in {"whole", "head", "body"},
         call = "Init" => part = "whole"
  PROVE  /\ Piece(call, part) \in Pieces
         /\ Piece(call, part).call = call /\ Piece(call, part).part = part
BY DEF Piece, Pieces

\* What a write leaves.
LEMMA Written ==
  ASSUME Types, NEW p \in Clients, NEW e \in Pieces, CanWrite(p), Write(p, e)
  PROVE  /\ fd[p] \in Conns /\ fd[p] # None /\ HasServer(fd[p])
         /\ in' \in [Conns -> Seq(Pieces)]
         /\ in'[fd[p]] = Append(in[fd[p]], e)
         /\ \A k \in Conns : k # fd[p] => in'[k] = in[k]
<1>1. fd[p] \in Conns /\ fd[p] # None /\ HasServer(fd[p])
  BY DEF Types, CanWrite, Cut
<1>2. in \in [Conns -> Seq(Pieces)] /\ in' = [in EXCEPT ![fd[p]] = Append(@, e)]
  BY DEF Types, Write
<1>3. Append(in[fd[p]], e) \in Seq(Pieces)
  BY <1>1, <1>2, AppendProperties
<1> QED  BY <1>1, <1>2, <1>3

\* Whether there is an Init on the way.
LEMMA InitAdded ==
  ASSUME NEW s \in Seq(Pieces), NEW e \in Pieces, e.call # "Init",
         \E i \in 1 .. Len(Append(s, e)) : Append(s, e)[i].call = "Init"
  PROVE  \E i \in 1 .. Len(s) : s[i].call = "Init"
<1> DEFINE t == Append(s, e)
           n == Len(s)
<1>1. /\ Len(t) = n + 1 /\ n \in Nat /\ t[n + 1] = e
      /\ \A i \in 1 .. n : t[i] = s[i]
  BY AppendProperties, LenProperties
<1> HIDE DEF t, n
<1>2. PICK i \in 1 .. n + 1 : t[i].call = "Init"
  BY <1>1 DEF t
<1>3. i \in 1 .. n
  BY <1>1, <1>2
<1> QED  BY <1>1, <1>2, <1>3 DEF n

LEMMA InitTaken ==
  ASSUME NEW s \in Seq(Pieces), s # <<>>
  PROVE  /\ Head(s).call = "Init" => \E i \in 1 .. Len(s) : s[i].call = "Init"
         /\ (\E i \in 1 .. Len(Tail(s)) : Tail(s)[i].call = "Init")
               => \E i \in 1 .. Len(s) : s[i].call = "Init"
<1> DEFINE t == Tail(s)
           n == Len(t)
<1>1. /\ Head(s) = s[1] /\ Len(s) = n + 1 /\ n \in Nat
      /\ \A i \in 1 .. n : t[i] = s[i + 1]
  BY HeadTailProperties, LenProperties
<1> HIDE DEF t, n
<1>2. Head(s).call = "Init" => \E i \in 1 .. n + 1 : s[i].call = "Init"
  <2>1. 1 \in 1 .. n + 1
    BY <1>1
  <2> QED  BY <1>1, <2>1
<1>3. ASSUME NEW i \in 1 .. n, t[i].call = "Init" PROVE \E j \in 1 .. n + 1 : s[j].call = "Init"
  <2>1. i + 1 \in 1 .. n + 1 /\ s[i + 1].call = "Init"
    BY <1>1, <1>3
  <2> QED  BY <2>1
<1> QED  BY <1>1, <1>2, <1>3 DEF t, n

\* A reply is sent.
LEMMA Replied ==
  ASSUME NEW o \in Seq(Replies), NEW what \in Names
  PROVE  /\ Append(o, what) \in Seq(Replies)
         /\ Len(Append(o, what)) = Len(o) + 1
         /\ o = <<>> => Len(Append(o, what)) = 1
         /\ (\A i \in 1 .. Len(o) : o[i] # "refused")
               => \A i \in 1 .. Len(Append(o, what)) : Append(o, what)[i] # "refused"
<1> DEFINE t == Append(o, what)
           n == Len(o)
<1>0. what \in Replies /\ what # "refused"
  BY Named DEF Replies
<1>1. /\ t \in Seq(Replies) /\ Len(t) = n + 1 /\ n \in Nat /\ t[n + 1] = what
      /\ \A i \in 1 .. n : t[i] = o[i]
  BY <1>0, AppendProperties, LenProperties
<1>2. o = <<>> => n = 0
  OBVIOUS
<1> HIDE DEF t, n
<1>3. (\A i \in 1 .. n : o[i] # "refused") => \A i \in 1 .. n + 1 : t[i] # "refused"
  BY <1>0, <1>1
<1> QED  BY <1>1, <1>2, <1>3 DEF t, n

\* Among packets none of which asks there is no Init.
LEMMA NoInit ==
  ASSUME NEW s \in Seq(Pieces), NoQuestion(s)
  PROVE  ~\E i \in 1 .. Len(s) : s[i].call = "Init"
<1> SUFFICES ASSUME NEW i \in 1 .. Len(s), s[i].call = "Init" PROVE FALSE
  OBVIOUS
<1>1. s[i] \in Pieces
  BY ElementOfSeq
<1>2. s[i].part = "whole"
  BY <1>1 DEF Pieces
<1> QED  BY <1>2 DEF NoQuestion, Question, Silent

\* A step of the server that writes only to clients that are there.
LEMMA CommonServed ==
  ASSUME Common, Types', Served', UNCHANGED fd,
         \A k \in Conns : ~HasClient(k) => out'[k] = out[k]
  PROVE  Common'
<1>1. Apart'
  BY DEF Common, Apart
<1>2. Unread'
  BY DEF Common, Unread, HasClient
<1> QED  BY <1>1, <1>2 DEF Common

---------------------------------------------------------------------------
\* Clients.

LEMMA BeginInv == ASSUME Inv, NEW p \in Clients, Begin(p) PROVE Inv'
<1>1. Types /\ Common
  BY DEF Inv, Common
<1>2. /\ calls[p] = <<>> /\ fd[p] = None /\ torn' = torn \ {p}
      /\ calls' = [calls EXCEPT ![p] = Append(<<>>, [call |-> "Init", at |-> "connect"])]
      /\ UNCHANGED <<server, fds, backlog, sessions, reader, active, hand, in, out, fd,
                     registered, signalled, spent>>
  BY DEF Begin, Busy, Push, table, threads, links
<1>3. <<>> \in Seq(Frames) /\ "Init" \in Names /\ "Init" \in Opening /\ "connect" \in Ats
  BY Named DEF Opening, Ats
<1>4. /\ calls' \in [Clients -> Seq(Frames)] /\ Len(calls'[p]) = 1
      /\ \A q \in Clients : q # p => calls'[q] = calls[q]
  <2>1. /\ calls' \in [Clients -> Seq(Frames)] /\ Len(calls'[p]) = Len(<<>>) + 1
        /\ \A q \in Clients : q # p => calls'[q] = calls[q]
    BY <1>1, <1>2, <1>3, Pushed
  <2>2. Len(<<>>) = 0
    OBVIOUS
  <2> QED  BY <2>1, <2>2
<1>5. Types'
  BY <1>1, <1>2, <1>4 DEF Types
<1>6. Common'
  BY <1>1, <1>2, <1>5, CommonKept
<1>7. Sound(p)'
  <2>1. \A i \in 1 .. Len(calls'[p]) - 1 : FALSE
    BY <1>4
  <2>2. fd'[p] = None
    BY <1>2
  <2> QED  BY <2>1, <2>2, Detached
<1>8. ASSUME NEW q \in Clients \ torn', q # p PROVE Sound(q)'
  BY <1>1, <1>2, <1>4, <1>8, Aside DEF Inv, threads
<1> QED  BY <1>6, <1>7, <1>8 DEF Inv

LEMMA DieInv == ASSUME Inv, NEW p \in Clients, Die(p) PROVE Inv'
<1>1. Types /\ Common
  BY DEF Inv, Common
<1>2. /\ calls' = [calls EXCEPT ![p] = <<>>] /\ fd' = [fd EXCEPT ![p] = None]
      /\ out' = IF fd[p] = None THEN out ELSE [out EXCEPT ![fd[p]] = <<>>]
      /\ registered' = registered \ {p} /\ signalled' = signalled \ {p} /\ torn' = torn \ {p}
      /\ UNCHANGED <<server, fds, backlog, sessions, reader, active, hand, in>>
  BY DEF Die, table, threads
<1>3. spent' \in 0 .. Events
  BY <1>1, BoundsAssumption DEF Die, Spend, Types
<1>4. /\ calls \in [Clients -> Seq(Frames)] /\ fd \in [Clients -> Conns \cup {None}]
      /\ out \in [Conns -> Seq(Replies)]
  BY <1>1 DEF Types
<1>5. <<>> \in Seq(Frames) /\ <<>> \in Seq(Replies)
  OBVIOUS
<1>6. /\ calls' \in [Clients -> Seq(Frames)] /\ fd' \in [Clients -> Conns \cup {None}]
      /\ out' \in [Conns -> Seq(Replies)]
      /\ \A q \in Clients : q # p => calls'[q] = calls[q] /\ fd'[q] = fd[q]
      /\ calls'[p] = <<>> /\ fd'[p] = None
      /\ \A k \in Conns : k # fd[p] => out'[k] = out[k]
      /\ fd[p] # None => out'[fd[p]] = <<>>
  BY <1>2, <1>4, <1>5
<1>7. Types'
  BY <1>1, <1>2, <1>3, <1>6 DEF Types
<1>8. Common'
  BY <1>1, <1>2, <1>6, <1>7, CommonKept
<1>9. Sound(p)'
  <2>1. \A i \in 1 .. Len(calls'[p]) - 1 : FALSE
    BY <1>6
  <2> QED  BY <1>6, <2>1, Detached
<1>10. ASSUME NEW q \in Clients \ torn', q # p PROVE Sound(q)'
  <2>1. fd[q] # None => fd[q] # fd[p] /\ fd[q] \in Conns
    BY <1>1, <1>4, <1>10 DEF Common, Apart
  <2>2. Sound(q)
    BY <1>2, <1>10 DEF Inv
  <2> QED  BY <1>1, <1>2, <1>6, <1>10, <2>1, <2>2, Aside DEF threads
<1> QED  BY <1>8, <1>9, <1>10 DEF Inv

LEMMA TakeSignalInv == ASSUME Inv, NEW p \in Clients, TakeSignal(p) PROVE Inv'
<1>1. Types /\ Common
  BY DEF Inv, Common
<1>2. PICK fails \in {At(p, "failed"), At(p, "failed") \/ At(p, "waiting")} :
          /\ calls' = [calls EXCEPT ![p] =
                         Append(IF fails THEN <<[Top(p) EXCEPT !.at = "failed"]>> ELSE @,
                                [call |-> "Restart", at |-> "connect"])]
          /\ torn' = IF Busy(p) /\ ~fails THEN torn \cup {p} ELSE torn \ {p}
  BY DEF TakeSignal
<1>3. /\ p \in Handlers /\ signalled' = signalled \ {p} /\ fd' = [fd EXCEPT ![p] = None]
      /\ out' = IF fd[p] = None THEN out ELSE [out EXCEPT ![fd[p]] = <<>>]
      /\ UNCHANGED <<server, fds, backlog, sessions, reader, active, hand, in, registered, spent>>
  BY DEF TakeSignal, table, threads
<1>4. /\ calls \in [Clients -> Seq(Frames)] /\ fd \in [Clients -> Conns \cup {None}]
      /\ out \in [Conns -> Seq(Replies)]
  BY <1>1 DEF Types
<1>5. <<>> \in Seq(Replies)
  OBVIOUS
<1>6. /\ fd' \in [Clients -> Conns \cup {None}] /\ out' \in [Conns -> Seq(Replies)]
      /\ \A q \in Clients : q # p => fd'[q] = fd[q]
      /\ fd'[p] = None
      /\ \A k \in Conns : k # fd[p] => out'[k] = out[k]
      /\ fd[p] # None => out'[fd[p]] = <<>>
  BY <1>3, <1>4, <1>5
<1> DEFINE rest == IF fails THEN <<[Top(p) EXCEPT !.at = "failed"]>> ELSE calls[p]
<1>7. PICK s \in Seq(Frames) : s = rest /\ (fails => Len(s) = 1 /\ s[1].at = "failed")
  <2>1. CASE fails
    <3>1. calls[p] # <<>>
      BY <2>1 DEF At, Busy
    <3>2. Top(p) \in Frames
      BY <1>4, <3>1, FrontOf DEF Top
    <3> DEFINE e == [Top(p) EXCEPT !.at = "failed"]
    <3>3. e \in Frames /\ e.at = "failed"
      BY <3>2 DEF Frames, Ats
    <3>4. rest = <<e>>
      BY <2>1
    <3> HIDE DEF e, rest
    <3>5. <<e>> \in Seq(Frames) /\ Len(<<e>>) = 1 /\ <<e>>[1] = e
      BY <3>3
    <3> QED  BY <3>3, <3>4, <3>5
  <2>2. CASE ~fails
    BY <1>4, <2>2
  <2> QED  BY <2>1, <2>2
<1>8. calls' = [calls EXCEPT ![p] = Append(s, [call |-> "Restart", at |-> "connect"])]
  BY <1>2, <1>7
<1> HIDE DEF rest
<1>9. /\ calls' \in [Clients -> Seq(Frames)]
      /\ Len(calls'[p]) = Len(s) + 1
      /\ \A i \in 1 .. Len(s) : calls'[p][i] = s[i]
      /\ \A q \in Clients : q # p => calls'[q] = calls[q]
  <2> DEFINE e == [call |-> "Restart", at |-> "connect"]
  <2>1. e \in Frames
    BY Named DEF Frames, Opening, Ats
  <2>2. calls' = [calls EXCEPT ![p] = Append(s, e)]
    BY <1>8
  <2> HIDE DEF e
  <2>3. /\ Append(s, e) \in Seq(Frames) /\ Len(Append(s, e)) = Len(s) + 1
        /\ \A i \in 1 .. Len(s) : Append(s, e)[i] = s[i]
    BY <1>7, <2>1, AppendProperties
  <2>4. calls'[p] = Append(s, e)
    BY <1>4, <2>2
  <2>5. calls' \in [Clients -> Seq(Frames)] /\ \A q \in Clients : q # p => calls'[q] = calls[q]
    BY <1>4, <2>2, <2>3
  <2> QED  BY <2>3, <2>4, <2>5
<1>10. Types'
  <2>1. torn' \subseteq Handlers
    BY <1>1, <1>2, <1>3 DEF Types
  <2> QED  BY <1>1, <1>3, <1>6, <1>9, <2>1 DEF Types
<1>11. Common'
  BY <1>1, <1>3, <1>6, <1>10, CommonKept
<1>12. ASSUME p \notin torn' PROVE Sound(p)'
  <2>1. fails \/ s = <<>>
    BY <1>2, <1>7, <1>12 DEF Busy, rest
  <2>2. \A i \in 1 .. Len(s) : s[i].at = "failed"
    BY <1>7, <2>1
  <2>3. \A i \in 1 .. Len(calls'[p]) - 1 : calls'[p][i].at = "failed"
    <3> DEFINE n == Len(s)
    <3>1. n \in Nat
      BY <1>7, LenProperties
    <3>2. /\ Len(calls'[p]) = n + 1 /\ \A i \in 1 .. n : calls'[p][i].at = "failed"
      BY <1>9, <2>2
    <3> HIDE DEF n
    <3>3. Len(calls'[p]) - 1 = n
      BY <3>1, <3>2
    <3> QED  BY <3>2, <3>3
  <2> QED  BY <1>6, <2>3, Detached
<1>13. ASSUME NEW q \in Clients \ torn', q # p PROVE Sound(q)'
  <2>1. fd[q] # None => fd[q] # fd[p] /\ fd[q] \in Conns
    BY <1>1, <1>4, <1>13 DEF Common, Apart
  <2>2. Sound(q)
    BY <1>2, <1>13 DEF Inv
  <2> QED  BY <1>1, <1>3, <1>6, <1>9, <1>13, <2>1, <2>2, Aside DEF threads
<1> QED  BY <1>11, <1>12, <1>13 DEF Inv

\* Another client, in a step that touches one client's connection.
LEMMA Others ==
  ASSUME Common, NEW p \in Clients, NEW q \in Clients, q # p, Sound(q),
         UNCHANGED <<threads, sessions, fds, backlog>>, fd'[q] = fd[q], calls'[q] = calls[q],
         \A k \in Conns : k # fd[p] => in'[k] = in[k] /\ out'[k] = out[k]
  PROVE  Sound(q)'
<1>1. fd[q] # None => fd[q] # fd[p] /\ fd[q] \in Conns
  BY DEF Common, Types, Apart
<1>2. Types
  BY DEF Common
<1> QED  BY <1>1, <1>2, Aside

\* A piece of a packet is sent.
LEMMA Sent ==
  ASSUME Types, NEW p \in Clients, Sound(p), NEW e \in Pieces, CanWrite(p), Write(p, e),
         UNCHANGED <<threads, sessions, fds, backlog, out, fd>>,
         e.call # "Init", e.part = "body" <=> At(p, "half"),
         At(p, "half")' <=> e.part = "head",
         Asks(p)' <=> Asks(p) \/ Question(e), ~(Asks(p) /\ Question(e)),
         Stacked(p)'
  PROVE  Sound(p)'
<1>1. PICK k \in Conns : k = fd[p] /\ k # None /\ HasServer(k)
  BY Written
<1>2. in'[k] = Append(in[k], e) /\ in[k] \in Seq(Pieces) /\ out'[k] = out[k] /\ fd'[p] = k
  BY <1>1, Written DEF Types
<1>3. Linked(k, p) /\ \A i \in 1 .. Len(out[k]) : out[k][i] # "refused"
  BY <1>1 DEF Sound
<1>4. /\ Due(k)' = Due(k) /\ InHand(k)' = InHand(k) /\ HoldsInit(k)' = HoldsInit(k)
      /\ Due(k) \in BOOLEAN /\ At(p, "half") \in BOOLEAN
  BY DEF Due, InHand, HoldsInit, threads, At
<1>5. Aligned(in'[k], Due(k)', At(p, "half")')
  <2>1. Aligned(in[k], Due(k), At(p, "half"))
    BY <1>3 DEF Linked
  <2>2. Aligned(Append(in[k], e), Due(k), e.part = "head")
    BY <1>2, <1>4, <2>1, AlignedAdded
  <2> QED  BY <1>2, <1>4, <2>2 DEF Aligned
<1>6. Owed(in'[k], Asks(p)', InHand(k)', out'[k])
  <2>1. Owed(in[k], Asks(p), InHand(k), out[k])
    BY <1>3 DEF Linked
  <2>2. /\ NoQuestion(in[k]) /\ Question(e) => OneQuestion(in'[k])
        /\ NoQuestion(in[k]) /\ ~Question(e) => NoQuestion(in'[k])
        /\ OneQuestion(in[k]) /\ ~Question(e) => OneQuestion(in'[k])
    BY <1>2, QuestionAdded
  <2> QED  BY <1>2, <1>4, <2>1, <2>2 DEF Owed
<1>7. InitDue(k)' => k \notin sessions'
  <2>1. (\E i \in 1 .. Len(in'[k]) : in'[k][i].call = "Init")
           => \E i \in 1 .. Len(in[k]) : in[k][i].call = "Init"
    BY <1>2, InitAdded
  <2> QED  BY <1>3, <1>4, <2>1 DEF Linked, InitDue
<1>8. Linked(k, p)'
  BY <1>5, <1>6, <1>7 DEF Linked
<1> QED  BY <1>2, <1>3, <1>8 DEF Sound

\* A call ends.
LEMMA FinishInv ==
  ASSUME Inv, NEW p \in Clients, Busy(p), NEW ok \in BOOLEAN, NEW left \in Seq(Replies),
         Finish(p, ok, left),
         UNCHANGED <<server, fds, backlog, sessions, threads, in, signalled, torn, spent>>,
         p \notin torn =>
            /\ \A i \in 1 .. Len(left) : left[i] # "refused"
            /\ fd'[p] # None /\ ~Cut(p) =>
                  /\ NoQuestion(in[fd[p]]) /\ ~InHand(fd[p]) /\ left = <<>>
                  /\ ~At(p, "half")
  PROVE  Inv'
<1>1. Types /\ Common
  BY DEF Inv, Common
<1>2. /\ calls' = [calls EXCEPT ![p] = Front(@)] /\ calls' \in [Clients -> Seq(Frames)]
      /\ fd' \in [Clients -> Conns \cup {None}] /\ fd'[p] \in {fd[p], None}
      /\ \A q \in Clients : q # p => fd'[q] = fd[q] /\ calls'[q] = calls[q]
      /\ out' \in [Conns -> Seq(Replies)]
      /\ \A k \in Conns : k # fd[p] => out'[k] = out[k]
      /\ fd[p] # None /\ fd'[p] # fd[p] => out'[fd[p]] = <<>>
      /\ fd[p] # None /\ fd'[p] = fd[p] => out'[fd[p]] = left
      /\ registered' \subseteq Clients
  BY <1>1, Finished
<1>3. Types'
  BY <1>1, <1>2 DEF Types, threads
<1>4. UNCHANGED <<reader, active>>
  BY DEF threads
<1>5. Common'
  BY <1>1, <1>2, <1>3, <1>4, CommonKept
<1>6. ASSUME NEW q \in Clients \ torn', q # p PROVE Sound(q)'
  <2>1. Sound(q)
    BY <1>6 DEF Inv
  <2> QED  BY <1>1, <1>2, <1>6, <2>1, Others
<1>7. ASSUME p \notin torn PROVE Sound(p)'
  <2>1. Sound(p) /\ Stacked(p)
    BY <1>7 DEF Inv, Sound
  <2>2. /\ \A i \in 1 .. Len(calls'[p]) - 1 : calls'[p][i].at = "failed"
        /\ ~Asks(p)' /\ ~At(p, "half")' /\ ~At(p, "connect")'
    BY <1>1, <1>2, <2>1, StackLeft
  <2>3. CASE fd'[p] = None
    BY <2>2, <2>3, Detached
  <2>4. CASE fd'[p] # None
    <3>1. PICK k \in Conns : k = fd[p] /\ k = fd'[p] /\ k # None
      BY <1>1, <1>2, <2>4 DEF Types
    <3>2. out'[k] = left
      BY <1>2, <3>1
    <3>3. ASSUME HasServer(k)' PROVE Linked(k, p)'
      <4>1. HasServer(k) /\ ~Cut(p)
        BY <3>1, <3>3 DEF HasServer, Cut
      <4>2. NoQuestion(in[k]) /\ ~InHand(k) /\ left = <<>> /\ ~At(p, "half")
        BY <1>7, <2>4, <3>1, <4>1
      <4>3. Linked(k, p)
        BY <2>1, <3>1, <4>1 DEF Sound
      <4>4. /\ Due(k)' = Due(k) /\ InHand(k)' = InHand(k) /\ HoldsInit(k)' = HoldsInit(k)
            /\ in' = in /\ sessions' = sessions
        BY DEF Due, InHand, HoldsInit, threads
      <4>5. Aligned(in[k], Due(k), At(p, "half"))'
        BY <2>2, <4>2, <4>3, <4>4 DEF Linked, Aligned
      <4>6. Owed(in[k], Asks(p), InHand(k), out[k])'
        <5>1. NoQuestion(in'[k])
          BY <4>2, <4>4
        <5> QED  BY <2>2, <3>2, <4>2, <4>4, <5>1 DEF Owed
      <4>7. InitDue(k)' => k \notin sessions'
        BY <4>3, <4>4 DEF Linked, InitDue
      <4> QED  BY <4>5, <4>6, <4>7 DEF Linked
    <3>4. Stacked(p)'
      BY <2>2 DEF Stacked
    <3>5. \A i \in 1 .. Len(out'[k]) : out'[k][i] # "refused"
      BY <1>7, <3>2
    <3> QED  BY <3>1, <3>3, <3>4, <3>5 DEF Sound
  <2> QED  BY <2>3, <2>4
<1> QED  BY <1>5, <1>6, <1>7 DEF Inv

LEMMA TakeReplyInv == ASSUME Inv, NEW p \in Clients, TakeReply(p) PROVE Inv'
<1>1. Types /\ Common
  BY DEF Inv, Common
<1>2. PICK k \in Conns : k = fd[p] /\ k # None /\ out[k] # <<>>
  BY <1>1 DEF TakeReply, Types
<1>3. /\ At(p, "waiting") /\ Busy(p)
      /\ Finish(p, Head(out[k]) # "refused", Tail(out[k]))
      /\ UNCHANGED <<server, fds, backlog, sessions, threads, in, signalled, torn, spent>>
  BY <1>2 DEF TakeReply, At, table
<1>4. out[k] \in Seq(Replies) /\ Tail(out[k]) \in Seq(Replies)
  BY <1>1, <1>2, TakenFirst DEF Types
<1>5. ASSUME p \notin torn
      PROVE  /\ \A i \in 1 .. Len(Tail(out[k])) : Tail(out[k])[i] # "refused"
             /\ ~Cut(p) => /\ NoQuestion(in[k]) /\ ~InHand(k) /\ Tail(out[k]) = <<>>
                           /\ ~At(p, "half")
  <2>1. Sound(p)
    BY <1>5 DEF Inv
  <2> DEFINE o == out[k]
             t == Tail(o)
             n == Len(t)
  <2>2. Len(o) = n + 1 /\ n \in Nat /\ \A i \in 1 .. n : t[i] = o[i + 1]
    BY <1>2, <1>4, HeadTailProperties, LenProperties
  <2>3. \A i \in 1 .. n + 1 : o[i] # "refused"
    BY <1>2, <2>1, <2>2 DEF Sound
  <2> HIDE DEF o, t, n
  <2>4. \A i \in 1 .. n : t[i] # "refused"
    <3>1. \A i \in 1 .. n : i + 1 \in 1 .. n + 1
      BY <2>2
    <3> QED  BY <2>2, <2>3, <3>1
  <2>5. ASSUME ~Cut(p)
        PROVE  NoQuestion(in[k]) /\ ~InHand(k) /\ t = <<>> /\ ~At(p, "half")
    <3>1. Owed(in[k], Asks(p), InHand(k), o)
      BY <1>2, <2>1, <2>5 DEF Sound, Linked, Cut, o
    <3>2. NoQuestion(in[k]) /\ ~InHand(k) /\ Len(o) = 1
      BY <1>2, <3>1 DEF Owed, o
    <3>3. n = 0
      <4> DEFINE m == Len(o)
      <4>1. m = n + 1 /\ n \in Nat /\ m = 1
        BY <2>2, <3>2
      <4> HIDE DEF m
      <4> QED  BY <4>1
    <3>4. t = <<>>
      BY <1>4, <3>3, EmptySeq DEF t, n, o
    <3> QED  BY <1>3, <3>2, <3>4 DEF At
  <2> QED  BY <2>4, <2>5 DEF o, t, n
<1>6. p \notin torn =>
         /\ \A i \in 1 .. Len(Tail(out[k])) : Tail(out[k])[i] # "refused"
         /\ fd'[p] # None /\ ~Cut(p) =>
               /\ NoQuestion(in[fd[p]]) /\ ~InHand(fd[p]) /\ Tail(out[k]) = <<>>
               /\ ~At(p, "half")
  BY <1>2, <1>5
<1>7. PICK ok \in BOOLEAN : ok = (Head(out[k]) # "refused")
  OBVIOUS
<1>8. Finish(p, ok, Tail(out[k]))
  BY <1>3, <1>7
<1> QED  BY <1>3, <1>4, <1>6, <1>8, FinishInv

LEMMA CallFailsInv == ASSUME Inv, NEW p \in Clients, CallFails(p) PROVE Inv'
<1>1. Types /\ Common
  BY DEF Inv, Common
<1> DEFINE left == IF fd[p] = None THEN <<>> ELSE out[fd[p]]
<1>2. /\ \/ At(p, "waiting") /\ Cut(p)
         \/ At(p, "failed")
      /\ Busy(p) /\ Finish(p, FALSE, left)
      /\ UNCHANGED <<server, fds, backlog, sessions, threads, in, signalled, torn, spent>>
  BY DEF CallFails, At, table
<1>3. left \in Seq(Replies)
  <2>1. <<>> \in Seq(Replies)
    OBVIOUS
  <2> QED  BY <1>1, <2>1 DEF Types
<1>4. ASSUME p \notin torn
      PROVE  /\ \A i \in 1 .. Len(left) : left[i] # "refused"
             /\ ~Cut(p) => /\ NoQuestion(in[fd[p]]) /\ ~InHand(fd[p]) /\ left = <<>>
                           /\ ~At(p, "half")
  <2>1. Sound(p)
    BY <1>4 DEF Inv
  <2>2. CASE fd[p] = None
    <3>1. left = <<>> /\ Cut(p)
      BY <2>2 DEF Cut
    <3>2. \A i \in 1 .. Len(<<>>) : FALSE
      OBVIOUS
    <3> HIDE DEF left
    <3> QED  BY <3>1, <3>2
  <2>3. CASE fd[p] # None
    <3>1. left = out[fd[p]]
      BY <2>3
    <3> HIDE DEF left
    <3>2. ASSUME ~Cut(p)
          PROVE  NoQuestion(in[fd[p]]) /\ ~InHand(fd[p]) /\ left = <<>> /\ ~At(p, "half")
      <4>1. At(p, "failed")
        BY <1>2, <3>2
      <4>2. ~Asks(p) /\ ~At(p, "half")
        BY <4>1 DEF Asks, At
      <4>3. Owed(in[fd[p]], Asks(p), InHand(fd[p]), out[fd[p]])
        BY <2>1, <3>2 DEF Sound, Linked, Cut
      <4> QED  BY <3>1, <4>2, <4>3 DEF Owed
    <3> QED  BY <2>1, <2>3, <3>1, <3>2 DEF Sound
  <2> QED  BY <2>2, <2>3
<1> HIDE DEF left
<1> QED  BY <1>2, <1>3, <1>4, FinishInv

LEMMA WriteBodyInv == ASSUME Inv, NEW p \in Clients, WriteBody(p) PROVE Inv'
<1>1. Types /\ Common /\ calls \in [Clients -> Seq(Frames)]
  BY DEF Inv, Common, Types
<1>2. /\ At(p, "half") /\ Busy(p) /\ calls[p] # <<>> /\ Top(p).at = "half"
      /\ UNCHANGED <<server, fds, backlog, sessions, reader, active, hand, signalled, torn, spent>>
  BY DEF WriteBody, At, Busy, table, threads
<1>3. Top(p) \in Frames
  BY <1>1, <1>2, FrontOf DEF Top
<1>4. Top(p).call \in Names /\ Top(p).call \in TwoWrites
  BY <1>2, <1>3 DEF Frames
<1>5. CASE CanWrite(p) /\ Write(p, Piece(Top(p).call, "body")) /\ UNCHANGED <<out, fd, registered>>
           /\ IF Top(p).call \in Silent THEN calls' = [calls EXCEPT ![p] = Front(@)]
              ELSE Goto(p, "waiting")
  <2>1. PICK e \in Pieces : /\ e = Piece(Top(p).call, "body")
                            /\ e.call = Top(p).call /\ e.part = "body" /\ e.call # "Init"
    <3>1. PICK call \in Names : call = Top(p).call /\ call # "Init"
      BY <1>4 DEF TwoWrites
    <3>2. /\ Piece(call, "body") \in Pieces
          /\ Piece(call, "body").call = call /\ Piece(call, "body").part = "body"
      BY <3>1, PieceIs
    <3> QED  BY <3>1, <3>2
  <2>2. /\ in' \in [Conns -> Seq(Pieces)]
        /\ \A k \in Conns : k # fd[p] => in'[k] = in[k]
    BY <1>1, <1>5, <2>1, Written
  <2>3. /\ calls' \in [Clients -> Seq(Frames)]
        /\ \A q \in Clients : q # p => calls'[q] = calls[q]
        /\ p \notin torn => ~At(p, "half")' /\ (Asks(p)' <=> Asks(p)) /\ Stacked(p)'
    <3>1. CASE Top(p).call \in Silent
      <4>1. calls' = [calls EXCEPT ![p] = Front(@)]
        BY <1>5, <3>1
      <4>2. Front(calls[p]) \in Seq(Frames)
        BY <1>1, <1>2, FrontOf
      <4>3. calls' \in [Clients -> Seq(Frames)] /\ \A q \in Clients : q # p => calls'[q] = calls[q]
        BY <1>1, <4>1, <4>2
      <4>4. ASSUME p \notin torn PROVE ~At(p, "half")' /\ (Asks(p)' <=> Asks(p)) /\ Stacked(p)'
        <5>1. Stacked(p)
          BY <4>4 DEF Inv, Sound
        <5>2. /\ \A i \in 1 .. Len(calls'[p]) - 1 : calls'[p][i].at = "failed"
              /\ ~Asks(p)' /\ ~At(p, "half")' /\ ~At(p, "connect")'
          BY <1>1, <1>2, <4>1, <5>1, StackLeft
        <5>3. ~Asks(p)
          BY <3>1 DEF Asks
        <5> QED  BY <5>2, <5>3 DEF Stacked
      <4> QED  BY <4>3, <4>4
    <3>2. CASE Top(p).call \notin Silent
      <4>1. Goto(p, "waiting")
        BY <1>5, <3>2
      <4>2. "waiting" \in Ats /\ "waiting" # "half" /\ "waiting" # "connect"
        BY DEF Ats
      <4>3. /\ calls' \in [Clients -> Seq(Frames)]
            /\ \A q \in Clients : q # p => calls'[q] = calls[q]
            /\ Len(calls'[p]) = Len(calls[p])
            /\ \A i \in 1 .. Len(calls[p]) - 1 : calls'[p][i] = calls[p][i]
            /\ Busy(p)' /\ Top(p)'.call = Top(p).call /\ Top(p)'.at = "waiting"
        BY <1>1, <1>2, <4>1, <4>2, Gone
      <4>4. ~At(p, "half")' /\ ~At(p, "connect")' /\ Asks(p)' /\ Asks(p)
        BY <1>2, <3>2, <4>3 DEF At, Asks
      <4>5. ASSUME Stacked(p) PROVE Stacked(p)'
        BY <4>3, <4>4, <4>5 DEF Stacked
      <4> QED  BY <4>3, <4>4, <4>5 DEF Inv, Sound
    <3> QED  BY <3>1, <3>2
  <2>4. Types'
    BY <1>1, <1>2, <1>5, <2>2, <2>3 DEF Types
  <2>5. Common'
    BY <1>1, <1>2, <1>5, <2>4, CommonKept
  <2>6. ASSUME NEW q \in Clients \ torn', q # p PROVE Sound(q)'
    BY <1>1, <1>2, <1>5, <2>2, <2>3, <2>6, Others DEF Inv, threads
  <2>7. ASSUME p \notin torn PROVE Sound(p)'
    <3>1. Sound(p) /\ ~Question(e)
      BY <2>1, <2>7 DEF Inv, Question
    <3> QED  BY <1>1, <1>2, <1>5, <2>1, <2>3, <2>7, <3>1, Sent DEF threads
  <2> QED  BY <1>2, <2>5, <2>6, <2>7 DEF Inv
<1>6. CASE Cut(p) /\ Finish(p, FALSE, <<>>) /\ UNCHANGED in
  <2>1. <<>> \in Seq(Replies) /\ \A i \in 1 .. Len(<<>>) : FALSE
    OBVIOUS
  <2> QED  BY <1>2, <1>6, <2>1, FinishInv DEF threads
<1> QED  BY <1>5, <1>6 DEF WriteBody

LEMMA CallInv ==
  ASSUME Inv, NEW p \in Clients, NEW call \in Calls[p], Call(p, call)
  PROVE  Inv'
<1>1. Types /\ Common /\ calls \in [Clients -> Seq(Frames)]
  BY DEF Inv, Common, Types
<1>2. call \in Names /\ call # "Init" /\ call # "Restart"
  BY Named DEF Opening
<1>3. /\ ~Busy(p) /\ calls[p] = <<>>
      /\ UNCHANGED <<server, fds, backlog, sessions, reader, active, hand, out, fd, registered,
                     signalled, torn>>
  BY DEF Call, Busy, table, threads
<1>4. spent' \in 0 .. Events
  <2>1. spent \in 0 .. Events
    BY <1>1 DEF Types
  <2> QED  BY <2>1, BoundsAssumption DEF Call, Spend
<1>5. ~Asks(p) /\ ~At(p, "half")
  BY <1>3 DEF Asks, At
<1>6. ASSUME NEW where \in Ats, where = "half" => call \in TwoWrites, where # "connect",
             calls' = [calls EXCEPT ![p] = Push(p, call, where)]
      PROVE  /\ calls' \in [Clients -> Seq(Frames)]
             /\ \A q \in Clients : q # p => calls'[q] = calls[q]
             /\ At(p, "half")' <=> where = "half"
             /\ Asks(p)' <=> where \in {"half", "waiting"} /\ call \notin Silent
             /\ Stacked(p)'
  <2> DEFINE e == [call |-> call, at |-> where]
  <2>1. e \in Frames /\ e.call = call /\ e.at = where
    BY <1>2, <1>6 DEF Frames
  <2>2. calls' = [calls EXCEPT ![p] = Append(<<>>, e)]
    BY <1>3, <1>6 DEF Push
  <2> HIDE DEF e
  <2>3. <<>> \in Seq(Frames) /\ Len(<<>>) = 0
    OBVIOUS
  <2>4. /\ Append(<<>>, e) \in Seq(Frames) /\ Append(<<>>, e) # <<>>
        /\ Len(Append(<<>>, e)) = 0 + 1 /\ Append(<<>>, e)[0 + 1] = e
    BY <2>1, <2>3, AppendProperties
  <2>5. calls' \in [Clients -> Seq(Frames)] /\ \A q \in Clients : q # p => calls'[q] = calls[q]
    BY <1>1, <2>2, <2>4
  <2>6. calls'[p] = Append(<<>>, e)
    BY <1>1, <2>2
  <2>7. Busy(p)' /\ Top(p)' = e
    BY <2>4, <2>6 DEF Busy, Top, Last
  <2>8. (At(p, "half")' <=> where = "half") /\ ~At(p, "connect")'
    BY <1>6, <2>1, <2>7 DEF At
  <2>9. Asks(p)' <=> where \in {"half", "waiting"} /\ call \notin Silent
    BY <2>1, <2>7 DEF Asks
  <2>10. \A i \in 1 .. Len(calls'[p]) - 1 : FALSE
    BY <2>4, <2>6
  <2> QED  BY <2>5, <2>8, <2>9, <2>10 DEF Stacked
<1>7. CASE /\ CanWrite(p)
           /\ Write(p, Piece(call, IF call \in TwoWrites THEN "head" ELSE "whole"))
           /\ calls' = [calls EXCEPT ![p] = IF call \in TwoWrites THEN Push(p, call, "half")
                                            ELSE IF call \in Silent THEN @ ELSE Push(p, call, "waiting")]
  <2>1. PICK e \in Pieces : /\ Write(p, e) /\ e.call = call /\ e.part # "body"
                            /\ e.part = "head" <=> call \in TwoWrites
    <3> DEFINE part == IF call \in TwoWrites THEN "head" ELSE "whole"
    <3>1. /\ part \in {"whole", "head", "body"} /\ part # "body"
          /\ part = "head" <=> call \in TwoWrites
      OBVIOUS
    <3>2. Write(p, Piece(call, part))
      BY <1>7
    <3> HIDE DEF part
    <3>3. /\ Piece(call, part) \in Pieces
          /\ Piece(call, part).call = call /\ Piece(call, part).part = part
      BY <1>2, <3>1, PieceIs
    <3> QED  BY <3>1, <3>2, <3>3
  <2>2. in' \in [Conns -> Seq(Pieces)] /\ \A k \in Conns : k # fd[p] => in'[k] = in[k]
    BY <1>1, <1>7, <2>1, Written
  <2>3. /\ calls' \in [Clients -> Seq(Frames)]
        /\ \A q \in Clients : q # p => calls'[q] = calls[q]
        /\ At(p, "half")' <=> call \in TwoWrites
        /\ Asks(p)' <=> call \notin Silent
        /\ Stacked(p)'
    <3>1. CASE call \in TwoWrites
      <4>1. calls' = [calls EXCEPT ![p] = Push(p, call, "half")]
        BY <1>7, <3>1
      <4>2. "half" \in Ats /\ "half" # "connect"
        BY DEF Ats
      <4> QED  BY <1>6, <3>1, <4>1, <4>2
    <3>2. CASE call \notin TwoWrites /\ call \in Silent
      <4>1. calls' = [calls EXCEPT ![p] = calls[p]]
        BY <1>7, <3>2
      <4>2. calls' = calls
        BY <1>1, <4>1
      <4>3. \A i \in 1 .. Len(<<>>) - 1 : FALSE
        OBVIOUS
      <4>4. Stacked(p)'
        BY <1>3, <4>2, <4>3 DEF Stacked, At, Busy
      <4> QED  BY <1>1, <1>3, <3>2, <4>2, <4>4 DEF Asks, At, Busy
    <3>3. CASE call \notin TwoWrites /\ call \notin Silent
      <4>1. calls' = [calls EXCEPT ![p] = Push(p, call, "waiting")]
        BY <1>7, <3>3
      <4>2. "waiting" \in Ats /\ "waiting" # "connect" /\ "waiting" # "half"
        BY DEF Ats
      <4> QED  BY <1>6, <3>3, <4>1, <4>2
    <3> QED  BY <3>1, <3>2, <3>3
  <2>4. Types'
    BY <1>1, <1>3, <1>4, <2>2, <2>3 DEF Types
  <2>5. Common'
    BY <1>1, <1>3, <2>4, CommonKept
  <2>6. ASSUME NEW q \in Clients \ torn', q # p PROVE Sound(q)'
    BY <1>1, <1>3, <2>2, <2>3, <2>6, Others DEF Inv, threads
  <2>7. ASSUME p \notin torn PROVE Sound(p)'
    <3>1. Sound(p) /\ (Question(e) <=> call \notin Silent)
      BY <2>1, <2>7 DEF Inv, Question
    <3>2. /\ e.call # "Init"
          /\ e.part = "body" <=> At(p, "half")
          /\ At(p, "half")' <=> e.part = "head"
          /\ Asks(p)' <=> Asks(p) \/ Question(e)
          /\ ~(Asks(p) /\ Question(e)) /\ Stacked(p)'
      BY <1>2, <1>5, <2>1, <2>3, <3>1
    <3> QED  BY <1>1, <1>3, <1>7, <2>1, <3>1, <3>2, Sent DEF threads
  <2> QED  BY <1>3, <2>5, <2>6, <2>7 DEF Inv
<1>8. CASE /\ fd[p] # None /\ Cut(p)
           /\ calls' = [calls EXCEPT ![p] = Push(p, call, "failed")]
           /\ UNCHANGED in
  <2>1. "failed" \in Ats /\ "failed" # "half" /\ "failed" # "connect"
    BY DEF Ats
  <2>2. /\ calls' \in [Clients -> Seq(Frames)]
        /\ \A q \in Clients : q # p => calls'[q] = calls[q]
        /\ Stacked(p)'
    BY <1>6, <1>8, <2>1
  <2>3. Types'
    BY <1>1, <1>3, <1>4, <1>8, <2>2 DEF Types
  <2>4. Common'
    BY <1>1, <1>3, <2>3, CommonKept
  <2>5. ASSUME NEW q \in Clients \ torn', q # p PROVE Sound(q)'
    BY <1>1, <1>3, <1>8, <2>2, <2>5, Others DEF Inv, threads
  <2>6. ASSUME p \notin torn PROVE Sound(p)'
    <3>1. Sound(p)
      BY <2>6 DEF Inv
    <3>2. ~HasServer(fd[p])'
      BY <1>3, <1>8 DEF Cut, HasServer
    <3>3. fd' = fd /\ out' = out
      BY <1>3
    <3> QED  BY <2>2, <3>1, <3>2, <3>3 DEF Sound
  <2> QED  BY <1>3, <2>4, <2>5, <2>6 DEF Inv
<1> QED  BY <1>7, <1>8 DEF Call

LEMMA ConnectInv == ASSUME Inv, NEW p \in Clients, Connect(p) PROVE Inv'
<1>1. Types /\ Common /\ calls \in [Clients -> Seq(Frames)] /\ fd \in [Clients -> Conns \cup {None}]
  BY DEF Inv, Common, Types
<1>2. /\ At(p, "connect") /\ Busy(p) /\ calls[p] # <<>> /\ Top(p).at = "connect"
      /\ UNCHANGED <<server, fds, sessions, reader, active, hand, signalled, torn, spent>>
  BY DEF Connect, At, Busy, threads
<1>3. Top(p) \in Frames
  BY <1>1, <1>2, FrontOf DEF Top
<1>4. Top(p).call \in Opening
  BY <1>2, <1>3 DEF Frames
<1>5. ASSUME Goto(p, "waiting")
      PROVE  /\ calls' \in [Clients -> Seq(Frames)]
             /\ \A q \in Clients : q # p => calls'[q] = calls[q]
             /\ ~At(p, "half")' /\ Asks(p)' /\ (Stacked(p) => Stacked(p)')
  <2>1. "waiting" \in Ats /\ "waiting" # "half" /\ "waiting" # "connect"
    BY DEF Ats
  <2>2. /\ calls' \in [Clients -> Seq(Frames)]
        /\ \A q \in Clients : q # p => calls'[q] = calls[q]
        /\ Len(calls'[p]) = Len(calls[p])
        /\ \A i \in 1 .. Len(calls[p]) - 1 : calls'[p][i] = calls[p][i]
        /\ Busy(p)' /\ Top(p)'.call = Top(p).call /\ Top(p)'.at = "waiting"
    BY <1>1, <1>2, <1>5, <2>1, Gone
  <2>3. Top(p).call \notin Silent
    BY <1>4 DEF Opening, Silent
  <2>4. ~At(p, "half")' /\ ~At(p, "connect")' /\ Asks(p)'
    BY <2>2, <2>3 DEF At, Asks
  <2>5. ASSUME Stacked(p) PROVE Stacked(p)'
    BY <2>2, <2>4, <2>5 DEF Stacked
  <2> QED  BY <2>2, <2>4, <2>5
<1>6. PICK e \in Pieces : e = Piece("Init", "whole") /\ e.call = "Init" /\ e.part = "whole"
  <2>1. "Init" \in Names
    BY Named DEF Opening
  <2> QED  BY <2>1, PieceIs
<1>7. CASE /\ fd[p] # None /\ CanWrite(p) /\ Write(p, e) /\ Goto(p, "waiting")
           /\ UNCHANGED <<backlog, out, fd, registered>>
  <2>1. in' \in [Conns -> Seq(Pieces)] /\ \A k \in Conns : k # fd[p] => in'[k] = in[k]
    BY <1>1, <1>7, Written
  <2>2. Types'
    BY <1>1, <1>2, <1>5, <1>7, <2>1 DEF Types
  <2>3. Common'
    BY <1>1, <1>2, <1>7, <2>2, CommonKept
  <2>4. ASSUME NEW q \in Clients \ torn' PROVE Sound(q)'
    <3>1. Sound(q) /\ q # p
      BY <1>2, <1>7, <2>4 DEF Inv, Sound, Stacked
    <3> QED  BY <1>1, <1>2, <1>5, <1>7, <2>1, <3>1, Others DEF threads
  <2> QED  BY <2>3, <2>4 DEF Inv
<1>8. CASE /\ fd[p] = None
           /\ \E k \in Unused : /\ fd' = [fd EXCEPT ![p] = k]
                                /\ backlog' = Append(backlog, k)
                                /\ in' = [in EXCEPT ![k] = <<e>>]
           /\ Goto(p, "waiting")
           /\ UNCHANGED <<out, registered>>
  <2>1. PICK k \in Conns : /\ ~HasServer(k) /\ ~HasClient(k)
                           /\ fd' = [fd EXCEPT ![p] = k]
                           /\ backlog' = Append(backlog, k)
                           /\ in' = [in EXCEPT ![k] = <<e>>]
    BY <1>8 DEF Unused
  <2>2. k # None /\ fd'[p] = k /\ fd' \in [Clients -> Conns \cup {None}]
        /\ \A q \in Clients : q # p => fd'[q] = fd[q]
    BY <1>1, <2>1, ConnsAssumption
  <2>3. backlog' \in Seq(Conns) /\ ToSet(backlog') = ToSet(backlog) \cup {k}
    BY <1>1, <2>1, Added DEF Types
  <2>4. /\ in' \in [Conns -> Seq(Pieces)] /\ in'[k] = <<e>>
        /\ \A j \in Conns : j # k => in'[j] = in[j]
    <3>1. <<e>> \in Seq(Pieces) /\ in \in [Conns -> Seq(Pieces)]
      BY <1>1 DEF Types
    <3> QED  BY <2>1, <3>1
  <2>5. Types'
    BY <1>1, <1>2, <1>5, <1>8, <2>2, <2>3, <2>4 DEF Types
  <2>6. Common'
    BY <1>1, <1>2, <1>8, <2>1, <2>2, <2>5, CommonKept
  <2>7. ASSUME NEW q \in Clients \ torn', q # p PROVE Sound(q)'
    <3>1. fd[q] # k /\ calls'[q] = calls[q] /\ fd'[q] = fd[q] /\ Sound(q)
      BY <1>2, <1>5, <1>8, <2>1, <2>2, <2>7 DEF HasClient, Inv
    <3>2. fd[q] # None => /\ in'[fd[q]] = in[fd[q]] /\ out'[fd[q]] = out[fd[q]]
                          /\ fd[q] \in ToSet(backlog') => fd[q] \in ToSet(backlog)
      BY <1>1, <1>8, <2>3, <2>4, <3>1
    <3> QED  BY <1>1, <1>2, <3>1, <3>2, Aside DEF threads
  <2>8. ASSUME p \notin torn PROVE Sound(p)'
    <3>1. Stacked(p)'
      BY <1>5, <1>8, <2>8 DEF Inv, Sound
    <3>2. out'[k] = <<>> /\ \A i \in 1 .. Len(<<>>) : FALSE
      BY <1>1, <1>8, <2>1 DEF Common, Unread
    <3>3. k \notin sessions /\ ~Due(k) /\ ~InHand(k)
      <4>1. k \notin ToSet(fds)
        BY <2>1 DEF HasServer
      <4>2. Served
        BY <1>1 DEF Common
      <4> QED  BY <4>1, <4>2 DEF Served, Due, InHand
    <3>4. ~Due(k)' /\ ~InHand(k)' /\ k \notin sessions'
      BY <1>2, <3>3 DEF Due, InHand
    <3>5. Len(<<e>>) = 1 /\ <<e>>[1] = e /\ <<e>> # <<>>
      OBVIOUS
    <3>6. Aligned(<<e>>, Due(k)', At(p, "half")')
      <4>1. ASSUME NEW i \in 1 .. 1 PROVE i = 1
        OBVIOUS
      <4> QED  BY <1>5, <1>6, <1>8, <3>4, <3>5, <4>1 DEF Aligned
    <3>7. OneQuestion(<<e>>)
      <4>1. Question(e)
        BY <1>6 DEF Question, Silent
      <4>2. 1 \in 1 .. Len(<<e>>) /\ \A i \in 1 .. Len(<<e>>) : i = 1
        BY <3>5
      <4> QED  BY <3>5, <4>1, <4>2 DEF OneQuestion
    <3>8. Aligned(in[k], Due(k), At(p, "half"))'
      BY <2>4, <3>6 DEF Aligned
    <3>9. Owed(in[k], Asks(p), InHand(k), out[k])'
      <4>1. OneQuestion(in'[k])
        BY <2>4, <3>7
      <4> QED  BY <1>5, <1>8, <3>2, <3>4, <4>1 DEF Owed
    <3>10. Linked(k, p)'
      BY <3>4, <3>8, <3>9 DEF Linked
    <3> QED  BY <2>2, <3>1, <3>2, <3>10 DEF Sound
  <2> QED  BY <1>2, <2>6, <2>7, <2>8 DEF Inv
<1>9. CASE Finish(p, FALSE, <<>>) /\ UNCHANGED <<backlog, in>>
  <2>1. <<>> \in Seq(Replies) /\ \A i \in 1 .. Len(<<>>) : FALSE
    OBVIOUS
  <2>2. fd'[p] = None
    BY <1>1, <1>2, <1>4, <1>9, <2>1, Finished
  <2> QED  BY <1>2, <1>9, <2>1, <2>2, FinishInv DEF threads
<1> QED  BY <1>6, <1>7, <1>8, <1>9 DEF Connect

---------------------------------------------------------------------------
\* The server.

LEMMA ListenInv == ASSUME Inv, Listen \/ Announce PROVE Inv'
<1>1. Types /\ Common
  BY DEF Inv, Common
<1>2. UNCHANGED <<fds, backlog, sessions, reader, active, hand, in, out, fd, calls, registered, torn>>
  BY DEF Listen, Announce, table, threads, links, library
<1>3. spent' \in 0 .. Events
  <2>1. spent \in 0 .. Events
    BY <1>1 DEF Types
  <2> QED  BY <2>1, BoundsAssumption DEF Listen, Announce, Spend
<1>4. server' \in {"down", "starting", "serving"} /\ signalled' \subseteq Clients
  BY <1>1 DEF Listen, Announce, Types
<1>5. Types'
  BY <1>1, <1>2, <1>3, <1>4 DEF Types
<1>6. Common'
  <2>1. Served'
    BY <1>1, <1>2 DEF Common, Served
  <2> QED  BY <1>1, <1>2, <1>5, <2>1, CommonServed
<1>7. ASSUME NEW q \in Clients \ torn' PROVE Sound(q)'
  BY <1>1, <1>2, <1>7, Aside DEF Inv, threads
<1> QED  BY <1>6, <1>7 DEF Inv

LEMMA AcceptInv == ASSUME Inv, Accept PROVE Inv'
<1>1. Types /\ Common
  BY DEF Inv, Common
<1>2. /\ backlog # <<>> /\ backlog' = Tail(backlog) /\ fds' = Append(fds, Head(backlog))
      /\ UNCHANGED <<server, sessions, reader, active, hand, in, out, fd, calls, registered,
                     signalled, torn, spent>>
  BY DEF Accept, threads, links, library
<1>3. /\ backlog' \in Seq(Conns) /\ Head(backlog) \in Conns
      /\ ToSet(backlog) = ToSet(backlog') \cup {Head(backlog)}
  BY <1>1, <1>2, TakenFirst DEF Types
<1>4. fds' \in Seq(Conns) /\ ToSet(fds') = ToSet(fds) \cup {Head(backlog)}
  BY <1>1, <1>2, <1>3, Added DEF Types
<1>5. Types'
  BY <1>1, <1>2, <1>3, <1>4 DEF Types
<1>6. Common'
  <2>1. Served'
    BY <1>1, <1>2, <1>4 DEF Common, Served
  <2> QED  BY <1>1, <1>2, <1>5, <2>1, CommonServed
<1>7. ASSUME NEW q \in Clients \ torn' PROVE Sound(q)'
  <2>1. PICK k : k = fd[q]
    OBVIOUS
  <2>2. HasServer(k)' => HasServer(k)
    BY <1>3, <1>4 DEF HasServer
  <2>3. /\ Due(k)' <=> Due(k)
        /\ InHand(k)' <=> InHand(k)
        /\ HoldsInit(k)' => HoldsInit(k)
    BY <1>2 DEF Due, InHand, HoldsInit
  <2> QED  BY <1>2, <1>7, <2>1, <2>2, <2>3, Undisturbed DEF Inv
<1> QED  BY <1>6, <1>7 DEF Inv

LEMMA DisconnectInv == ASSUME Inv, Disconnect PROVE Inv'
<1>1. Types /\ Common
  BY DEF Inv, Common
<1>2. PICK i \in DOMAIN fds :
         /\ reader = "select" /\ ~HasClient(fds[i]) /\ active' = fds[i]
         /\ fds' = RemoveAt(fds, i) /\ sessions' = sessions \ {fds[i]}
         /\ UNCHANGED <<server, backlog, reader, hand, in, out, fd, calls, registered,
                        signalled, torn, spent>>
  BY DEF Disconnect, Selects, FirstReadable, Readable, links, library
<1>3. fds \in Seq(Conns) /\ fds[i] \in Conns
  <2>1. fds \in Seq(Conns)
    BY <1>1 DEF Types
  <2>2. i \in 1 .. Len(fds)
    BY <2>1, LenProperties
  <2> QED  BY <2>1, <2>2, ElementOfSeq
<1>4. /\ fds' \in Seq(Conns) /\ ToSet(fds') \subseteq ToSet(fds)
      /\ ToSet(fds) \subseteq ToSet(fds') \cup {fds[i]}
  BY <1>2, <1>3, Removed
<1>5. Types'
  BY <1>1, <1>2, <1>3, <1>4 DEF Types
<1>6. Common'
  <2>1. Served'
    BY <1>1, <1>2, <1>4 DEF Common, Served
  <2> QED  BY <1>1, <1>2, <1>5, <2>1, CommonServed
<1>7. ASSUME NEW q \in Clients \ torn' PROVE Sound(q)'
  <2>1. PICK k : k = fd[q]
    OBVIOUS
  <2>2. HasServer(k)' => HasServer(k)
    BY <1>2, <1>4 DEF HasServer
  <2>3. /\ Due(k)' <=> Due(k)
        /\ InHand(k)' <=> InHand(k)
        /\ HoldsInit(k)' => HoldsInit(k)
        /\ k \in sessions' => k \in sessions
    BY <1>2 DEF Due, InHand, HoldsInit
  <2> QED  BY <1>2, <1>7, <2>1, <2>2, <2>3, Undisturbed DEF Inv
<1> QED  BY <1>6, <1>7 DEF Inv

LEMMA ReadHeaderInv == ASSUME Inv, ReadHeader PROVE Inv'
<1>1. Types /\ Common
  BY DEF Inv, Common
<1>2. PICK i \in DOMAIN fds :
         /\ reader = "select" /\ active' = fds[i] /\ in[fds[i]] # <<>>
         /\ in' = [in EXCEPT ![fds[i]] = Tail(@)]
         /\ \E call \in IF Head(in[fds[i]]).part = "body" THEN Meanings ELSE {Head(in[fds[i]]).call} :
               /\ hand' = [call |-> call, stale |-> FALSE]
               /\ reader' = IF Head(in[fds[i]]).part = "head" THEN "body" ELSE "read"
  BY DEF ReadHeader, Selects
<1>3. UNCHANGED <<server, fds, backlog, sessions, out, fd, calls, registered, signalled, torn, spent>>
  BY DEF ReadHeader, table, library
<1>4. PICK k \in Conns : k = fds[i] /\ k \in ToSet(fds)
  <2>1. fds \in Seq(Conns)
    BY <1>1 DEF Types
  <2>2. i \in 1 .. Len(fds)
    BY <2>1, LenProperties
  <2>3. fds[i] \in Conns /\ fds[i] \in ToSet(fds)
    BY <2>1, <2>2, ElementOfSeq DEF ToSet
  <2> QED  BY <2>3
<1>5. /\ in[k] \in Seq(Pieces) /\ in[k] # <<>> /\ Head(in[k]) \in Pieces
      /\ Tail(in[k]) \in Seq(Pieces)
  BY <1>1, <1>2, <1>4, TakenFirst DEF Types
<1>6. PICK call \in Names : /\ Head(in[k]).part # "body" => call = Head(in[k]).call
                            /\ hand' = [call |-> call, stale |-> FALSE]
                            /\ reader' = IF Head(in[k]).part = "head" THEN "body" ELSE "read"
  BY <1>2, <1>4, <1>5, Named DEF Pieces
<1>7. /\ in' \in [Conns -> Seq(Pieces)] /\ in'[k] = Tail(in[k])
      /\ \A j \in Conns : j # k => in'[j] = in[j]
  BY <1>1, <1>2, <1>4, <1>5 DEF Types
<1>8. Types'
  <2>1. hand' \in [call : Names, stale : BOOLEAN] /\ reader' \in {"select", "body", "read"}
    BY <1>6
  <2>2. active' \in Conns
    BY <1>2, <1>4
  <2> QED  BY <1>1, <1>3, <1>7, <2>1, <2>2 DEF Types
<1>9. Common'
  <2>1. Served'
    BY <1>1, <1>2, <1>3, <1>4 DEF Common, Served
  <2> QED  BY <1>1, <1>3, <1>8, <2>1, CommonServed
<1>10. ASSUME NEW q \in Clients \ torn', fd[q] # k PROVE Sound(q)'
  <2>1. PICK j \in Conns \cup {None} : j = fd[q] /\ j # k
    BY <1>1, <1>10 DEF Types
  <2>2. ~Due(j)' /\ ~InHand(j)' /\ ~HoldsInit(j)' /\ ~Due(j) /\ ~InHand(j)
    BY <1>2, <1>4, <2>1 DEF Due, InHand, HoldsInit
  <2>3. HasServer(j)' => HasServer(j)
    BY <1>3 DEF HasServer
  <2>4. j # None => in'[j] = in[j]
    BY <1>7, <2>1
  <2> QED  BY <1>3, <1>10, <2>1, <2>2, <2>3, <2>4, Undisturbed DEF Inv
<1>11. ASSUME NEW q \in Clients \ torn', fd[q] = k PROVE Sound(q)'
  <2>1. Sound(q) /\ k # None
    BY <1>3, <1>11, ConnsAssumption DEF Inv
  <2>2. Linked(k, q) /\ \A j \in 1 .. Len(out[k]) : out[k][j] # "refused"
    BY <1>4, <1>11, <2>1 DEF Sound, HasServer
  <2>3. ~Due(k) /\ ~InHand(k) /\ Due(k) \in BOOLEAN /\ At(q, "half") \in BOOLEAN
    BY <1>2 DEF Due, InHand, At
  <2>4. (At(q, "half")' <=> At(q, "half")) /\ (Asks(q)' <=> Asks(q)) /\ (Stacked(q) => Stacked(q)')
    BY <1>3 DEF At, Asks, Busy, Top, Stacked
  <2>5. /\ Head(in[k]).part # "body"
        /\ Aligned(Tail(in[k]), Head(in[k]).part = "head", At(q, "half"))
    <3>1. Aligned(in[k], Due(k), At(q, "half"))
      BY <2>2 DEF Linked
    <3> QED  BY <1>5, <2>3, <3>1, AlignedTaken
  <2>6. hand'.call = Head(in[k]).call /\ reader' # "select" /\ active' = k
    BY <1>2, <1>4, <1>6, <2>5
  <2>7. /\ Due(k)' <=> Head(in[k]).part = "head"
        /\ InHand(k)' <=> Question(Head(in[k]))
        /\ HoldsInit(k)' <=> Head(in[k]).call = "Init"
    BY <1>6, <2>5, <2>6 DEF Due, InHand, HoldsInit, Question
  <2>8. Aligned(in[k], Due(k), At(q, "half"))'
    BY <1>7, <2>4, <2>5, <2>7 DEF Aligned
  <2>9. Owed(in[k], Asks(q), InHand(k), out[k])'
    <3>1. Owed(in[k], Asks(q), InHand(k), out[k])
      BY <2>2 DEF Linked
    <3>2. /\ NoQuestion(in[k]) => ~Question(Head(in[k])) /\ NoQuestion(in'[k])
          /\ OneQuestion(in[k]) => IF Question(Head(in[k])) THEN NoQuestion(in'[k])
                                   ELSE OneQuestion(in'[k])
      BY <1>5, <1>7, QuestionTaken
    <3>3. out'[k] = out[k]
      BY <1>3
    <3> QED  BY <2>3, <2>4, <2>7, <3>1, <3>2, <3>3 DEF Owed
  <2>10. InitDue(k)' => k \notin sessions'
    <3>1. /\ Head(in[k]).call = "Init" => \E j \in 1 .. Len(in[k]) : in[k][j].call = "Init"
          /\ (\E j \in 1 .. Len(in'[k]) : in'[k][j].call = "Init")
                => \E j \in 1 .. Len(in[k]) : in[k][j].call = "Init"
      BY <1>5, <1>7, InitTaken
    <3>2. InitDue(k)' => InitDue(k)
      BY <2>7, <3>1 DEF InitDue
    <3> QED  BY <1>3, <2>2, <3>2 DEF Linked
  <2>11. Linked(k, q)'
    BY <2>8, <2>9, <2>10 DEF Linked
  <2> QED  BY <1>3, <1>11, <2>1, <2>2, <2>4, <2>11 DEF Sound
<1> QED  BY <1>9, <1>10, <1>11 DEF Inv

LEMMA ReadBodyInv == ASSUME Inv, ReadBody PROVE Inv'
<1>1. Types /\ Common
  BY DEF Inv, Common
<1>2. /\ reader = "body" /\ reader' = "read"
      /\ UNCHANGED <<server, fds, backlog, sessions, active, out, fd, calls, registered,
                     signalled, torn, spent>>
  BY DEF ReadBody, table, library
<1>3. PICK k \in Conns : k = active /\ k \in ToSet(fds) /\ k # None
  <2>1. active \in ToSet(fds)
    BY <1>1, <1>2 DEF Common, Served
  <2>2. PICK i \in 1 .. Len(fds) : active = fds[i]
    <3>1. DOMAIN fds = 1 .. Len(fds)
      BY <1>1, LenProperties DEF Types
    <3> QED  BY <2>1, <3>1 DEF ToSet
  <2>3. active \in Conns
    BY <1>1, <2>2, ElementOfSeq DEF Types
  <2> QED  BY <2>1, <2>3, ConnsAssumption
<1>4. in[k] \in Seq(Pieces) /\ hand \in [call : Names, stale : BOOLEAN]
  BY <1>1 DEF Types
<1>5. /\ in' \in [Conns -> Seq(Pieces)] /\ hand' \in [call : Names, stale : BOOLEAN]
      /\ \A j \in Conns : j # k => in'[j] = in[j]
      /\ hand'.call = hand.call
  <2>1. CASE in[k] # <<>>
    <3>1. in' = [in EXCEPT ![k] = Tail(@)] /\ hand' = hand
      BY <1>3, <2>1 DEF ReadBody
    <3>2. Tail(in[k]) \in Seq(Pieces)
      BY <1>4, <2>1, TakenFirst
    <3> QED  BY <1>1, <3>1, <3>2 DEF Types
  <2>2. CASE in[k] = <<>>
    <3>1. in' = in /\ hand' = [hand EXCEPT !.stale = TRUE]
      BY <1>3, <2>2 DEF ReadBody
    <3> QED  BY <1>1, <1>4, <3>1 DEF Types
  <2> QED  BY <2>1, <2>2
<1>6. Types'
  BY <1>1, <1>2, <1>5 DEF Types
<1>7. Common'
  <2>1. Served'
    BY <1>1, <1>2, <1>3 DEF Common, Served
  <2> QED  BY <1>1, <1>2, <1>6, <2>1, CommonServed
<1>8. ASSUME NEW q \in Clients \ torn', fd[q] # k PROVE Sound(q)'
  <2>1. PICK j \in Conns \cup {None} : j = fd[q] /\ j # k
    BY <1>1, <1>8 DEF Types
  <2>2. ~Due(j)' /\ ~InHand(j)' /\ ~HoldsInit(j)' /\ ~Due(j) /\ ~InHand(j)
    BY <1>2, <1>3, <2>1 DEF Due, InHand, HoldsInit
  <2>3. HasServer(j)' => HasServer(j)
    BY <1>2 DEF HasServer
  <2>4. j # None => in'[j] = in[j]
    BY <1>5, <2>1
  <2> QED  BY <1>2, <1>8, <2>1, <2>2, <2>3, <2>4, Undisturbed DEF Inv
<1>9. ASSUME NEW q \in Clients \ torn', fd[q] = k PROVE Sound(q)'
  <2>1. in[k] # <<>>
    BY <1>3, <1>9 DEF ReadBody, Readable, HasClient
  <2>2. in'[k] = Tail(in[k])
    BY <1>1, <1>3, <2>1 DEF ReadBody, Types
  <2>3. Sound(q) /\ Linked(k, q) /\ \A j \in 1 .. Len(out[k]) : out[k][j] # "refused"
    BY <1>2, <1>3, <1>9 DEF Inv, Sound, HasServer
  <2>4. /\ Due(k) /\ ~Due(k)' /\ (InHand(k)' <=> InHand(k)) /\ (HoldsInit(k)' <=> HoldsInit(k))
        /\ At(q, "half") \in BOOLEAN
    BY <1>2, <1>3, <1>5 DEF Due, InHand, HoldsInit, At
  <2>5. (At(q, "half")' <=> At(q, "half")) /\ (Asks(q)' <=> Asks(q)) /\ (Stacked(q) => Stacked(q)')
    BY <1>2 DEF At, Asks, Busy, Top, Stacked
  <2>6. /\ Head(in[k]).part = "body"
        /\ Aligned(Tail(in[k]), Head(in[k]).part = "head", At(q, "half"))
    <3>1. Aligned(in[k], TRUE, At(q, "half"))
      BY <2>3, <2>4 DEF Linked, Aligned
    <3> QED  BY <1>4, <2>1, <2>4, <3>1, AlignedTaken
  <2>7. Aligned(in[k], Due(k), At(q, "half"))'
    BY <2>2, <2>4, <2>5, <2>6 DEF Aligned
  <2>8. Owed(in[k], Asks(q), InHand(k), out[k])'
    <3>1. Owed(in[k], Asks(q), InHand(k), out[k])
      BY <2>3 DEF Linked
    <3>2. /\ NoQuestion(in[k]) => NoQuestion(in'[k])
          /\ OneQuestion(in[k]) => OneQuestion(in'[k])
      BY <1>4, <2>1, <2>2, <2>6, QuestionTaken DEF Question
    <3>3. out'[k] = out[k]
      BY <1>2
    <3> QED  BY <2>4, <2>5, <3>1, <3>2, <3>3 DEF Owed
  <2>9. InitDue(k)' => k \notin sessions'
    <3>1. (\E j \in 1 .. Len(in'[k]) : in'[k][j].call = "Init")
              => \E j \in 1 .. Len(in[k]) : in[k][j].call = "Init"
      BY <1>4, <2>1, <2>2, InitTaken
    <3>2. InitDue(k)' => InitDue(k)
      BY <2>4, <3>1 DEF InitDue
    <3> QED  BY <1>2, <2>3, <3>2 DEF Linked
  <2>10. Linked(k, q)'
    BY <2>7, <2>8, <2>9 DEF Linked
  <2> QED  BY <1>2, <1>9, <2>3, <2>5, <2>10 DEF Sound
<1> QED  BY <1>7, <1>8, <1>9 DEF Inv

\* What a reply changes.
LEMMA ReplyIs ==
  ASSUME Types, active \in Conns, NEW what \in Replies, Reply(what)
  PROVE  /\ out' \in [Conns -> Seq(Replies)]
         /\ \A k \in Conns : k # active \/ ~HasClient(k) => out'[k] = out[k]
         /\ HasClient(active) => out'[active] = Append(out[active], what)
<1>1. out \in [Conns -> Seq(Replies)]
  BY DEF Types
<1>2. Append(out[active], what) \in Seq(Replies)
  BY <1>1, AppendProperties
<1>3. CASE HasClient(active)
  BY <1>1, <1>2, <1>3 DEF Reply
<1>4. CASE ~HasClient(active)
  BY <1>1, <1>4 DEF Reply
<1> QED  BY <1>3, <1>4

\* The connection that is read is one that is served.
LEMMA Reading ==
  ASSUME Common, reader # "select"
  PROVE  active \in Conns /\ active \in ToSet(fds) /\ active # None
<1>1. active \in ToSet(fds)
  BY DEF Common, Served
<1>2. fds \in Seq(Conns) /\ DOMAIN fds = 1 .. Len(fds)
  BY LenProperties DEF Common, Types
<1>3. PICK i \in 1 .. Len(fds) : active = fds[i]
  BY <1>1, <1>2 DEF ToSet
<1>4. active \in Conns
  BY <1>2, <1>3, ElementOfSeq
<1> QED  BY <1>1, <1>4, ConnsAssumption

\* A request is answered, and nothing else but a session begins or ends.
LEMMA AnsweredInv ==
  ASSUME Inv, reader = "read", NEW what \in Replies,
         IF hand.call \in Silent THEN UNCHANGED out ELSE Reply(what),
         what = "refused" => hand.call = "Init" /\ active \in sessions,
         reader' = "select", hand' = Nothing,
         sessions' \subseteq sessions \cup IF hand.call = "Init" THEN {active} ELSE {},
         UNCHANGED <<server, backlog, fds, active, in, fd, calls, registered, signalled, torn, spent>>
  PROVE  Inv'
<1>1. Types /\ Common
  BY DEF Inv, Common
<1>2. PICK k \in Conns : k = active /\ k \in ToSet(fds) /\ k # None
  BY <1>1, Reading
<1>3. /\ out' \in [Conns -> Seq(Replies)]
      /\ \A j \in Conns : j # k \/ ~HasClient(j) => out'[j] = out[j]
  BY <1>1, <1>2, ReplyIs DEF Types
<1>4. Types'
  <2>1. Nothing \in [call : Names, stale : BOOLEAN]
    BY Named DEF Nothing
  <2>2. sessions' \subseteq Conns
    BY <1>1, <1>2 DEF Types
  <2> QED  BY <1>1, <1>3, <2>1, <2>2 DEF Types
<1>5. Common'
  <2>1. Served'
    BY <1>1, <1>2 DEF Common, Served
  <2> QED  BY <1>1, <1>3, <1>4, <2>1, CommonServed
<1>6. ASSUME NEW q \in Clients \ torn', fd[q] # k PROVE Sound(q)'
  <2>1. PICK j \in Conns \cup {None} : j = fd[q] /\ j # k
    BY <1>1, <1>6 DEF Types
  <2>2. ~Due(j)' /\ ~InHand(j)' /\ ~HoldsInit(j)' /\ ~Due(j) /\ ~InHand(j)
    BY <1>2, <2>1 DEF Due, InHand, HoldsInit
  <2>3. HasServer(j)' => HasServer(j)
    BY DEF HasServer
  <2>4. j # None => out'[j] = out[j]
    BY <1>3, <2>1
  <2>5. j \in sessions' => j \in sessions
    BY <1>2, <2>1
  <2> QED  BY <1>6, <2>1, <2>2, <2>3, <2>4, <2>5, Undisturbed DEF Inv
<1>7. ASSUME NEW q \in Clients \ torn', fd[q] = k PROVE Sound(q)'
  <2>1. Sound(q) /\ Linked(k, q) /\ \A j \in 1 .. Len(out[k]) : out[k][j] # "refused"
    BY <1>2, <1>7 DEF Inv, Sound, HasServer
  <2>2. ~Due(k) /\ ~Due(k)' /\ ~InHand(k)' /\ ~HoldsInit(k)'
    BY DEF Due, InHand, HoldsInit
  <2>3. (At(q, "half")' <=> At(q, "half")) /\ (Asks(q)' <=> Asks(q)) /\ (Stacked(q) => Stacked(q)')
    BY DEF At, Asks, Busy, Top, Stacked
  <2>4. Aligned(in[k], Due(k), At(q, "half"))'
    BY <2>1, <2>2, <2>3 DEF Linked, Aligned
  <2>5. Owed(in[k], Asks(q), InHand(k), out[k])
    BY <2>1 DEF Linked
  <2>6. CASE hand.call \in Silent
    <3>1. out' = out /\ ~InHand(k) /\ hand.call # "Init"
      BY <2>6 DEF InHand, Silent
    <3>2. Owed(in[k], Asks(q), InHand(k), out[k])'
      <4>1. /\ NoQuestion(in[k])' <=> NoQuestion(in[k])
            /\ OneQuestion(in[k])' <=> OneQuestion(in[k])
        BY DEF NoQuestion, OneQuestion
      <4> QED  BY <2>2, <2>3, <2>5, <3>1, <4>1 DEF Owed
    <3>3. InitDue(k)' => InitDue(k)
      BY <2>2 DEF InitDue
    <3>4. Linked(k, q)'
      BY <2>1, <2>4, <3>1, <3>2, <3>3 DEF Linked
    <3> QED  BY <1>7, <2>1, <2>3, <3>1, <3>4 DEF Sound
  <2>7. CASE hand.call \notin Silent
    <3>1. InHand(k)
      BY <1>2, <2>7 DEF InHand
    <3>2. Asks(q) /\ NoQuestion(in[k]) /\ out[k] = <<>>
      BY <2>5, <3>1 DEF Owed
    <3>3. what # "refused"
      BY <1>2, <2>1 DEF Linked, InitDue, HoldsInit
    <3>4. what \in Names /\ out[k] \in Seq(Replies) /\ in[k] \in Seq(Pieces)
      BY <1>1, <3>3 DEF Replies, Types
    <3>5. out'[k] = Append(out[k], what)
      BY <1>1, <1>2, <1>7, <2>7, ReplyIs DEF HasClient
    <3>6. Len(out'[k]) = 1 /\ \A j \in 1 .. Len(out'[k]) : out'[k][j] # "refused"
      BY <2>1, <3>2, <3>4, <3>5, Replied
    <3>7. Owed(in[k], Asks(q), InHand(k), out[k])'
      <4>1. NoQuestion(in'[k])
        BY <3>2
      <4> QED  BY <2>2, <2>3, <3>2, <3>6, <4>1 DEF Owed
    <3>8. ~InitDue(k)'
      <4>1. ~\E i \in 1 .. Len(in[k]) : in[k][i].call = "Init"
        BY <3>2, <3>4, NoInit
      <4> QED  BY <2>2, <4>1 DEF InitDue
    <3>9. Linked(k, q)'
      BY <2>4, <3>7, <3>8 DEF Linked
    <3> QED  BY <1>7, <2>1, <2>3, <3>6, <3>9 DEF Sound
  <2> QED  BY <2>6, <2>7
<1> QED  BY <1>5, <1>6, <1>7 DEF Inv

\* The server ends.
LEMMA EndsInv ==
  ASSUME Inv, ServerEnds, spent' \in 0 .. Events,
         UNCHANGED <<fd, calls, registered, signalled, torn>>,
         out' \in [Conns -> Seq(Replies)],
         \A k \in Conns : ~HasClient(k) => out'[k] = out[k],
         \A q \in Clients \ torn : fd[q] # None =>
             \A i \in 1 .. Len(out'[fd[q]]) : out'[fd[q]][i] # "refused"
  PROVE  Inv'
<1>1. Types /\ Common
  BY DEF Inv, Common
<1>2. /\ server' = "down" /\ backlog' = <<>> /\ fds' = <<>> /\ sessions' = {}
      /\ reader' = "select" /\ active' = None /\ hand' = Nothing /\ in' = Empty
  BY DEF ServerEnds
<1>3. Types'
  <2>1. Nothing \in [call : Names, stale : BOOLEAN]
    BY Named DEF Nothing
  <2>2. <<>> \in Seq(Pieces) /\ <<>> \in Seq(Conns)
    OBVIOUS
  <2>3. Empty \in [Conns -> Seq(Pieces)]
    BY <2>2 DEF Empty
  <2> QED  BY <1>1, <1>2, <2>1, <2>2, <2>3 DEF Types
<1>4. Common'
  <2>1. Served'
    BY <1>2 DEF Served
  <2> QED  BY <1>1, <1>3, <2>1, CommonServed
<1>5. ASSUME NEW q \in Clients \ torn' PROVE Sound(q)'
  <2>1. \A k : ~HasServer(k)'
    <3>1. ToSet(<<>>) = {}
      BY DEF ToSet
    <3> QED  BY <1>2, <3>1 DEF HasServer
  <2>2. Stacked(q)'
    BY <1>5 DEF Inv, Sound, Stacked, At, Busy, Top
  <2> QED  BY <1>5, <2>1, <2>2 DEF Sound
<1> QED  BY <1>4, <1>5 DEF Inv

LEMMA CrashInv == ASSUME Inv, Crash PROVE Inv'
<1>1. Types /\ Common
  BY DEF Inv, Common
<1>2. spent' \in 0 .. Events
  <2>1. spent \in 0 .. Events
    BY <1>1 DEF Types
  <2> QED  BY <2>1, BoundsAssumption DEF Crash, Spend
<1>3. ServerEnds /\ UNCHANGED <<out, fd, calls, registered, signalled, torn>>
  BY DEF Crash, library
<1>4. out' \in [Conns -> Seq(Replies)] /\ \A k \in Conns : ~HasClient(k) => out'[k] = out[k]
  BY <1>1, <1>3 DEF Types
<1>5. \A q \in Clients \ torn : fd[q] # None =>
         \A i \in 1 .. Len(out'[fd[q]]) : out'[fd[q]][i] # "refused"
  BY <1>3 DEF Inv, Sound
<1> QED  BY <1>2, <1>3, <1>4, <1>5, EndsInv

LEMMA LogRequestInv == ASSUME Inv, LogRequest PROVE Inv'
<1>1. /\ reader = "read" /\ hand.call = "Log" /\ Reply("Log")
      /\ reader' = "select" /\ hand' = Nothing /\ sessions' = sessions
      /\ UNCHANGED <<server, backlog, fds, active, in, fd, calls, registered, signalled, torn, spent>>
  BY DEF LogRequest, table, library
<1>2. "Log" \in Replies /\ "Log" \notin Silent
  <2>1. hand.call \in Names
    BY DEF Inv, Common, Types
  <2> QED  BY <1>1, <2>1 DEF Replies, Silent
<1> QED  BY <1>1, <1>2, AnsweredInv

LEMMA HandleInv == ASSUME Inv, Handle PROVE Inv'
<1>1. Types /\ Common
  BY DEF Inv, Common
<1>2. /\ reader = "read"
      /\ IF hand.call \in Silent THEN UNCHANGED out ELSE Reply(Answer)
      /\ UNCHANGED <<fd, calls, registered, signalled, torn, spent>>
  BY DEF Handle, library
<1>3. PICK what \in Replies : /\ what = Answer
                              /\ what = "refused" => hand.call = "Init" /\ active \in sessions
                              /\ hand.call # "Init" => what = hand.call
  <2>1. hand.call \in Names
    BY <1>1 DEF Types
  <2> QED  BY <2>1, Named DEF Answer, Replies
<1>4. CASE hand.call = "KillServer" /\ ServerEnds
  <2>1. Reply(what) /\ what = "KillServer" /\ what # "refused"
    <3>1. "KillServer" \notin Silent
      BY DEF Silent
    <3> QED  BY <1>2, <1>3, <1>4, <3>1
  <2>2. what \in Names
    BY <2>1 DEF Replies
  <2>3. PICK k \in Conns : k = active
    BY <1>1, <1>2, Reading
  <2>4. /\ out' \in [Conns -> Seq(Replies)]
        /\ \A j \in Conns : j # k \/ ~HasClient(j) => out'[j] = out[j]
        /\ HasClient(k) => out'[k] = Append(out[k], what)
    BY <1>1, <2>1, <2>3, ReplyIs
  <2>5. ASSUME NEW q \in Clients \ torn, fd[q] # None
        PROVE  \A i \in 1 .. Len(out'[fd[q]]) : out'[fd[q]][i] # "refused"
    <3>1. \A i \in 1 .. Len(out[fd[q]]) : out[fd[q]][i] # "refused"
      BY <2>5 DEF Inv, Sound
    <3>2. CASE fd[q] # k
      <4>1. out'[fd[q]] = out[fd[q]]
        BY <1>1, <2>4, <2>5, <3>2 DEF Types
      <4> QED  BY <3>1, <4>1
    <3>3. CASE fd[q] = k
      <4>1. out'[k] = Append(out[k], what)
        BY <2>4, <3>3 DEF HasClient
      <4>2. out[k] \in Seq(Replies)
        BY <1>1 DEF Types
      <4> QED  BY <2>2, <3>1, <3>3, <4>1, <4>2, Replied
    <3> QED  BY <3>2, <3>3
  <2>6. spent' \in 0 .. Events
    BY <1>1, <1>2 DEF Types
  <2> QED  BY <1>2, <1>4, <2>4, <2>5, <2>6, EndsInv
<1>5. CASE hand.call # "KillServer" /\ Stays
  <2>1. /\ reader' = "select" /\ hand' = Nothing /\ sessions' = SessionsAfter
        /\ UNCHANGED <<server, backlog, fds, active, in>>
    BY <1>5 DEF Stays
  <2>2. sessions' \subseteq sessions \cup IF hand.call = "Init" THEN {active} ELSE {}
    BY <2>1 DEF SessionsAfter
  <2>3. IF hand.call \in Silent THEN UNCHANGED out ELSE Reply(what)
    BY <1>2, <1>3
  <2> QED  BY <1>2, <1>3, <2>1, <2>2, <2>3, AnsweredInv
<1> QED  BY <1>4, <1>5 DEF Handle

---------------------------------------------------------------------------
\* The invariant and what follows from it.

LEMMA InvKept == Inv /\ [Next]_vars => Inv'
<1> SUFFICES ASSUME Inv, [Next]_vars PROVE Inv'
  OBVIOUS
<1>1. CASE Next
  <2>1. ASSUME NEW p \in Clients, Begin(p) \/ Within(p) \/ Die(p) \/ \E call \in Calls[p] : Call(p, call)
        PROVE  Inv'
    BY <2>1, BeginInv, ConnectInv, WriteBodyInv, TakeReplyInv, CallFailsInv, TakeSignalInv,
       DieInv, CallInv DEF Within
  <2>2. CASE Listen \/ Announce
    BY <2>2, ListenInv
  <2>3. CASE ReaderStep
    BY <2>3, AcceptInv, DisconnectInv, ReadHeaderInv, ReadBodyInv, LogRequestInv, HandleInv
       DEF ReaderStep
  <2>4. CASE Crash
    BY <2>4, CrashInv
  <2> QED  BY <1>1, <2>1, <2>2, <2>3, <2>4 DEF Next
<1>2. CASE UNCHANGED vars
  <2>1. /\ UNCHANGED <<server, fds, backlog, sessions, reader, active, hand, in, out, fd, calls,
                       registered, signalled, torn, spent>>
    BY <1>2 DEF vars, table, threads, links, library
  <2>2. Types' /\ Served' /\ Common /\ Types
    BY <2>1 DEF Inv, Common, Types, Served
  <2>3. Common'
    BY <2>1, <2>2, CommonServed
  <2>4. ASSUME NEW q \in Clients \ torn' PROVE Sound(q)'
    BY <2>1, <2>2, <2>4, Aside DEF Inv, threads
  <2> QED  BY <2>3, <2>4 DEF Inv
<1> QED  BY <1>1, <1>2

\* Every variable has its type: packets and replies are those of calls that
\* there are, and only processes that catch the signal are torn by it.
THEOREM TypesCorrect == Spec => []TypeOK
<1>1. Inv => TypeOK
  <2> SUFFICES ASSUME Inv PROVE TypeOK
    OBVIOUS
  <2>1. Types
    BY DEF Inv, Common
  <2>2. Frames \subseteq [call : Names, at : Ats]
    BY DEF Frames
  <2>3. Pieces \subseteq [call : Names, part : {"whole", "head", "body"}]
    BY DEF Pieces
  <2>4. ASSUME NEW S, NEW T, S \subseteq T, NEW s \in Seq(S) PROVE s \in Seq(T)
    <3>1. \A i \in 1 .. Len(s) : s[i] \in T
      BY <2>4, ElementOfSeq
    <3>2. s = [i \in 1 .. Len(s) |-> s[i]] /\ Len(s) \in Nat
      BY <2>4, LenProperties
    <3> QED  BY <3>1, <3>2, IsASeq
  <2>5. Seq(Frames) \subseteq Seq([call : Names, at : Ats])
    BY <2>2, <2>4
  <2>6. Seq(Pieces) \subseteq Seq([call : Names, part : {"whole", "head", "body"}])
    BY <2>3, <2>4
  <2>7. calls \in [Clients -> Seq([call : Names, at : Ats])]
    BY <2>1, <2>5 DEF Types
  <2>8. in \in [Conns -> Seq([call : Names, part : {"whole", "head", "body"}])]
    BY <2>1, <2>6 DEF Types
  <2> QED  BY <2>1, <2>7, <2>8 DEF Types, TypeOK, Replies
<1> QED  BY <1>1, InitInv, InvKept, PTL DEF Spec

\* A client that no signal has torn is owed one answer while it waits for
\* one and none otherwise, whatever the others and the server do: its replies
\* are to what it has just asked (so/corr.c, exe/main.c:423).
THEOREM AnswersMatch == Spec => []OneAnswer
<1>1. ASSUME Inv PROVE OneAnswer
  <2> SUFFICES ASSUME NEW p \in Clients \ torn, ~Cut(p)
               PROVE  Questions(in[fd[p]]) + (IF InHand(fd[p]) THEN 1 ELSE 0) + Len(out[fd[p]])
                         = IF Asks(p) THEN 1 ELSE 0
    BY DEF OneAnswer
  <2>1. PICK k \in Conns : k = fd[p] /\ k # None /\ HasServer(k)
    BY <1>1 DEF Cut, Inv, Common, Types
  <2>2. Owed(in[k], Asks(p), InHand(k), out[k])
    BY <1>1, <2>1 DEF Inv, Sound, Linked
  <2> DEFINE s == in[k]
             m == Len(out[k])
             n == Questions(s)
             asked == {i \in DOMAIN s : s[i].part # "body" /\ s[i].call \notin Silent}
  <2>3. DOMAIN s = 1 .. Len(s)
    BY <1>1, LenProperties DEF Inv, Common, Types
  <2>4. n = Cardinality(asked)
    BY DEF Questions
  <2>5. out[k] = <<>> => m = 0
    OBVIOUS
  <2> HIDE DEF m, n
  <2>6. NoQuestion(s) => n = 0
    <3>1. NoQuestion(s) => asked = {}
      BY <2>3 DEF NoQuestion, Question
    <3> HIDE DEF asked
    <3> QED  BY <2>4, <3>1, FS_EmptySet
  <2>7. OneQuestion(s) => n = 1
    <3>1. ASSUME OneQuestion(s) PROVE \E i : asked = {i}
      <4>1. PICK i \in 1 .. Len(s) : /\ Question(s[i])
                                     /\ \A j \in 1 .. Len(s) : Question(s[j]) => j = i
        BY <3>1 DEF OneQuestion
      <4>2. asked = {i}
        BY <2>3, <4>1 DEF Question
      <4> QED  BY <4>2
    <3> HIDE DEF asked
    <3> QED  BY <2>4, <3>1, FS_Singleton
  <2> HIDE DEF s
  <2>8. Owed(s, Asks(p), InHand(k), out[k])
    BY <2>2 DEF s
  <2>9. n + (IF InHand(k) THEN 1 ELSE 0) + m = IF Asks(p) THEN 1 ELSE 0
    <3>1. \/ Asks(p) /\ n = 1 /\ ~InHand(k) /\ m = 0
          \/ Asks(p) /\ n = 0 /\ InHand(k) /\ m = 0
          \/ Asks(p) /\ n = 0 /\ ~InHand(k) /\ m = 1
          \/ ~Asks(p) /\ n = 0 /\ ~InHand(k) /\ m = 0
      BY <2>5, <2>6, <2>7, <2>8 DEF Owed, m
    <3> QED  BY <3>1
  <2> QED  BY <2>1, <2>9 DEF n, m, s
<1> QED  BY <1>1, InitInv, InvKept, PTL DEF Spec

\* Nobody that no signal has torn is refused: when a descriptor is used again
\* the session of its last user has ended (canna.c:72).
THEOREM NobodyRefused == Spec => []NeverRefused
<1>1. ASSUME Inv PROVE NeverRefused
  <2> SUFFICES ASSUME NEW p \in Clients \ torn, fd[p] # None PROVE "refused" \notin ToSet(out[fd[p]])
    BY DEF NeverRefused
  <2>1. \A i \in 1 .. Len(out[fd[p]]) : out[fd[p]][i] # "refused"
    BY <1>1 DEF Inv, Sound
  <2>2. out[fd[p]] \in Seq(Replies)
    BY <1>1 DEF Inv, Common, Types
  <2>3. DOMAIN out[fd[p]] = 1 .. Len(out[fd[p]])
    BY <2>2, LenProperties
  <2> QED  BY <2>1, <2>3 DEF ToSet
<1> QED  BY <1>1, InitInv, InvKept, PTL DEF Spec
==============================================================================
