-------------------------- MODULE Contexts_proofs --------------------------
(***************************************************************************)
(* Proofs about the contexts of the server: the tables (ContextTable), the *)
(* dictionaries mounted on a context (Dictionaries) and the key messages   *)
(* of one (KeyMessages).  They hold for any set of descriptors, handles,   *)
(* names and modes, any number of contexts and any length of the queue.    *)
(***************************************************************************)
EXTENDS Dictionaries, KeyMessages, Lists_proofs, FunctionTheorems

---------------------------------------------------------------------------
(* The tables.                                                             *)

\* The inductive invariant.  That windows are never shared needs both the
\* types and NoneLost: only because every existing window is accounted for
\* is a new handle different from all those in use and in the stock.
IInv == TypeOK /\ WindowsExclusive /\ OwnersConnected

---------------------------------------------------------------------------
(* Facts about the data.                                                   *)

\* Any set of context numbers has a size.
LEMMA SlotsFinite ==
  ASSUME NEW C \in SUBSET Slots
  PROVE  Cardinality(C) \in Nat
<1>1. IsFiniteSet(Slots)
  BY FS_Interval, MaxContextsAssumption DEF Slots
<1> QED  BY <1>1, FS_Subset, FS_CardinalityType

\* Sequences without repetition and without a common element, one after the
\* other, have no repetition: why push_win may append to the stock.
LEMMA ConcatInjective ==
  ASSUME NEW T, NEW s \in Seq(T), NEW t \in Seq(T),
         IsInjective(s), IsInjective(t), Range(s) \cap Range(t) = {}
  PROVE  IsInjective(s \o t)
<1> DEFINE m == Len(s)
           n == Len(t)
           u == s \o t
<1>1. /\ m \in Nat /\ n \in Nat /\ DOMAIN s = 1 .. m /\ DOMAIN t = 1 .. n
      /\ DOMAIN u = 1 .. m + n
      /\ \A i \in 1 .. m + n : u[i] = IF i <= m THEN s[i] ELSE t[i - m]
  BY ConcatProperties
<1>2. \A i \in 1 .. m : s[i] \in Range(s)
  BY <1>1 DEF Range
<1>3. \A i \in 1 .. n : t[i] \in Range(t)
  BY <1>1 DEF Range
<1>4. \A i, j \in 1 .. m : s[i] = s[j] => i = j
  BY <1>1 DEF IsInjective
<1>5. \A i, j \in 1 .. n : t[i] = t[j] => i = j
  BY <1>1 DEF IsInjective
<1> HIDE DEF m, n, u
<1>6. SUFFICES ASSUME NEW i \in 1 .. m + n, NEW j \in 1 .. m + n, u[i] = u[j]
               PROVE  i = j
  BY <1>1 DEF IsInjective, u
<1>7. \A k \in 1 .. m + n : IF k <= m THEN k \in 1 .. m ELSE k - m \in 1 .. n
  BY <1>1
<1>8. (i <= m /\ j > m) \/ (j <= m /\ i > m) => FALSE
  BY <1>1, <1>2, <1>3, <1>6, <1>7
<1>9. i > m /\ j > m => i - m = j - m
  BY <1>1, <1>5, <1>6, <1>7
<1> QED  BY <1>1, <1>4, <1>6, <1>7, <1>8, <1>9

\* Taking the last element away from a sequence without repetition.
LEMMA FrontAndLast ==
  ASSUME NEW T, NEW s \in Seq(T), s # <<>>, IsInjective(s)
  PROVE  LET front == SubSeq(s, 1, Len(s) - 1)
             last == s[Len(s)]
         IN  /\ front \in Seq(T) /\ IsInjective(front)
             /\ last \in T /\ last \notin Range(front)
             /\ Range(s) = Range(front) \cup {last}
<1> DEFINE k == Len(s)
           front == SubSeq(s, 1, k - 1)
<1>1. k \in Nat \ {0} /\ DOMAIN s = 1 .. k /\ \A i \in 1 .. k : s[i] \in T
  OBVIOUS
<1>2. front \in Seq(T) /\ DOMAIN front = 1 .. k - 1
  BY <1>1
<1>3. \A i \in 1 .. k - 1 : front[i] = s[i]
  BY <1>1
<1>4. \A i, j \in 1 .. k : s[i] = s[j] => i = j
  BY <1>1 DEF IsInjective
<1> HIDE DEF front, k
<1>5. IsInjective(front)
  BY <1>1, <1>2, <1>3, <1>4 DEF IsInjective
<1>6. s[k] \notin Range(front)
  BY <1>1, <1>2, <1>3, <1>4 DEF Range
<1>7. Range(s) = Range(front) \cup {s[k]}
  <2>1. DOMAIN s = DOMAIN front \cup {k}
    BY <1>1, <1>2
  <2> QED  BY <1>2, <1>3, <2>1 DEF Range
<1> QED  BY <1>1, <1>2, <1>5, <1>6, <1>7 DEF front, k

---------------------------------------------------------------------------
(* What the operations on the table do to the windows.                     *)

\* pop_win returns a window that no context uses and leaves a stock without
\* it.
LEMMA PopWinFresh ==
  ASSUME TypeOK, WindowsExclusive, NEW w \in Handles, PopWin(w)
  PROVE  /\ stock' \in Seq(Handles) /\ IsInjective(stock')
         /\ wins' \in SUBSET Handles
         /\ w \notin Range(stock') \cup InUse
         /\ Range(stock') \subseteq Range(stock)
         /\ wins' = Range(stock') \cup InUse \cup {w}
<1>1. /\ stock \in Seq(Handles) /\ wins \in SUBSET Handles
      /\ IsInjective(stock) /\ wins = Range(stock) \cup InUse
      /\ Range(stock) \cap InUse = {}
  BY DEF TypeOK, WindowsExclusive, StockApart, NoneLost, InUse
<1>2. CASE stock = <<>>
  BY <1>1, <1>2 DEF PopWin
<1>3. CASE stock # <<>>
  <2> DEFINE front == SubSeq(stock, 1, Len(stock) - 1)
             last == stock[Len(stock)]
  <2>1. w = last /\ stock' = front /\ wins' = wins
    BY <1>3 DEF PopWin
  <2>2. /\ front \in Seq(Handles) /\ IsInjective(front)
        /\ last \notin Range(front)
        /\ Range(stock) = Range(front) \cup {last}
    BY <1>1, <1>3, FrontAndLast
  <2> HIDE DEF front, last
  <2> QED  BY <1>1, <2>1, <2>2
<1> QED  BY <1>2, <1>3

\* Opening a context keeps the types and keeps the windows apart.
LEMMA OpenKeepsWindows ==
  ASSUME TypeOK, WindowsExclusive, NEW fd \in Fds, OpenCannaContext(fd)
  PROVE  /\ win' \in [Slots -> Handles \cup {NoWin}]
         /\ owner' \in [Slots -> Fds \cup {NoFd}]
         /\ stock' \in Seq(Handles)
         /\ wins' \in SUBSET Handles
         /\ WindowsExclusive'
<1>1. PICK n \in Slots, w \in Handles :
         /\ FirstFree(n)
         /\ PopWin(w)
         /\ win' = [win EXCEPT ![n] = w]
         /\ owner' = [owner EXCEPT ![n] = fd]
  BY DEF OpenCannaContext
<1>2. /\ win' \in [Slots -> Handles \cup {NoWin}]
      /\ owner' \in [Slots -> Fds \cup {NoFd}]
      /\ win'[n] = w /\ w # NoWin /\ ~Live(n)
      /\ \A m \in Slots \ {n} : win'[m] = win[m]
  BY <1>1, NoWinAssumption DEF TypeOK, FirstFree
<1>3. /\ stock' \in Seq(Handles) /\ IsInjective(stock')
      /\ wins' \in SUBSET Handles
      /\ w \notin Range(stock') \cup InUse
      /\ Range(stock') \subseteq Range(stock)
      /\ wins' = Range(stock') \cup InUse \cup {w}
  BY <1>1, PopWinFresh
<1>4. \A m \in Slots : Live(m) => win[m] # w
  BY <1>3 DEF InUse
<1>5. ContextsApart'
  BY <1>2, <1>4 DEF ContextsApart, WindowsExclusive, Live
<1>6. StockApart'
  BY <1>2, <1>3 DEF StockApart, WindowsExclusive
<1>7. NoneLost'
  <2>1. InUse' = InUse \cup {w}
    BY <1>2 DEF Live, InUse
  <2> QED  BY <1>3, <2>1 DEF NoneLost
<1> QED  BY <1>2, <1>3, <1>5, <1>6, <1>7 DEF WindowsExclusive

\* Closing any set of contexts in use puts their windows into the stock, each
\* once: the types hold and the windows stay apart.
LEMMA CloseKeepsWindows ==
  ASSUME TypeOK, WindowsExclusive,
         NEW C \in SUBSET Slots, \A n \in C : Live(n),
         CloseCannaContexts(C)
  PROVE  /\ win' \in [Slots -> Handles \cup {NoWin}]
         /\ stock' \in Seq(Handles)
         /\ WindowsExclusive'
<1> DEFINE c == Cardinality(C)
           back(v) == [i \in DOMAIN v |-> win[v[i]]]
<1>1. PICK v \in Visits(C) : stock' = stock \o back(v)
  BY DEF CloseCannaContexts
<1>2. /\ win' = [n \in Slots |-> IF n \in C THEN NoWin ELSE win[n]]
      /\ wins' = wins
      /\ win \in [Slots -> Handles \cup {NoWin}]
      /\ stock \in Seq(Handles) /\ IsInjective(stock)
      /\ \A n \in Slots : win[n] \notin Range(stock)
      /\ \A m, n \in Slots : Live(m) /\ win[m] = win[n] => m = n
      /\ wins = Range(stock) \cup InUse
  BY DEF CloseCannaContexts, TypeOK, WindowsExclusive, StockApart,
         ContextsApart, NoneLost
<1>3. /\ c \in Nat /\ v \in [1 .. c -> C] /\ IsInjective(v)
      /\ \A n \in C : \E i \in 1 .. c : v[i] = n
  BY SlotsFinite DEF Visits, Bijection, Injection, Surjection
<1> DEFINE t == back(v)
<1>4. t \in [1 .. c -> Handles] /\ \A i \in 1 .. c : t[i] = win[v[i]] /\ v[i] \in C
  BY <1>2, <1>3 DEF Live
<1> HIDE DEF t, c
<1>5. t \in Seq(Handles) /\ DOMAIN t = 1 .. c
  BY <1>3, <1>4
<1>6. IsInjective(t)
  BY <1>2, <1>3, <1>4, <1>5 DEF IsInjective
<1>7. Range(t) = {win[n] : n \in C}
  BY <1>3, <1>4, <1>5, SMTT(60) DEF Range
<1>8. Range(stock) \cap Range(t) = {}
  BY <1>2, <1>7
<1>9. stock' = stock \o t
  BY <1>1 DEF t
<1>10. stock' \in Seq(Handles) /\ Range(stock') = Range(stock) \cup Range(t)
  BY <1>2, <1>5, <1>9, ConcatProperties, RangeConcatenation
<1>11. IsInjective(stock')
  BY <1>2, <1>5, <1>6, <1>8, <1>9, ConcatInjective
<1>12. win' \in [Slots -> Handles \cup {NoWin}] /\ ContextsApart'
  BY <1>2 DEF ContextsApart, Live
<1>13. StockApart'
  <2>1. ASSUME NEW n \in Slots  PROVE  win'[n] \notin Range(stock')
    <3>1. NoWin \notin Range(stock')
      BY <1>10, RangeOfSeq, NoWinAssumption
    <3>2. CASE n \in C
      BY <1>2, <3>1, <3>2
    <3>3. CASE n \notin C /\ Live(n)
      BY <1>2, <1>7, <1>10, <3>3
    <3>4. CASE n \notin C /\ ~Live(n)
      BY <1>2, <3>1, <3>4 DEF Live
    <3> QED  BY <3>2, <3>3, <3>4
  <2> QED  BY <1>11, <2>1 DEF StockApart
<1>14. NoneLost'
  <2>1. InUse = {win[n] : n \in C} \cup InUse'
    BY <1>2 DEF InUse, Live
  <2> QED  BY <1>2, <1>7, <1>10, <2>1 DEF NoneLost
<1> QED  BY <1>10, <1>12, <1>13, <1>14 DEF WindowsExclusive

\* ReplaceWindow gives each context in use a new window of its own and
\* destroys all the others.
LEMMA ReplaceKeepsWindows ==
  ASSUME TypeOK, ReplaceWindow
  PROVE  /\ win' \in [Slots -> Handles \cup {NoWin}]
         /\ stock' \in Seq(Handles)
         /\ wins' \in SUBSET Handles
         /\ WindowsExclusive'
         /\ \A n \in Slots : Live(n)' <=> Live(n)
<1> DEFINE L == {n \in Slots : Live(n)}
<1>1. PICK new \in Injection(L, Handles) :
         /\ win' = [n \in Slots |-> IF Live(n) THEN new[n] ELSE NoWin]
         /\ wins' = Range(new)
  BY DEF ReplaceWindow
<1>2. /\ new \in [L -> Handles] /\ \A a, b \in L : new[a] = new[b] => a = b
      /\ Range(new) = {new[n] : n \in L}
      /\ stock' = <<>> /\ Range(<<>>) = {} /\ IsInjective(<<>>)
  BY <1>1 DEF Injection, IsInjective, Range, ReplaceWindow
<1>3. /\ win' \in [Slots -> Handles \cup {NoWin}]
      /\ stock' \in Seq(Handles)
      /\ wins' \in SUBSET Handles
  BY <1>1, <1>2
<1>4. \A n \in Slots : Live(n)' <=> Live(n)
  BY <1>1, <1>2, NoWinAssumption DEF Live
<1>5. ContextsApart'
  <2> SUFFICES ASSUME NEW m \in Slots, NEW n \in Slots,
                      win'[m] # NoWin, win'[m] = win'[n]
               PROVE  m = n
    BY DEF ContextsApart, Live
  <2>1. m \in L /\ n \in L
    BY <1>4 DEF Live
  <2>2. win'[m] = new[m] /\ win'[n] = new[n]
    BY <1>1, <2>1
  <2> QED  BY <1>2, <2>1, <2>2
<1>6. StockApart'
  BY <1>2 DEF StockApart
<1>7. InUse' = {new[n] : n \in L}
  BY <1>1, <1>4 DEF InUse
<1> QED  BY <1>1, <1>2, <1>3, <1>4, <1>5, <1>6, <1>7 DEF WindowsExclusive, NoneLost

---------------------------------------------------------------------------
(* The invariant.                                                          *)

LEMMA InitIInv == Init => IInv
<1> SUFFICES ASSUME Init  PROVE IInv
  OBVIOUS
<1>1. TypeOK
  BY DEF Init, TypeOK
<1>2. /\ IsInjective(stock) /\ Range(stock) = {}
      /\ \A n \in Slots : win[n] = NoWin
  BY DEF Init, IsInjective, Range
<1>3. WindowsExclusive
  BY <1>2 DEF Init, WindowsExclusive, ContextsApart, StockApart, NoneLost, InUse, Live
<1>4. OwnersConnected
  BY <1>2 DEF Init, OwnersConnected, Live
<1> QED  BY <1>1, <1>3, <1>4 DEF IInv

\* A process that ended has the tables of Init.
LEMMA StopIInv ==
  ASSUME NEW how \in {"killed", "crashed"}, Stop(how)
  PROVE  IInv'
<1>1. TypeOK'
  BY DEF Stop, TypeOK
<1>2. /\ IsInjective(stock)' /\ Range(stock)' = {}
      /\ \A n \in Slots : win'[n] = NoWin
  BY DEF Stop, IsInjective, Range
<1>3. WindowsExclusive'
  BY <1>2 DEF Stop, WindowsExclusive, ContextsApart, StockApart, NoneLost, InUse, Live
<1>4. OwnersConnected'
  BY <1>2 DEF Stop, OwnersConnected, Live
<1> QED  BY <1>1, <1>3, <1>4 DEF IInv

\* The windows are apart after a step that leaves the table alone.
LEMMA SameTableKeepsWindows ==
  ASSUME TypeOK, WindowsExclusive, UNCHANGED table
  PROVE  /\ clients' \in SUBSET Fds
         /\ win' \in [Slots -> Handles \cup {NoWin}]
         /\ owner' \in [Slots -> Fds \cup {NoFd}]
         /\ stock' \in Seq(Handles)
         /\ wins' \in SUBSET Handles
         /\ WindowsExclusive'
BY DEF TypeOK, table, WindowsExclusive, ContextsApart, StockApart, NoneLost,
       InUse, Live

\* Opening a context for an initialised connection keeps every context with
\* an initialised owner.
LEMMA OpenKeepsOwners ==
  ASSUME IInv, NEW fd \in Fds, OpenCannaContext(fd), fd \in clients',
         clients \subseteq clients', clients' \subseteq open'
  PROVE  OwnersConnected'
<1>1. PICK n \in Slots, w \in Handles :
         /\ win' = [win EXCEPT ![n] = w]
         /\ owner' = [owner EXCEPT ![n] = fd]
  BY DEF OpenCannaContext
<1>2. \A m \in Slots \ {n} : win'[m] = win[m] /\ owner'[m] = owner[m]
  BY <1>1 DEF IInv, TypeOK
<1>3. owner'[n] = fd
  BY <1>1 DEF IInv, TypeOK
<1> QED  BY <1>2, <1>3 DEF IInv, OwnersConnected, Live

\* The end of a connection leaves a well-formed table in which no context in
\* use belongs to it.
LEMMA CloseConnectionKeeps ==
  ASSUME IInv, NEW fd \in Fds, CloseConnection(fd)
  PROVE  /\ clients' \in SUBSET Fds
         /\ win' \in [Slots -> Handles \cup {NoWin}]
         /\ owner' \in [Slots -> Fds \cup {NoFd}]
         /\ stock' \in Seq(Handles)
         /\ wins' \in SUBSET Handles
         /\ WindowsExclusive'
         /\ clients' = clients \ {fd}
         /\ \A n \in Slots : Live(n)' => owner'[n] \in clients'
<1>1. CASE fd \in clients
  <2>1. /\ clients' = clients \ {fd} /\ CloseCannaContexts(Owned(fd))
        /\ owner' = owner /\ wins' = wins
    BY <1>1 DEF CloseConnection, CloseCannaContexts
  <2>2. Owned(fd) \in SUBSET Slots /\ \A n \in Owned(fd) : Live(n)
    BY DEF Owned
  <2>3. /\ win' \in [Slots -> Handles \cup {NoWin}]
        /\ stock' \in Seq(Handles)
        /\ WindowsExclusive'
    BY <2>1, <2>2, CloseKeepsWindows DEF IInv
  <2>4. \A n \in Slots : Live(n)' => Live(n) /\ owner[n] # fd
    BY <2>1 DEF CloseCannaContexts, Owned, Live
  <2> QED  BY <2>1, <2>3, <2>4 DEF IInv, TypeOK, OwnersConnected
<1>2. CASE fd \notin clients
  <2>1. UNCHANGED table
    BY <1>2 DEF CloseConnection
  <2> QED  BY <1>2, <2>1, SameTableKeepsWindows
           DEF IInv, OwnersConnected, table, Live
<1> QED  BY <1>1, <1>2

LEMMA NextIInv == IInv /\ [Next]_vars => IInv'
<1> SUFFICES ASSUME IInv, [Next]_vars  PROVE IInv'
  OBVIOUS
<1> USE DEF IInv
<1>1. ASSUME NEW fd \in Fds, Accept(fd)  PROVE IInv'
  <2>1. TypeOK' /\ WindowsExclusive'
    BY <1>1, SameTableKeepsWindows DEF Accept, TypeOK
  <2>2. OwnersConnected'
    BY <1>1 DEF Accept, OwnersConnected, table, Live
  <2> QED  BY <2>1, <2>2
<1>2. ASSUME NEW fd \in Fds, Initialize(fd)  PROVE IInv'
  <2>1. TypeOK' /\ WindowsExclusive'
    BY <1>2, OpenKeepsWindows DEF Initialize, TypeOK
  <2>2. OwnersConnected'
    BY <1>2, OpenKeepsOwners DEF Initialize, OwnersConnected
  <2> QED  BY <2>1, <2>2
<1>3. ASSUME NEW fd \in Fds, Finalize(fd)  PROVE IInv'
  <2>1. TypeOK' /\ WindowsExclusive'
    BY <1>3, CloseConnectionKeeps DEF Finalize, TypeOK
  <2>2. OwnersConnected'
    BY <1>3, CloseConnectionKeeps DEF Finalize, OwnersConnected
  <2> QED  BY <2>1, <2>2
<1>4. ASSUME NEW fd \in Fds, Disconnect(fd)  PROVE IInv'
  <2>1. TypeOK' /\ WindowsExclusive'
    BY <1>4, CloseConnectionKeeps DEF Disconnect, TypeOK
  <2>2. OwnersConnected'
    BY <1>4, CloseConnectionKeeps DEF Disconnect, OwnersConnected
  <2> QED  BY <2>1, <2>2
<1>5. ASSUME NEW fd \in Fds, CreateContext(fd)  PROVE IInv'
  <2>1. TypeOK' /\ WindowsExclusive'
    BY <1>5, OpenKeepsWindows DEF CreateContext, TypeOK
  <2>2. OwnersConnected'
    BY <1>5, OpenKeepsOwners DEF CreateContext, OwnersConnected
  <2> QED  BY <2>1, <2>2
<1>6. ASSUME NEW fd \in Fds, NEW n \in Slots, DupContext(fd, n)  PROVE IInv'
  <2>1. CASE fd \in clients
    <3>1. OpenCannaContext(fd) /\ UNCHANGED <<server, open, clients>>
      BY <1>6, <2>1 DEF DupContext
    <3>2. TypeOK' /\ WindowsExclusive'
      BY <3>1, OpenKeepsWindows DEF TypeOK
    <3>3. OwnersConnected'
      BY <2>1, <3>1, OpenKeepsOwners DEF OwnersConnected
    <3> QED  BY <3>2, <3>3
  <2>2. CASE fd \notin clients
    BY <1>6, <2>2, StopIInv DEF DupContext
  <2> QED  BY <2>1, <2>2
<1>7. ASSUME NEW fd \in Fds, NEW n \in Slots, CloseContext(fd, n)  PROVE IInv'
  <2>1. /\ {n} \in SUBSET Slots /\ \A m \in {n} : Live(m)
        /\ CloseCannaContexts({n}) /\ UNCHANGED <<server, open, clients>>
    BY <1>7 DEF CloseContext
  <2>2. owner' = owner /\ wins' = wins
    BY <2>1 DEF CloseCannaContexts
  <2>3. /\ win' \in [Slots -> Handles \cup {NoWin}]
        /\ stock' \in Seq(Handles)
        /\ WindowsExclusive'
    BY <2>1, CloseKeepsWindows
  <2>4. TypeOK'
    BY <2>1, <2>2, <2>3 DEF TypeOK
  <2>5. OwnersConnected'
    BY <2>1, <2>2 DEF OwnersConnected, CloseCannaContexts, Live
  <2> QED  BY <2>3, <2>4, <2>5
<1>8. ASSUME NEW fd \in Fds, NameClient(fd)  PROVE IInv'
  BY <1>8, StopIInv DEF NameClient
<1>9. ASSUME NEW fd \in Fds, ReloadConf(fd)  PROVE IInv'
  <2>1. ReplaceWindow /\ UNCHANGED <<server, open, clients, owner>>
    BY <1>9 DEF ReloadConf, ReplaceWindow
  <2>2. TypeOK' /\ WindowsExclusive'
    BY <2>1, ReplaceKeepsWindows DEF TypeOK
  <2>3. OwnersConnected'
    BY <2>1, ReplaceKeepsWindows DEF OwnersConnected
  <2> QED  BY <2>2, <2>3
<1>10. ASSUME NEW fd \in Fds, KillServer(fd)  PROVE IInv'
  BY <1>10, StopIInv DEF KillServer
<1>11. ASSUME Restart  PROVE IInv'
  <2>1. TypeOK' /\ WindowsExclusive'
    BY <1>11, SameTableKeepsWindows DEF Restart, TypeOK
  <2>2. OwnersConnected'
    BY <1>11 DEF Restart, OwnersConnected, table, Live
  <2> QED  BY <2>1, <2>2
<1>12. ASSUME UNCHANGED vars  PROVE IInv'
  <2>1. TypeOK' /\ WindowsExclusive'
    BY <1>12, SameTableKeepsWindows DEF vars, TypeOK
  <2>2. OwnersConnected'
    BY <1>12 DEF vars, OwnersConnected, table, Live
  <2> QED  BY <2>1, <2>2
<1> QED
  BY <1>1, <1>2, <1>3, <1>4, <1>5, <1>6, <1>7, <1>8, <1>9, <1>10, <1>11, <1>12
     DEF Next, Request

\* The inductive invariant holds in every state.
THEOREM Invariance == Spec => []IInv
BY InitIInv, NextIInv, PTL DEF Spec

\* The variables keep their types.
THEOREM TypesCorrect == Spec => []TypeOK
<1>1. IInv => TypeOK
  BY DEF IInv
<1> QED  BY <1>1, Invariance, PTL

\* pop_win, push_win and ReplaceWindow never share or lose an input window:
\* each belongs to one context or is once in the stock.
THEOREM WindowsNeverShared == Spec => []WindowsExclusive
<1>1. IInv => WindowsExclusive
  BY DEF IInv
<1> QED  BY <1>1, Invariance, PTL

\* CloseConnection leaves nothing behind: a context in use belongs to a
\* connection that is open and initialised.
THEOREM NoOrphanContext == Spec => []OwnersConnected
<1>1. IInv => OwnersConnected
  BY DEF IInv
<1> QED  BY <1>1, Invariance, PTL

---------------------------------------------------------------------------
(* The tables implement Sessions.                                          *)

\* The sessions that the tables stand for, at the owner's descriptor.
LEMMA HeldIsLive ==
  ASSUME TypeOK, OwnersConnected
  PROVE  S!Held = {n \in Slots : Live(n)}
BY DEF S!Held, Owned, OwnersConnected, TypeOK

\* Opening a context gives its owner one number that nobody held.
LEMMA OpenIsGrant ==
  ASSUME IInv, NEW fd \in Fds, OpenCannaContext(fd)
  PROVE  S!Grant(fd)
<1>1. PICK n \in Slots, w \in Handles :
         /\ FirstFree(n)
         /\ win' = [win EXCEPT ![n] = w]
         /\ owner' = [owner EXCEPT ![n] = fd]
  BY DEF OpenCannaContext
<1>2. /\ \A m \in Slots \ {n} : win'[m] = win[m] /\ owner'[m] = owner[m]
      /\ win'[n] = w /\ w # NoWin /\ owner'[n] = fd /\ ~Live(n)
  BY <1>1, NoWinAssumption DEF IInv, TypeOK, FirstFree
<1>3. n \in Slots \ S!Held
  BY <1>2, HeldIsLive DEF IInv
<1>4. ASSUME NEW g \in Fds
      PROVE  Owned(g)' = IF g = fd THEN Owned(g) \cup {n} ELSE Owned(g)
  BY <1>2 DEF Owned, Live
<1>5. [g \in Fds |-> Owned(g)]'
         = [[g \in Fds |-> Owned(g)] EXCEPT ![fd] = @ \cup {n}]
  BY <1>4
<1> QED  BY <1>3, <1>5 DEF S!Grant

LEMMA StopIsStop ==
  ASSUME NEW how \in {"killed", "crashed"}, Stop(how)
  PROVE  S!Stop
BY DEF Stop, S!Stop, S!Nobody, Owned, Live

\* The end of a connection frees all it held and nothing else.
LEMMA CloseIsEnd ==
  ASSUME IInv, NEW fd \in Fds, CloseConnection(fd), server' = server
  PROVE  S!End(fd) \/ UNCHANGED S!vars
<1>1. CASE fd \in clients
  <2>1. /\ clients' = clients \ {fd}
        /\ win' = [n \in Slots |-> IF n \in Owned(fd) THEN NoWin ELSE win[n]]
        /\ owner' = owner
    BY <1>1 DEF CloseConnection, CloseCannaContexts
  <2>2. ASSUME NEW g \in Fds
        PROVE  Owned(g)' = IF g = fd THEN {} ELSE Owned(g)
    BY <2>1 DEF Owned, Live
  <2>3. [g \in Fds |-> Owned(g)]' = [[g \in Fds |-> Owned(g)] EXCEPT ![fd] = {}]
    BY <2>2
  <2> QED  BY <1>1, <2>1, <2>3 DEF S!End
<1>2. CASE fd \notin clients
  BY <1>2 DEF CloseConnection, S!vars, table, Owned, Live
<1> QED  BY <1>1, <1>2

LEMMA InitIsInit == Init => S!Init
BY DEF Init, S!Init, S!Nobody, Owned, Live

LEMMA NextIsNext == IInv /\ [Next]_vars => [S!Next]_(S!vars)
<1> SUFFICES ASSUME IInv, [Next]_vars  PROVE [S!Next]_(S!vars)
  OBVIOUS
<1>1. CASE UNCHANGED vars
  BY <1>1 DEF vars, table, S!vars, Owned, Live
<1>2. CASE Restart
  <2>1. UNCHANGED [fd \in Fds |-> Owned(fd)]
    BY <1>2 DEF Restart, table, Owned, Live
  <2> QED  BY <1>2, <2>1 DEF Restart, table, S!Next, S!Start
<1>3. ASSUME server = "up", NEW fd \in Fds, Request(fd)
      PROVE  [S!Next]_(S!vars)
  <2>1. ASSUME S!Stop \/ S!Begin(fd) \/ S!More(fd) \/ S!End(fd)
                 \/ \E n \in Slots : S!Release(fd, n)
        PROVE  S!Next
    BY <1>3, <2>1 DEF S!Next
  <2>2. CASE Accept(fd)
    BY <2>2 DEF Accept, table, S!vars, Owned, Live
  <2>3. CASE Initialize(fd)
    BY <2>1, <2>3, OpenIsGrant DEF Initialize, S!Begin
  <2>4. CASE Finalize(fd)
    BY <2>1, <2>4, CloseIsEnd DEF Finalize
  <2>5. CASE Disconnect(fd)
    BY <2>1, <2>5, CloseIsEnd DEF Disconnect
  <2>6. CASE CreateContext(fd)
    BY <2>1, <2>6, OpenIsGrant DEF CreateContext, S!More
  <2>7. ASSUME NEW n \in Slots, DupContext(fd, n)  PROVE S!Next
    BY <2>1, <2>7, OpenIsGrant, StopIsStop DEF DupContext, S!More
  <2>8. ASSUME NEW n \in Slots, CloseContext(fd, n)  PROVE S!Next
    <3>1. PICK g \in Fds : g = owner[n]
      BY <2>8 DEF CloseContext, IInv, TypeOK, OwnersConnected
    <3>2. /\ win' = [m \in Slots |-> IF m \in {n} THEN NoWin ELSE win[m]]
          /\ owner' = owner /\ UNCHANGED <<server, clients>> /\ Live(n)
      BY <2>8 DEF CloseContext, CloseCannaContexts
    <3>3. ASSUME NEW h \in Fds
          PROVE  Owned(h)' = IF h = g THEN Owned(h) \ {n} ELSE Owned(h)
      BY <3>1, <3>2 DEF Owned, Live
    <3>4. [h \in Fds |-> Owned(h)]'
             = [[h \in Fds |-> Owned(h)] EXCEPT ![g] = @ \ {n}]
      BY <3>3
    <3>5. n \in Owned(g)
      BY <3>1, <3>2 DEF Owned
    <3> QED  BY <1>3, <3>2, <3>4, <3>5 DEF S!Next, S!Release
  <2>9. CASE NameClient(fd)
    BY <2>1, <2>9, StopIsStop DEF NameClient
  <2>10. CASE ReloadConf(fd)
    <3>1. /\ \A n \in Slots : Live(n)' <=> Live(n)
          /\ owner' = owner /\ UNCHANGED <<server, clients>>
      BY <2>10, ReplaceKeepsWindows DEF ReloadConf, ReplaceWindow, IInv
    <3>2. \A g \in Fds : Owned(g)' = Owned(g)
      BY <3>1 DEF Owned
    <3> QED  BY <3>1, <3>2 DEF S!vars
  <2>11. CASE KillServer(fd)
    BY <2>1, <2>11, StopIsStop DEF KillServer
  <2> QED  BY <1>3, <2>2, <2>3, <2>4, <2>5, <2>6, <2>7, <2>8, <2>9, <2>10, <2>11
           DEF Request
<1> QED  BY <1>1, <1>2, <1>3 DEF Next

\* Every behaviour of the server's tables is one that Sessions allows: a
\* context number is granted only while nobody holds it, and the end of a
\* connection frees exactly its own.
THEOREM Refinement == Spec => ImplementsSessions
BY InitIsInit, NextIsNext, Invariance, PTL DEF Spec, ImplementsSessions, S!Spec

---------------------------------------------------------------------------
(* Isolation of the connections from each other.                           *)

LEMMA OpenIsSeparate ==
  ASSUME IInv, NEW fd \in Fds, OpenCannaContext(fd)
  PROVE  /\ Cardinality(Owned(fd)') = Cardinality(Owned(fd)) + 1
         /\ \A n \in Slots : Live(n) => win'[n] = win[n] /\ owner'[n] = owner[n]
<1>1. PICK n \in Slots, w \in Handles :
         /\ FirstFree(n)
         /\ win' = [win EXCEPT ![n] = w]
         /\ owner' = [owner EXCEPT ![n] = fd]
  BY DEF OpenCannaContext
<1>2. /\ \A m \in Slots \ {n} : win'[m] = win[m] /\ owner'[m] = owner[m]
      /\ win'[n] = w /\ w # NoWin /\ owner'[n] = fd /\ ~Live(n)
  BY <1>1, NoWinAssumption DEF IInv, TypeOK, FirstFree
<1>3. Owned(fd)' = Owned(fd) \cup {n} /\ n \notin Owned(fd)
  BY <1>2 DEF Owned, Live
<1>4. IsFiniteSet(Owned(fd))
  <2>1. IsFiniteSet(Slots) /\ Owned(fd) \in SUBSET Slots
    BY FS_Interval, MaxContextsAssumption DEF Slots, Owned
  <2> QED  BY <2>1, FS_Subset
<1>5. Cardinality(Owned(fd) \cup {n}) = Cardinality(Owned(fd)) + 1
  BY <1>3, <1>4, FS_AddElement
<1> QED  BY <1>2, <1>3, <1>5

\* What one connection does leaves the contexts of the others alone.
THEOREM ConnectionsIsolated == Spec => Isolation
<1>1. ASSUME IInv, NEW fd \in Fds  PROVE Separate(fd)
  <2>1. ASSUME Ends(fd), NEW n \in Slots, Live(n)
        PROVE  IF owner[n] = fd THEN ~Live(n)' ELSE win'[n] = win[n]
    <3>1. CloseConnection(fd)
      BY <2>1 DEF Ends, Finalize, Disconnect
    <3>2. CASE fd \in clients
      BY <2>1, <3>1, <3>2 DEF CloseConnection, CloseCannaContexts, Owned, Live
    <3>3. CASE fd \notin clients
      BY <1>1, <2>1, <3>1, <3>3
         DEF CloseConnection, table, IInv, OwnersConnected
    <3> QED  BY <3>2, <3>3
  <2>2. ASSUME Opens(fd)
        PROVE  /\ Cardinality(Owned(fd)') = Cardinality(Owned(fd)) + 1
               /\ \A n \in Slots : Live(n) =>
                     win'[n] = win[n] /\ owner'[n] = owner[n]
    <3>1. OpenCannaContext(fd)
      BY <2>2 DEF Opens, Initialize, CreateContext, DupContext, Stop
    <3> QED  BY <1>1, <3>1, OpenIsSeparate
  <2>3. ASSUME ReloadConf(fd)  PROVE \A n \in Slots : Live(n)' <=> Live(n)
    BY <1>1, <2>3, ReplaceKeepsWindows DEF ReloadConf, IInv
  <2> QED  BY <2>1, <2>2, <2>3 DEF Separate
<1>2. IInv => \A fd \in Fds : Separate(fd)
  BY <1>1
<1> QED  BY <1>2, Invariance, PTL DEF Isolation

---------------------------------------------------------------------------
(* The dictionaries, over the invariant of the tables they stand on.       *)

\* The two arrays of a context.  A step that goes wild ends what is known.
ListTypes == /\ dics \in [Slots -> Seq(Names)]
             /\ dicMode \in [Slots -> Seq(Modes)]
             /\ status \in {0, -1}
             /\ wild \in BOOLEAN

DInv == IInv /\ ListTypes /\ DicsAligned

---------------------------------------------------------------------------

\* An index that ListFind returns is one of the list's.
LEMMA FoundInList ==
  ASSUME NEW T, NEW list \in Seq(T), NEW name, NEW i \in ListFind(list, name)
  PROVE  i \in 0 .. Len(list) - 1 /\ list[i + 1] = name /\ list # <<>>
BY DEF ListFind

\* Taking an item out leaves a list of the same items, shorter by one.
LEMMA WithoutItem ==
  ASSUME NEW T, NEW list \in Seq(T), NEW i \in 0 .. Len(list) - 1
  PROVE  Without(list, i) \in Seq(T) /\ Len(Without(list, i)) = Len(list) - 1
<1>1. /\ SubSeq(list, 1, i) \in Seq(T)
      /\ Len(SubSeq(list, 1, i)) = i
  <2>1. i \in Int /\ \A j \in 1 .. i : list[j] \in T
    OBVIOUS
  <2> QED  BY <2>1, SubSeqProperties
<1>2. /\ SubSeq(list, i + 2, Len(list)) \in Seq(T)
      /\ Len(SubSeq(list, i + 2, Len(list))) = Len(list) - i - 1
  <2>1. /\ Len(list) \in Nat /\ i \in Int /\ i + 2 \in Int
        /\ \A j \in i + 2 .. Len(list) : list[j] \in T
    OBVIOUS
  <2>2. /\ SubSeq(list, i + 2, Len(list)) \in Seq(T)
        /\ Len(SubSeq(list, i + 2, Len(list))) =
             IF i + 2 <= Len(list) THEN Len(list) - (i + 2) + 1 ELSE 0
    BY <2>1, SubSeqProperties
  <2> QED  BY <2>1, <2>2
<1> QED  BY <1>1, <1>2, ConcatProperties DEF Without

\* A step of the dictionaries is a step of the tables, or leaves them alone.
LEMMA TablesStep == [DNext]_dicVars => [Next]_vars
<1>1. DicsTableStep => Next
  BY DEF DicsTableStep, Next, Request
<1>2. \A fd \in Fds, n \in Slots : Duplicate(fd, n) => Next
  BY DEF Duplicate, Next, Request
<1>3. \A n \in Slots : InvalidContext(n) \/ EndConvDics(n) => UNCHANGED vars
  BY DEF InvalidContext, EndConvDics
<1>4. \A n \in Slots, name \in Names :
        /\ UnmountDic(n, name) \/ RemountDic(n, name) => UNCHANGED vars
        /\ \A mode \in Modes : MountDic(n, name, mode) => UNCHANGED vars
  BY DEF UnmountDic, RemountDic, MountDic
<1> QED  BY <1>1, <1>2, <1>3, <1>4 DEF DNext, dicVars

\* The invariant holds at the start.
LEMMA DInitDInv == DInit => DInv
<1> SUFFICES ASSUME DInit PROVE DInv
  OBVIOUS
<1>1. <<>> \in Seq(Names) /\ <<>> \in Seq(Modes)
  OBVIOUS
<1>2. IInv
  BY InitIInv DEF DInit
<1>3. ListTypes
  BY <1>1 DEF DInit, ListTypes
<1>4. DicsAligned
  BY DEF DInit, DicsAligned
<1> QED  BY <1>2, <1>3, <1>4 DEF DInv

\* Each operation edits the two arrays alike.
LEMMA ListsStep ==
  ASSUME ListTypes, DicsAligned, [DNext]_dicVars
  PROVE  ListTypes' /\ DicsAligned'
<1>1. CASE DicsTableStep
  <2>1. DicsFollow
    BY <1>1 DEF DicsTableStep
  <2> QED  BY <2>1 DEF DicsFollow, ListTypes, DicsAligned
<1>2. ASSUME NEW fd \in Fds, NEW src \in Slots, Duplicate(fd, src)
      PROVE  ListTypes' /\ DicsAligned'
  <2>1. /\ dics' = [n \in Slots |-> IF ~Live(n)' THEN <<>>
                                    ELSE IF Live(n) THEN dics[n] ELSE dics[src]]
        /\ dicMode' = [n \in Slots |-> IF ~Live(n)' THEN <<>>
                                       ELSE IF Live(n) THEN dicMode[n] ELSE dicMode[src]]
        /\ status' = 0 /\ wild' = wild
    BY <1>2 DEF Duplicate
  <2> QED  BY <2>1 DEF ListTypes, DicsAligned
<1>3. ASSUME NEW n \in Slots, InvalidContext(n) PROVE ListTypes' /\ DicsAligned'
  BY <1>3 DEF InvalidContext, ListTypes, DicsAligned, Live, vars, table
<1>4. ASSUME NEW n \in Slots, EndConvDics(n) PROVE ListTypes' /\ DicsAligned'
  BY <1>4 DEF EndConvDics, ListTypes, DicsAligned, Live, vars, table
<1>5. ASSUME NEW n \in Slots, NEW name \in Names, UnmountDic(n, name), ~wild
      PROVE ListTypes' /\ DicsAligned'
  <2>1. CASE UNCHANGED <<dics, dicMode>>
    BY <1>5, <2>1 DEF UnmountDic, ListTypes, DicsAligned, Live, vars, table
  <2>2. ASSUME NEW dn \in ListFind(dics[n], name),
               dics' = [dics EXCEPT ![n] = Without(@, dn)],
               dicMode' = [dicMode EXCEPT ![n] = Without(@, dn)]
        PROVE  ListTypes' /\ DicsAligned'
    <3>1. /\ dics[n] \in Seq(Names) /\ dicMode[n] \in Seq(Modes)
          /\ Len(dics[n]) = Len(dicMode[n])
      BY <1>5 DEF ListTypes, DicsAligned
    <3>2. dn \in 0 .. Len(dics[n]) - 1
      BY <3>1, FoundInList
    <3>3. /\ Without(dics[n], dn) \in Seq(Names)
          /\ Without(dicMode[n], dn) \in Seq(Modes)
          /\ Len(Without(dics[n], dn)) = Len(Without(dicMode[n], dn))
      BY <3>1, <3>2, WithoutItem
    <3>4. Live(n) /\ status' \in {0, -1} /\ UNCHANGED <<win, wild>>
      BY <1>5 DEF UnmountDic, Valid, vars, table
    <3> QED  BY <2>2, <3>3, <3>4 DEF ListTypes, DicsAligned, Live
  <2> QED  BY <1>5, <2>1, <2>2 DEF UnmountDic
<1>6. ASSUME NEW n \in Slots, NEW name \in Names, RemountDic(n, name), ~wild
      PROVE ListTypes' /\ DicsAligned'
  <2>1. CASE UNCHANGED <<dics, dicMode, wild>>
    BY <1>6, <2>1 DEF RemountDic, ListTypes, DicsAligned, Live, vars, table
  <2>2. ASSUME NEW dn \in ListFind(dics[n], name),
               dicMode' = [dicMode EXCEPT ![n] = <<@[dn + 1]>> \o Without(@, dn)],
               \/ dics' = [dics EXCEPT ![n] = <<name>> \o Without(@, dn)] /\ wild' = wild
               \/ dics' = [dics EXCEPT ![n] = <<>>] /\ wild' = TRUE
        PROVE  ListTypes' /\ DicsAligned'
    <3>1. /\ dics[n] \in Seq(Names) /\ dicMode[n] \in Seq(Modes)
          /\ Len(dics[n]) = Len(dicMode[n])
      BY <1>6 DEF ListTypes, DicsAligned
    <3>2. dn \in 0 .. Len(dics[n]) - 1 /\ dn + 1 \in 1 .. Len(dicMode[n])
      BY <3>1, FoundInList
    <3>3. /\ Without(dics[n], dn) \in Seq(Names)
          /\ Without(dicMode[n], dn) \in Seq(Modes)
          /\ Len(Without(dics[n], dn)) = Len(Without(dicMode[n], dn))
      BY <3>1, <3>2, WithoutItem
    <3>4. <<name>> \in Seq(Names) /\ <<dicMode[n][dn + 1]>> \in Seq(Modes)
      BY <3>1, <3>2
    <3>5. /\ <<name>> \o Without(dics[n], dn) \in Seq(Names)
          /\ <<dicMode[n][dn + 1]>> \o Without(dicMode[n], dn) \in Seq(Modes)
          /\ Len(<<name>> \o Without(dics[n], dn))
               = Len(<<dicMode[n][dn + 1]>> \o Without(dicMode[n], dn))
      BY <3>3, <3>4, ConcatProperties
    <3>6. Live(n) /\ status' \in {0, -1} /\ win' = win
      BY <1>6 DEF RemountDic, Valid, vars, table
    <3>7. ListTypes'
      <4>1. <<>> \in Seq(Names)
        OBVIOUS
      <4>2. dicMode' \in [Slots -> Seq(Modes)]
        BY <2>2, <3>5 DEF ListTypes
      <4>3. dics' \in [Slots -> Seq(Names)] /\ wild' \in BOOLEAN
        BY <2>2, <3>5, <4>1 DEF ListTypes
      <4> QED  BY <3>6, <4>2, <4>3 DEF ListTypes
    <3>8. CASE wild'
      BY <3>7, <3>8 DEF DicsAligned
    <3>9. CASE ~wild'
      <4>1. dics' = [dics EXCEPT ![n] = <<name>> \o Without(@, dn)]
        BY <2>2, <3>9
      <4> QED  BY <1>6, <2>2, <3>5, <3>6, <3>7, <4>1 DEF ListTypes, DicsAligned, Live
    <3> QED  BY <3>7, <3>8, <3>9
  <2> QED  BY <1>6, <2>1, <2>2 DEF RemountDic
<1>7. ASSUME NEW n \in Slots, NEW name \in Names, NEW mode \in Modes,
             MountDic(n, name, mode)
      PROVE ListTypes' /\ DicsAligned'
  <2>1. /\ Append(dics[n], name) \in Seq(Names)
        /\ Append(dicMode[n], mode) \in Seq(Modes)
        /\ ~wild => Len(Append(dics[n], name)) = Len(Append(dicMode[n], mode))
    BY DEF ListTypes, DicsAligned
  <2>2. Live(n) /\ status' = 0 /\ UNCHANGED <<win, wild>>
    BY <1>7 DEF MountDic, Valid, vars, table
  <2> QED  BY <1>7, <2>1, <2>2 DEF MountDic, ListTypes, DicsAligned, Live
<1>8. CASE UNCHANGED dicVars
  BY <1>8 DEF dicVars, ListTypes, DicsAligned, Live, vars, table
<1> QED  BY <1>1, <1>2, <1>3, <1>4, <1>5, <1>6, <1>7, <1>8 DEF DNext

\* The parts together are inductive.
LEMMA DInvariant == DSpec => []DInv
<1>1. DInv /\ [DNext]_dicVars => DInv'
  BY NextIInv, TablesStep, ListsStep DEF DInv
<1> QED  BY <1>1, DInitDInv, PTL DEF DSpec

\* Types of the arrays and of the tables under them.
THEOREM DTypesCorrect == DSpec => []DTypeOK
<1>1. DInv => DTypeOK
  BY DEF DInv, IInv, ListTypes, DTypeOK
<1> QED  BY <1>1, DInvariant, PTL

\* Names and modes stay aligned, and a context that is not in use has none:
\* requests 08 to 0a, reset_context and CloseCannaContext edit both arrays.
THEOREM ListsStayAligned == DSpec => []DicsAligned
<1>1. DInv => DicsAligned
  BY DEF DInv
<1> QED  BY <1>1, DInvariant, PTL

---------------------------------------------------------------------------
(* Remounting.  Both arrays move the same item to the head, so that each    *)
(* place of the new list has the name and the mode of one place of the old  *)
(* one, and each old place is used once.                                    *)

\* Where the item at place j comes from, when that with index i (from 0) is
\* moved to the head.
CameFrom(i, j) == IF j = 1 THEN i + 1 ELSE IF j <= i + 1 THEN j - 1 ELSE j

\* Two lists joined, item by item.
LEMMA Joined ==
  ASSUME NEW T, NEW s \in Seq(T), NEW t \in Seq(T), NEW m, NEW k, Len(s) = m, Len(t) = k
  PROVE  /\ s \o t \in Seq(T)
         /\ Len(s \o t) = m + k
         /\ \A j \in 1 .. m + k : (s \o t)[j] = IF j <= m THEN s[j] ELSE t[j - m]
BY ConcatProperties

\* What is moved to the head, item by item.
LEMMA MovedToHead ==
  ASSUME NEW T, NEW list \in Seq(T), NEW i \in 0 .. Len(list) - 1
  PROVE  /\ Len(<<list[i + 1]>> \o Without(list, i)) = Len(list)
         /\ \A j \in 1 .. Len(list) :
               (<<list[i + 1]>> \o Without(list, i))[j] = list[CameFrom(i, j)]
<1> DEFINE n == Len(list)
           before == SubSeq(list, 1, i)
           after == SubSeq(list, i + 2, n)
           head == <<list[i + 1]>>
<1>0. n \in Nat /\ i \in 0 .. n - 1 /\ (\A j \in 1 .. n : list[j] \in T)
  OBVIOUS
<1>1. head \in Seq(T) /\ Len(head) = 1 /\ head[1] = list[i + 1]
  BY <1>0
<1>2. before \in Seq(T) /\ Len(before) = i /\ \A j \in 1 .. i : before[j] = list[j]
  <2>1. 1 \in Int /\ i \in Int /\ \A j \in 1 .. i : list[j] \in T
    BY <1>0
  <2>2. /\ before \in Seq(T)
        /\ Len(before) = IF 1 <= i THEN i - 1 + 1 ELSE 0
        /\ \A j \in 1 .. i - 1 + 1 : before[j] = list[1 + j - 1]
    BY <2>1, SubSeqProperties
  <2> QED  BY <1>0, <2>2
<1>3. /\ after \in Seq(T) /\ Len(after) = n - i - 1
      /\ \A j \in 1 .. n - i - 1 : after[j] = list[j + i + 1]
  <2>1. i + 2 \in Int /\ n \in Int /\ \A j \in i + 2 .. n : list[j] \in T
    BY <1>0
  <2>2. /\ after \in Seq(T)
        /\ Len(after) = IF i + 2 <= n THEN n - (i + 2) + 1 ELSE 0
        /\ \A j \in 1 .. n - (i + 2) + 1 : after[j] = list[i + 2 + j - 1]
    BY <2>1, SubSeqProperties
  <2> QED  BY <1>0, <2>2
<1>4. Without(list, i) = before \o after
  BY DEF Without
<1> HIDE DEF n, before, after, head
<1> DEFINE rest == before \o after
<1>5. /\ rest \in Seq(T) /\ Len(rest) = n - 1
      /\ \A j \in 1 .. n - 1 : rest[j] = IF j <= i THEN list[j] ELSE list[j + 1]
  <2>1. /\ rest \in Seq(T) /\ Len(rest) = i + (n - i - 1)
        /\ \A j \in 1 .. i + (n - i - 1) :
              rest[j] = IF j <= i THEN before[j] ELSE after[j - i]
    BY <1>2, <1>3, Joined
  <2> HIDE DEF rest
  <2>2. i + (n - i - 1) = n - 1
    BY <1>0
  <2>3. ASSUME NEW j \in 1 .. n - 1
        PROVE  rest[j] = IF j <= i THEN list[j] ELSE list[j + 1]
    <3>1. rest[j] = IF j <= i THEN before[j] ELSE after[j - i]
      BY <2>1, <2>2
    <3>2. CASE j <= i
      <4>1. j \in 1 .. i
        BY <3>2
      <4> QED  BY <1>2, <3>1, <3>2, <4>1
    <3>3. CASE j > i
      <4>1. j - i \in 1 .. n - i - 1 /\ (j - i) + i + 1 = j + 1 /\ ~(j <= i)
        BY <1>0, <3>3
      <4>2. after[j - i] = list[(j - i) + i + 1]
        BY <1>3, <4>1
      <4> QED  BY <3>1, <4>1, <4>2
    <3> QED  BY <1>0, <3>2, <3>3
  <2> QED  BY <2>1, <2>2, <2>3
<1> HIDE DEF rest
<1>6. /\ Len(head \o rest) = 1 + (n - 1)
      /\ \A j \in 1 .. 1 + (n - 1) :
            (head \o rest)[j] = IF j <= 1 THEN head[j] ELSE rest[j - 1]
  <2>1. PICK m, k : m = 1 /\ k = n - 1
    OBVIOUS
  <2>2. rest \in Seq(T) /\ Len(rest) = k /\ head \in Seq(T) /\ Len(head) = m
    BY <1>1, <1>5, <2>1
  <2>3. /\ Len(head \o rest) = m + k
        /\ \A j \in 1 .. m + k :
              (head \o rest)[j] = IF j <= m THEN head[j] ELSE rest[j - m]
    BY <2>2, Joined
  <2> QED  BY <2>1, <2>3
<1> DEFINE all == head \o rest
<1>7. Len(all) = n /\ \A j \in 1 .. n : all[j] = list[CameFrom(i, j)]
  <2> HIDE DEF all
  <2> SUFFICES ASSUME NEW j \in 1 .. n
               PROVE  Len(all) = n /\ all[j] = list[CameFrom(i, j)]
    BY <1>0, <1>1, <1>5, <1>6 DEF all
  <2>1. Len(all) = n
    BY <1>0, <1>1, <1>5, <1>6 DEF all
  <2>2. all[j] = IF j <= 1 THEN head[j] ELSE rest[j - 1]
    BY <1>0, <1>1, <1>5, <1>6 DEF all
  <2>3. CASE j = 1
    BY <1>1, <2>1, <2>2, <2>3 DEF CameFrom
  <2>4. CASE j > 1
    <3>1. j - 1 \in 1 .. n - 1
      BY <1>0, <2>4
    <3>2. rest[j - 1] = IF j - 1 <= i THEN list[j - 1] ELSE list[j - 1 + 1]
      BY <1>5, <3>1
    <3> QED  BY <1>0, <2>1, <2>2, <2>4, <3>2 DEF CameFrom
  <2> QED  BY <1>0, <2>3, <2>4
<1> QED  BY <1>4, <1>7 DEF all, head, rest, n

\* The places that hold something in the new order are as many as in the old.
LEMMA SameCount ==
  ASSUME NEW n \in Nat, NEW i \in 0 .. n - 1, NEW Old \in SUBSET (1 .. n),
         NEW New, New = {j \in 1 .. n : CameFrom(i, j) \in Old}
  PROVE  Cardinality(New) = Cardinality(Old)
<1> DEFINE from == [j \in New |-> CameFrom(i, j)]
<1>1. IsFiniteSet(New) /\ IsFiniteSet(Old)
  <2>1. IsFiniteSet(1 .. n)
    BY FS_Interval
  <2> QED  BY <2>1, FS_Subset
<1>2. from \in [New -> Old]
  OBVIOUS
<1>3. \A a, b \in New : from[a] = from[b] => a = b
  BY DEF CameFrom
<1>4. \A o \in Old : \E j \in New : from[j] = o
  <2> SUFFICES ASSUME NEW o \in Old PROVE \E j \in New : CameFrom(i, j) = o
    OBVIOUS
  <2> DEFINE j == IF o = i + 1 THEN 1 ELSE IF o <= i THEN o + 1 ELSE o
  <2>1. j \in 1 .. n /\ CameFrom(i, j) = o
    BY DEF CameFrom
  <2> QED  BY <2>1
<1>5. from \in Bijection(New, Old)
  BY <1>2, <1>3, <1>4, Fun_IsBij
<1>6. ExistsBijection(New, Old)
  BY <1>5 DEF ExistsBijection
<1> QED  BY <1>1, <1>6, FS_Bijection

\* The name and the mode of every place come from one place of the old arrays.
LEMMA RemountMoves ==
  ASSUME DInv, NEW n \in Slots, NEW name \in Names,
         RemountDic(n, name), status' = 0, ~wild'
  PROVE  \E i \in 0 .. Len(dics[n]) - 1 :
            /\ Len(dics'[n]) = Len(dics[n]) /\ Len(dicMode[n]) = Len(dics[n])
            /\ Len(dicMode'[n]) = Len(dics[n])
            /\ dics'[n][1] = name
            /\ \A j \in 1 .. Len(dics[n]) : /\ dics'[n][j] = dics[n][CameFrom(i, j)]
                                            /\ dicMode'[n][j] = dicMode[n][CameFrom(i, j)]
<1>1. PICK i \in ListFind(dics[n], name) :
         /\ dics' = [dics EXCEPT ![n] = <<name>> \o Without(@, i)]
         /\ dicMode' = [dicMode EXCEPT ![n] = <<@[i + 1]>> \o Without(@, i)]
         /\ wild' = wild
  BY DEF RemountDic
<1>2. /\ dics \in [Slots -> Seq(Names)] /\ dicMode \in [Slots -> Seq(Modes)]
      /\ Len(dicMode[n]) = Len(dics[n])
  BY <1>1 DEF DInv, ListTypes, DicsAligned
<1>3. i \in 0 .. Len(dics[n]) - 1 /\ dics[n][i + 1] = name
  BY <1>2, FoundInList
<1>4. /\ dics'[n] = <<dics[n][i + 1]>> \o Without(dics[n], i)
      /\ dicMode'[n] = <<dicMode[n][i + 1]>> \o Without(dicMode[n], i)
  BY <1>1, <1>2, <1>3
<1>5. /\ Len(dics'[n]) = Len(dics[n])
      /\ \A j \in 1 .. Len(dics[n]) : dics'[n][j] = dics[n][CameFrom(i, j)]
  <2>1. dics[n] \in Seq(Names)
    BY <1>2
  <2> QED  BY <1>3, <1>4, <2>1, MovedToHead
<1>6. /\ Len(dicMode'[n]) = Len(dics[n])
      /\ \A j \in 1 .. Len(dics[n]) : dicMode'[n][j] = dicMode[n][CameFrom(i, j)]
  <2>1. dicMode[n] \in Seq(Modes) /\ i \in 0 .. Len(dicMode[n]) - 1
    BY <1>2, <1>3
  <2> QED  BY <1>2, <1>4, <2>1, MovedToHead
<1>7. dics'[n][1] = name
  <2>1. dics[n] \in Seq(Names)
    BY <1>2
  <2>2. 1 \in 1 .. Len(dics[n])
    BY <1>3, <2>1
  <2> QED  BY <1>3, <1>5, <2>2 DEF CameFrom
<1> QED  BY <1>2, <1>3, <1>5, <1>6, <1>7

\* A successful remount puts the name first and changes nothing but the order
\* (request 0a): every dictionary keeps its modes, however often and in which
\* modes it is mounted, though they are moved in two arrays.
THEOREM RemountKeeps == DSpec => RemountKeepsModes
<1>1. ASSUME DInv, NEW n \in Slots, NEW name \in Names,
             RemountDic(n, name), status' = 0, ~wild'
      PROVE  Mounted(n)' = Mounted(n) /\ dics'[n][1] = name
  <2>1. PICK i \in 0 .. Len(dics[n]) - 1 :
            /\ Len(dics'[n]) = Len(dics[n]) /\ Len(dicMode[n]) = Len(dics[n])
            /\ Len(dicMode'[n]) = Len(dics[n])
            /\ dics'[n][1] = name
            /\ \A j \in 1 .. Len(dics[n]) : /\ dics'[n][j] = dics[n][CameFrom(i, j)]
                                            /\ dicMode'[n][j] = dicMode[n][CameFrom(i, j)]
    BY <1>1, RemountMoves
  <2>2. /\ Len(dics[n]) \in Nat /\ DOMAIN dics[n] = 1 .. Len(dics[n])
        /\ DOMAIN dics'[n] = 1 .. Len(dics[n])
    <3>1. dics[n] \in Seq(Names)
      BY <1>1 DEF DInv, ListTypes
    <3>2. dics'[n] \in Seq(Names)
      <4>1. DNext
        <5>1. ~wild
          BY <1>1 DEF RemountDic
        <5> QED  BY <1>1, <5>1 DEF DNext
      <4>2. ListTypes'
        BY <1>1, <4>1, ListsStep DEF DInv
      <4> QED  BY <4>2 DEF ListTypes
    <3> QED  BY <2>1, <3>1, <3>2
  <2>3. ASSUME NEW p \in Names \X Modes
        PROVE  Cardinality({j \in DOMAIN dics'[n] : dics'[n][j] = p[1] /\ dicMode'[n][j] = p[2]})
                 = Cardinality({j \in DOMAIN dics[n] : dics[n][j] = p[1] /\ dicMode[n][j] = p[2]})
    <3> DEFINE Old == {j \in DOMAIN dics[n] : dics[n][j] = p[1] /\ dicMode[n][j] = p[2]}
               New == {j \in DOMAIN dics'[n] : dics'[n][j] = p[1] /\ dicMode'[n][j] = p[2]}
    <3>1. Old \in SUBSET (1 .. Len(dics[n]))
      BY <2>2
    <3>2. \A j \in 1 .. Len(dics[n]) : CameFrom(i, j) \in 1 .. Len(dics[n])
      BY <2>2 DEF CameFrom
    <3>3. New = {j \in 1 .. Len(dics[n]) : CameFrom(i, j) \in Old}
      BY <2>1, <2>2, <3>2
    <3> HIDE DEF Old, New
    <3>4. Cardinality(New) = Cardinality(Old)
      <4>1. PICK m \in Nat : m = Len(dics[n])
        BY <2>2
      <4>2. i \in 0 .. m - 1 /\ Old \in SUBSET (1 .. m)
            /\ New = {j \in 1 .. m : CameFrom(i, j) \in Old}
        BY <3>1, <3>3, <4>1
      <4> QED  BY <4>2, SameCount
    <3> QED  BY <3>4 DEF Old, New
  <2> QED  BY <2>1, <2>3 DEF Mounted
<1>2. DInv /\ [DNext]_dicVars =>
        [\A n \in Slots, name \in Names :
          RemountDic(n, name) /\ status' = 0 /\ ~wild' =>
             Mounted(n)' = Mounted(n) /\ dics'[n][1] = name]_dicVars
  BY <1>1
<1> QED  BY <1>2, DInvariant, PTL DEF DSpec, RemountKeepsModes

---------------------------------------------------------------------------
(* The names in the bytes of their list.                                   *)

Spelled(spell, list) == [i \in DOMAIN list |-> spell[list[i]]]

LEMMA SpellingsAreWords ==
  ASSUME NEW spell \in [Names -> Spellings], NEW name \in Names
  PROVE  spell[name] \in Words
BY SpellingsAssumption DEF Words, Letters

LEMMA SpelledIs ==
  ASSUME NEW spell \in [Names -> Spellings], NEW list \in Seq(Names)
  PROVE  /\ Spelled(spell, list) \in Seq(Words)
         /\ Len(Spelled(spell, list)) = Len(list)
         /\ \A i \in 1 .. Len(list) : Spelled(spell, list)[i] = spell[list[i]]
<1>1. PICK n \in Nat : n = Len(list)
  OBVIOUS
<1>2. \A i \in 1 .. n : list[i] \in Names
  BY <1>1, ElementOfSeq
<1>3. Spelled(spell, list) = [i \in 1 .. n |-> spell[list[i]]]
  BY <1>1 DEF Spelled
<1>4. PICK W : W = Words
  OBVIOUS
<1>5. \A i \in 1 .. n : spell[list[i]] \in W
  BY <1>2, <1>4, SpellingsAreWords
<1>6. Spelled(spell, list) \in [1 .. n -> W]
  BY <1>3, <1>5
<1> QED  BY <1>1, <1>3, <1>4, <1>6

LEMMA SpelledConcat ==
  ASSUME NEW spell \in [Names -> Spellings], NEW a \in Seq(Names), NEW b \in Seq(Names)
  PROVE  Spelled(spell, a \o b) = Spelled(spell, a) \o Spelled(spell, b)
<1>1. PICK m \in Nat : m = Len(a)
  OBVIOUS
<1>2. PICK n \in Nat : n = Len(b)
  OBVIOUS
<1>3. PICK ab : ab = a \o b
  OBVIOUS
<1>4. /\ ab \in Seq(Names) /\ Len(ab) = m + n
      /\ \A i \in 1 .. m + n : ab[i] = IF i <= m THEN a[i] ELSE b[i - m]
  BY <1>1, <1>2, <1>3, ConcatProperties
<1>5. PICK sa, sb, sab, W : /\ sa = Spelled(spell, a) /\ sb = Spelled(spell, b)
                            /\ sab = Spelled(spell, ab) /\ W = Words
  OBVIOUS
<1>6. /\ sa \in Seq(W) /\ Len(sa) = m /\ \A i \in 1 .. m : sa[i] = spell[a[i]]
      /\ sb \in Seq(W) /\ Len(sb) = n /\ \A i \in 1 .. n : sb[i] = spell[b[i]]
      /\ sab \in Seq(W) /\ Len(sab) = m + n /\ \A i \in 1 .. m + n : sab[i] = spell[ab[i]]
  BY <1>1, <1>2, <1>4, <1>5, SpelledIs, ZenonT(60)
<1>7. PICK c : c = sa \o sb
  OBVIOUS
<1>8. /\ c \in Seq(W) /\ Len(c) = m + n
      /\ \A i \in 1 .. m + n : c[i] = IF i <= m THEN sa[i] ELSE sb[i - m]
  BY <1>6, <1>7, ConcatProperties, ZenonT(60)
<1>9. ASSUME NEW i \in 1 .. m + n  PROVE sab[i] = c[i]
  <2>1. CASE i <= m
    <3>1. i \in 1 .. m
      BY <2>1
    <3>2. sab[i] = spell[a[i]]
      BY <1>4, <1>6, <2>1
    <3>3. c[i] = spell[a[i]]
      BY <1>6, <1>8, <2>1, <3>1
    <3> QED  BY <3>2, <3>3
  <2>2. CASE ~(i <= m)
    <3>1. i - m \in 1 .. n
      BY <2>2
    <3>2. sab[i] = spell[b[i - m]]
      BY <1>4, <1>6, <2>2
    <3>3. c[i] = spell[b[i - m]]
      BY <1>6, <1>8, <2>2, <3>1
    <3> QED  BY <3>2, <3>3
  <2> QED  BY <2>1, <2>2
<1>10. sab = c
  BY <1>6, <1>8, <1>9, SeqEqual
<1> QED  BY <1>3, <1>5, <1>7, <1>10

LEMMA SpelledOne ==
  ASSUME NEW spell, NEW name
  PROVE  Spelled(spell, <<name>>) = <<spell[name]>>
BY DEF Spelled

LEMMA SpelledPart ==
  ASSUME NEW spell \in [Names -> Spellings], NEW list \in Seq(Names),
         NEW a \in Nat, NEW b \in Nat, a >= 1, b <= Len(list)
  PROVE  /\ SubSeq(list, a, b) \in Seq(Names)
         /\ Spelled(spell, SubSeq(list, a, b)) = SubSeq(Spelled(spell, list), a, b)
<1>1. PICK n \in Nat : n = Len(list)
  OBVIOUS
<1>2. PICK sl, W : sl = Spelled(spell, list) /\ W = Words
  OBVIOUS
<1>3. sl \in Seq(W) /\ Len(sl) = n /\ \A i \in 1 .. n : sl[i] = spell[list[i]]
  BY <1>1, <1>2, SpelledIs
<1>4. PICK l \in Nat : l = IF a <= b THEN b - a + 1 ELSE 0
  <2>1. CASE a <= b
    <3>1. b - a + 1 \in Nat
      BY <2>1
    <3> QED  BY <2>1, <3>1
  <2>2. CASE ~(a <= b)
    BY <2>2
  <2> QED  BY <2>1, <2>2
<1>5. \A i \in 1 .. l : i \in 1 .. b - a + 1 /\ a + i - 1 \in 1 .. n
  BY <1>1, <1>4
<1>6. PICK p : p = SubSeq(list, a, b)
  OBVIOUS
<1>7. p \in Seq(Names) /\ Len(p) = l /\ \A i \in 1 .. l : p[i] = list[a + i - 1]
  <2>1. \A i \in a .. b : list[i] \in Names
    BY <1>1, ElementOfSeq
  <2>2. /\ p \in Seq(Names) /\ Len(p) = IF a <= b THEN b - a + 1 ELSE 0
        /\ \A i \in 1 .. b - a + 1 : p[i] = list[a + i - 1]
    BY <1>6, <2>1, SubSeqProperties
  <2> QED  BY <1>4, <1>5, <2>2
<1>8. PICK q : q = SubSeq(sl, a, b)
  OBVIOUS
<1>9. q \in Seq(W) /\ Len(q) = l /\ \A i \in 1 .. l : q[i] = sl[a + i - 1]
  <2>1. \A i \in a .. b : sl[i] \in W
    BY <1>1, <1>3, ElementOfSeq
  <2>2. /\ q \in Seq(W) /\ Len(q) = IF a <= b THEN b - a + 1 ELSE 0
        /\ \A i \in 1 .. b - a + 1 : q[i] = sl[a + i - 1]
    BY <1>8, <2>1, SubSeqProperties
  <2> QED  BY <1>4, <1>5, <2>2
<1>10. PICK sp : sp = Spelled(spell, p)
  OBVIOUS
<1>11. sp \in Seq(W) /\ Len(sp) = l /\ \A i \in 1 .. l : sp[i] = spell[p[i]]
  BY <1>2, <1>7, <1>10, SpelledIs
<1>12. ASSUME NEW i \in 1 .. l  PROVE sp[i] = q[i]
  <2>1. sp[i] = spell[list[a + i - 1]]
    BY <1>7, <1>11
  <2>2. q[i] = spell[list[a + i - 1]]
    BY <1>3, <1>5, <1>9
  <2> QED  BY <2>1, <2>2
<1>13. sp = q
  BY <1>9, <1>11, <1>12, SeqEqual
<1> QED  BY <1>2, <1>6, <1>7, <1>8, <1>10, <1>13

\* What ListsFlat says of one list.
LEMMA FlatList ==
  ASSUME NEW spell \in [Names -> Spellings], IsInjective(spell), NEW list \in Seq(Names)
  PROVE  LET bytes == Flat(Spelled(spell, list))
         IN  /\ ListCount(bytes) = Len(list)
             /\ \A name \in Names :
                   /\ ListFindByte(bytes, spell[name])
                         \in IF ListFind(list, name) = {} THEN {-1} ELSE ListFind(list, name)
                   /\ ListInsert(bytes, -1, spell[name]) = Flat(Spelled(spell, Append(list, name)))
                   /\ list # <<>> =>
                         ListInsert(bytes, 0, spell[name]) = Flat(Spelled(spell, <<name>> \o list))
             /\ \A i \in 0 .. Len(list) - 1 :
                   ListRemoveRange(bytes, i, i) = Flat(Spelled(spell, Without(list, i)))
<1>1. PICK sl : sl = Spelled(spell, list)
  OBVIOUS
<1>2. PICK n \in Nat : n = Len(list)
  OBVIOUS
<1>3. sl \in Seq(Words) /\ Len(sl) = n /\ \A i \in 1 .. n : sl[i] = spell[list[i]]
  BY <1>1, <1>2, SpelledIs
<1>4. ListCount(Flat(sl)) = n
  BY <1>3, ListCountIs
<1>5. ASSUME NEW name \in Names
      PROVE  ListFindByte(Flat(sl), spell[name])
                \in IF ListFind(list, name) = {} THEN {-1} ELSE ListFind(list, name)
  <2>1. PICK r : r = ListFindByte(Flat(sl), spell[name])
    OBVIOUS
  <2>2. PICK found : found = {i \in 0 .. Len(sl) - 1 : sl[i + 1] = spell[name]}
    OBVIOUS
  <2>3. IF found = {} THEN r = -1 ELSE r \in found /\ \A j \in found : r <= j
    BY <1>3, <2>1, <2>2, ListFindIs, SpellingsAreWords
  <2>4. \A i \in 1 .. n : sl[i] = spell[name] <=> list[i] = name
    <3>1. \A i \in 1 .. n : list[i] \in Names
      BY <1>2, ElementOfSeq
    <3> QED  BY <1>3, <3>1 DEF IsInjective
  <2>5. \A i \in 0 .. n - 1 : i + 1 \in 1 .. n
    BY <1>2
  <2>6. found = {i \in 0 .. n - 1 : list[i + 1] = name}
    BY <1>3, <2>2, <2>4, <2>5
  <2>7. CASE found = {}
    <3>1. ListFind(list, name) = {}
      BY <1>2, <2>6, <2>7 DEF ListFind
    <3> QED  BY <2>1, <2>3, <2>7, <3>1
  <2>8. CASE found # {}
    <3>1. r \in 0 .. n - 1 /\ list[r + 1] = name
      BY <2>3, <2>6, <2>8
    <3>2. ASSUME NEW j \in 1 .. r  PROVE list[j] # name
      <4>1. j - 1 \in 0 .. n - 1 /\ (j - 1) + 1 = j /\ ~(r <= j - 1)
        BY <3>1
      <4>2. j - 1 \notin found
        BY <2>3, <2>8, <4>1
      <4> QED  BY <2>6, <4>1, <4>2
    <3>3. r \in ListFind(list, name)
      BY <1>2, <3>1, <3>2 DEF ListFind
    <3> QED  BY <2>1, <3>3
  <2> QED  BY <2>7, <2>8
<1>6. ASSUME NEW name \in Names
      PROVE  /\ ListInsert(Flat(sl), -1, spell[name]) = Flat(Spelled(spell, Append(list, name)))
             /\ list # <<>> =>
                   ListInsert(Flat(sl), 0, spell[name]) = Flat(Spelled(spell, <<name>> \o list))
  <2>1. PICK w, one : w = spell[name] /\ one = <<name>>
    OBVIOUS
  <2>2. w \in Words /\ one \in Seq(Names) /\ Spelled(spell, one) = <<w>>
    BY <2>1, SpellingsAreWords, SpelledOne
  <2>3. ListInsert(Flat(sl), -1, w) = Flat(Append(sl, w))
    BY <1>3, <2>2, ListAppendIs
  <2>4. Append(sl, w) = sl \o <<w>>
    BY <1>3, <2>2, AppendIsConcat
  <2>5. Append(list, name) = list \o one
    BY <2>1, AppendIsConcat
  <2>6. Spelled(spell, list \o one) = sl \o <<w>> /\ Spelled(spell, one \o list) = <<w>> \o sl
    BY <1>1, <2>2, SpelledConcat, ZenonT(60)
  <2>7. list # <<>> => sl # <<>>
    BY <1>2, <1>3, EmptySeq
  <2>8. sl # <<>> => ListInsert(Flat(sl), 0, w) = Flat(<<w>> \o sl)
    BY <1>3, <2>2, ListPrependIs
  <2> QED  BY <2>1, <2>3, <2>4, <2>5, <2>6, <2>7, <2>8
<1>7. ASSUME NEW i \in 0 .. n - 1
      PROVE  ListRemoveRange(Flat(sl), i, i) = Flat(Spelled(spell, Without(list, i)))
  <2>1. PICK a, b : a = SubSeq(list, 1, i) /\ b = SubSeq(list, i + 2, n)
    OBVIOUS
  <2>2. a \in Seq(Names) /\ Spelled(spell, a) = SubSeq(sl, 1, i)
    <3>1. i \in Nat /\ 1 \in Nat /\ i <= Len(list) /\ 1 >= 1
      BY <1>2
    <3> QED  BY <1>1, <2>1, <3>1, SpelledPart
  <2>3. b \in Seq(Names) /\ Spelled(spell, b) = SubSeq(sl, i + 2, n)
    <3>1. PICK k \in Nat : k = i + 2
      BY <1>2
    <3>2. k >= 1 /\ n <= Len(list)
      BY <1>2, <3>1
    <3> QED  BY <1>1, <2>1, <3>1, <3>2, SpelledPart
  <2>4. Spelled(spell, a \o b) = Spelled(spell, a) \o Spelled(spell, b)
    BY <2>2, <2>3, SpelledConcat
  <2>5. Without(list, i) = a \o b
    BY <1>2, <2>1 DEF Without
  <2>6. ListRemoveRange(Flat(sl), i, i) = Flat(SubSeq(sl, 1, i) \o SubSeq(sl, i + 2, n))
    BY <1>3, ListRemoveIs
  <2> QED  BY <2>2, <2>3, <2>4, <2>5, <2>6
<1> QED  BY <1>1, <1>2, <1>4, <1>5, <1>6, <1>7

\* The byte arrays of list.c do to the mounted names what the sequences do,
\* whatever the names and however they are spelled.
THEOREM BytesHoldTheNames == DSpec => []ListsFlat
<1>1. ListTypes => ListsFlat
  <2> SUFFICES ASSUME ListTypes,
                      NEW spell \in [Names -> Spellings], IsInjective(spell), NEW n \in Slots,
                      NEW list, list = dics[n]
               PROVE  LET flat(l) == Flat(Spelled(spell, l))
                      IN  /\ ListCount(flat(list)) = Len(list)
                          /\ \A name \in Names :
                                /\ ListFindByte(flat(list), spell[name])
                                      \in IF ListFind(list, name) = {} THEN {-1}
                                          ELSE ListFind(list, name)
                                /\ ListInsert(flat(list), -1, spell[name]) = flat(Append(list, name))
                                /\ list # <<>> =>
                                      ListInsert(flat(list), 0, spell[name]) = flat(<<name>> \o list)
                          /\ \A i \in 0 .. Len(list) - 1 :
                                ListRemoveRange(flat(list), i, i) = flat(Without(list, i))
    BY DEF ListsFlat, Spelled
  <2>1. list \in Seq(Names)
    BY DEF ListTypes
  <2> QED  BY <2>1, FlatList
<1>2. DInv => ListTypes
  BY DEF DInv
<1> QED  BY <1>1, <1>2, DInvariant, PTL

---------------------------------------------------------------------------
(* The flags that say what a key led to, through whatever messages are     *)
(* dispatched with its own.                                                *)

(* Recursion over a sequence: Flushed and Left are the last value of a     *)
(* function that goes through one, and what holds of that value is shown   *)
(* of the least place where it would fail.                                 *)

\* A step repeated n times has a course, whose every value is in D if the
\* step never leaves D.
Course(s, D, b, n, step) == /\ s \in [0 .. n -> D] /\ s[0] = b
                            /\ \A i \in 1 .. n : s[i] = step[<<s[i - 1], i>>]

LEMMA Iterated ==
  ASSUME NEW D, NEW b \in D, NEW n \in Nat, NEW step,
         \A d \in D, i \in 1 .. n : step[<<d, i>>] \in D
  PROVE  \E s : Course(s, D, b, n, step)
<1> USE DEF Course
<1> DEFINE Up(s, k) == Course(s, D, b, k, step)
           T == {k \in 0 .. n : ~ \E s : Up(s, k)}
<1>1. T = {}
  <2> SUFFICES ASSUME T # {}  PROVE FALSE
    OBVIOUS
  <2>1. T \subseteq Nat
    OBVIOUS
  <2>2. PICK k \in T : \A j \in T : k <= j
    <3> HIDE DEF T
    <3> QED  BY <2>1, LeastNat
  <2>3. Up([i \in 0 .. 0 |-> b], 0)
    OBVIOUS
  <2>4. k # 0 /\ k \in 1 .. n
    <3> HIDE DEF Up
    <3> QED  BY <2>2, <2>3
  <2>5. PICK s : Up(s, k - 1)
    <3>1. k - 1 \in 0 .. n /\ ~(k <= k - 1)
      BY <2>4
    <3> HIDE DEF Up
    <3> QED  BY <2>2, <3>1
  <2> DEFINE t == [i \in 0 .. k |-> IF i = k THEN step[<<s[k - 1], k>>] ELSE s[i]]
  <2>6. s[k - 1] \in D /\ step[<<s[k - 1], k>>] \in D
    BY <2>4, <2>5
  <2>7. t \in [0 .. k -> D]
    BY <2>4, <2>5, <2>6
  <2>8. t[0] = b
    BY <2>4, <2>5
  <2>9. ASSUME NEW i \in 1 .. k  PROVE t[i] = step[<<t[i - 1], i>>]
    <3>1. i - 1 \in 0 .. k /\ i - 1 # k /\ i \in 0 .. k
      BY <2>4
    <3>2. t[i - 1] = s[i - 1]
      BY <3>1
    <3>3. CASE i = k
      BY <3>1, <3>2, <3>3
    <3>4. CASE i # k
      BY <2>4, <2>5, <3>1, <3>2, <3>4
    <3> QED  BY <3>3, <3>4
  <2>10. Up(t, k)
    BY <2>7, <2>8, <2>9
  <2> QED  BY <2>10
<1>2. \E s : Up(s, n)
  <2>1. n \in 0 .. n
    OBVIOUS
  <2> HIDE DEF Up
  <2> QED  BY <1>1, <2>1
<1> QED  BY <1>2

---------------------------------------------------------------------------
(* wnd_proc and the loops that call it.                                    *)

\* What wnd_proc works on: flags, of contexts in use only, and the contexts
\* whose client has an event.
Good == {r \in [flags : [Slots -> SUBSET FlagNames],
                announced : SUBSET {n \in Slots : Live(n)}] :
            \A n \in Slots : r.flags[n] # {} => Live(n)}

\* wnd_proc keeps the types; an open candidate window stays in the flags, and
\* comes there by its own message only.
LEMMA WndProcGood ==
  ASSUME NEW r \in Good, NEW m \in Messages
  PROVE  /\ WndProc(r, m) \in Good
         /\ \A n \in Slots : "CATCH_OPEN_CAND" \in r.flags[n]
               => "CATCH_OPEN_CAND" \in WndProc(r, m).flags[n]
         /\ \A n \in Slots : "CATCH_OPEN_CAND" \in WndProc(r, m).flags[n]
               => \/ "CATCH_OPEN_CAND" \in r.flags[n]
                  \/ m = [win |-> win[n], kind |-> "open"]
<1> DEFINE cx == {n \in Slots : win[n] = m.win}
           n == CHOOSE c \in cx : TRUE
           out == WndProc(r, m)
           live == {k \in Slots : Live(k)}
<1>1. CASE cx = {}
  BY <1>1 DEF WndProc
<1>2. CASE cx # {}
  <2>1. n \in Slots /\ win[n] = m.win /\ n \in live
    <3>1. n \in cx
      BY <1>2
    <3> QED  BY <3>1, NoWinAssumption DEF Live, Messages
  <2>2. /\ r.flags \in [Slots -> SUBSET FlagNames] /\ r.announced \subseteq live
        /\ r = [flags |-> r.flags, announced |-> r.announced]
        /\ \A k \in Slots : r.flags[k] # {} => Live(k)
    BY DEF Good
  <2>3. PICK F \in SUBSET FlagNames, A \in SUBSET live :
           /\ out = [flags |-> [r.flags EXCEPT ![n] = F], announced |-> A]
           /\ "CATCH_OPEN_CAND" \in r.flags[n] => "CATCH_OPEN_CAND" \in F
           /\ "CATCH_OPEN_CAND" \in F
                 => "CATCH_OPEN_CAND" \in r.flags[n] \/ m.kind = "open"
    <3> DEFINE k == m.kind
    <3>0. r.flags[n] \in SUBSET FlagNames
      BY <2>1, <2>2
    <3>00. out = CASE m.kind \in {"open", "change"} ->
                        [r EXCEPT !.flags[n] = @ \cup NotifiedFlag(m.kind)]
                   [] IsAux(m, n, r.flags) ->
                        [r EXCEPT !.announced = IF xwin[n] THEN @ \cup {n} ELSE @]
                   [] m.kind = "reading" ->
                        [r EXCEPT !.flags[n] = @ \ {"SEND_KEY"}]
                   [] OTHER ->
                        [r EXCEPT !.flags[n] = (@ \ {"SEND_KEY"}) \cup {"CATCH_FINISH"}]
      BY <1>2 DEF WndProc
    <3> HIDE DEF n, out, live, cx
    <3>1. CASE m.kind \in {"open", "change"}
      <4> DEFINE F == r.flags[n] \cup NotifiedFlag(m.kind)
      <4>1. out = [flags |-> [r.flags EXCEPT ![n] = F], announced |-> r.announced]
        <5>1. out = [r EXCEPT !.flags[n] = @ \cup NotifiedFlag(m.kind)]
          BY <3>00, <3>1 DEF IsAux, ResultAlone
        <5> QED  BY <5>1, <2>2
      <4>2. F \in SUBSET FlagNames
        BY <3>0, <3>1 DEF FlagNames, NotifiedFlag
      <4>3. "CATCH_OPEN_CAND" \in F
                 => "CATCH_OPEN_CAND" \in r.flags[n] \/ m.kind = "open"
        BY <3>1 DEF NotifiedFlag
      <4> HIDE DEF F
      <4>4. "CATCH_OPEN_CAND" \in r.flags[n] => "CATCH_OPEN_CAND" \in F
        BY DEF F
      <4> QED  BY <4>1, <4>2, <4>3, <4>4, <2>2
    <3>2. CASE m.kind \notin {"open", "change"} /\ IsAux(m, n, r.flags)
      <4> DEFINE A == IF xwin[n] THEN r.announced \cup {n} ELSE r.announced
      <4>1. out = [flags |-> r.flags, announced |-> A]
        <5>1. out = [r EXCEPT !.announced = IF xwin[n] THEN @ \cup {n} ELSE @]
          BY <3>00, <3>2 DEF IsAux, ResultAlone
        <5> QED  BY <5>1, <2>2
      <4>2. A \in SUBSET live
        BY <2>1, <2>2
      <4>3. r.flags = [r.flags EXCEPT ![n] = r.flags[n]]
        BY <2>1, <2>2
      <4> HIDE DEF A
      <4> QED  BY <4>1, <4>2, <4>3, <3>0
    <3>3. CASE m.kind = "reading"
      <4> DEFINE F == r.flags[n] \ {"SEND_KEY"}
      <4>1. out = [flags |-> [r.flags EXCEPT ![n] = F], announced |-> r.announced]
        BY <3>00, <3>3, <2>2 DEF IsAux, ResultAlone
      <4> QED  BY <4>1, <3>0, <2>2
    <3>4. CASE m.kind \notin {"open", "change", "reading"} /\ ~IsAux(m, n, r.flags)
      <4> DEFINE F == (r.flags[n] \ {"SEND_KEY"}) \cup {"CATCH_FINISH"}
      <4>1. out = [flags |-> [r.flags EXCEPT ![n] = F], announced |-> r.announced]
        <5>1. out = [r EXCEPT !.flags[n] = (@ \ {"SEND_KEY"}) \cup {"CATCH_FINISH"}]
          BY <3>00, <3>4
        <5> QED  BY <5>1, <2>2
      <4>2. F \in SUBSET FlagNames
        BY <3>0 DEF FlagNames
      <4>3. "CATCH_OPEN_CAND" \in F <=> "CATCH_OPEN_CAND" \in r.flags[n]
        OBVIOUS
      <4> HIDE DEF F
      <4> QED  BY <4>1, <4>2, <4>3, <2>2
    <3> QED  BY <3>1, <3>2, <3>3, <3>4
  <2> HIDE DEF n, out
  <2>4. out.flags \in [Slots -> SUBSET FlagNames] /\ out.flags[n] = F
        /\ \A k \in Slots \ {n} : out.flags[k] = r.flags[k]
    BY <2>1, <2>2, <2>3
  <2>5. out \in Good
    BY <2>1, <2>2, <2>3, <2>4 DEF Good
  <2>6. m.kind = "open" => m = [win |-> win[n], kind |-> "open"]
    BY <2>1 DEF Messages
  <2>7. ASSUME NEW k \in Slots
        PROVE  /\ "CATCH_OPEN_CAND" \in r.flags[k] => "CATCH_OPEN_CAND" \in out.flags[k]
               /\ "CATCH_OPEN_CAND" \in out.flags[k]
                    => \/ "CATCH_OPEN_CAND" \in r.flags[k]
                       \/ m = [win |-> win[k], kind |-> "open"]
    BY <2>3, <2>4, <2>6
  <2> QED  BY <2>5, <2>7 DEF out
<1> QED  BY <1>1, <1>2

\* A flush is a course of wnd_proc through the messages.
LEMMA FlushRun ==
  ASSUME NEW f, [flags |-> f, announced |-> announced] \in Good,
         NEW msgs \in Seq(Messages), NEW n \in Nat, n = Len(msgs)
  PROVE  \E s \in [0 .. n -> Good] :
            /\ s[0] = [flags |-> f, announced |-> announced]
            /\ \A i \in 1 .. n : s[i] = WndProc(s[i - 1], msgs[i])
            /\ Flushed(f, msgs) = s[n]
<1> DEFINE b == [flags |-> f, announced |-> announced]
           step == [p \in Good \X (1 .. n) |-> WndProc(p[1], msgs[p[2]])]
           IsAfter(g) == g = [i \in 0 .. n |-> IF i = 0 THEN b
                                              ELSE WndProc(g[i - 1], msgs[i])]
           after == CHOOSE g : IsAfter(g)
<1>1. Flushed(f, msgs) = after[n]
  BY DEF Flushed
<1>2. step \in [Good \X (1 .. n) -> Good]
  <2> SUFFICES ASSUME NEW r \in Good, NEW i \in 1 .. n
               PROVE  WndProc(r, msgs[i]) \in Good
    OBVIOUS
  <2>1. msgs[i] \in Messages
    OBVIOUS
  <2> QED  BY <2>1, WndProcGood
<1>3. PICK s \in [0 .. n -> Good] :
         s[0] = b /\ \A i \in 1 .. n : s[i] = step[<<s[i - 1], i>>]
  <2> HIDE DEF step, b
  <2>1. b \in Good
    BY DEF b
  <2>2. PICK D : D = Good
    OBVIOUS
  <2>3. PICK c : c = b
    OBVIOUS
  <2>4. PICK st : st = step
    OBVIOUS
  <2>5. c \in D /\ \A d \in D, i \in 1 .. n : st[<<d, i>>] \in D
    BY <1>2, <2>1, <2>2, <2>3, <2>4
  <2>6. \E s : Course(s, D, c, n, st)
    BY <2>5, Iterated
  <2> QED  BY <2>2, <2>3, <2>4, <2>6 DEF Course
<1>4. s[0] = b /\ \A i \in 1 .. n : s[i] = WndProc(s[i - 1], msgs[i])
  <2> HIDE DEF b
  <2>1. s[0] = b
    BY <1>3
  <2>2. ASSUME NEW i \in 1 .. n  PROVE s[i] = WndProc(s[i - 1], msgs[i])
    <3>1. i - 1 \in 0 .. n /\ i \in 0 .. n /\ i # 0
      OBVIOUS
    <3>2. s[i - 1] \in Good
      BY <1>3, <3>1
    <3>3. s[i] = step[<<s[i - 1], i>>]
      BY <1>3, <3>1
    <3>4. <<s[i - 1], i>> \in Good \X (1 .. n)
      BY <3>2
    <3> QED  BY <3>3, <3>4
  <2> QED  BY <2>1, <2>2
<1>5. IsAfter(s)
  <2> HIDE DEF b
  <2>1. s = [i \in 0 .. n |-> s[i]]
    BY <1>3
  <2>2. \A i \in 0 .. n : s[i] = IF i = 0 THEN b ELSE WndProc(s[i - 1], msgs[i])
    BY <1>4
  <2> QED  BY <2>1, <2>2
<1>6. IsAfter(after)
  <2> HIDE DEF IsAfter
  <2> QED  BY <1>5
<1>7. after = s
  <2> DEFINE T == {i \in 0 .. n : after[i] # s[i]}
  <2> HIDE DEF after, b
  <2>1. ASSUME T # {}  PROVE FALSE
    <3>1. PICK k \in T : \A j \in T : k <= j
      <4>1. T \subseteq Nat
        OBVIOUS
      <4> HIDE DEF T
      <4> QED  BY <2>1, <4>1, LeastNat
    <3>2. k # 0
      BY <1>4, <1>6
    <3>3. after[k - 1] = s[k - 1]
      BY <3>1, <3>2
    <3>4. k \in 1 .. n /\ after[k] # s[k]
      BY <3>1, <3>2
    <3>5. s[k] = WndProc(s[k - 1], msgs[k])
      BY <1>4, <3>4
    <3>6. after[k] = WndProc(after[k - 1], msgs[k])
      <4>1. k \in 0 .. n
        BY <3>4
      <4> QED  BY <1>6, <3>2, <4>1
    <3> QED  BY <3>3, <3>4, <3>5, <3>6
  <2>2. after = [i \in 0 .. n |-> after[i]] /\ s = [i \in 0 .. n |-> s[i]]
    BY <1>3, <1>6
  <2> QED  BY <2>1, <2>2
<1> QED  BY <1>1, <1>4, <1>7

\* A flush keeps the types; an open candidate window stays in the flags, and
\* comes there by a message of the flush only; and the last message meets the
\* flags that the others left.
LEMMA FlushGood ==
  ASSUME NEW f, [flags |-> f, announced |-> announced] \in Good,
         NEW msgs \in Seq(Messages)
  PROVE  /\ Flushed(f, msgs) \in Good
         /\ \A n \in Slots : "CATCH_OPEN_CAND" \in f[n]
               => "CATCH_OPEN_CAND" \in Flushed(f, msgs).flags[n]
         /\ \A n \in Slots : "CATCH_OPEN_CAND" \in Flushed(f, msgs).flags[n]
               => \/ "CATCH_OPEN_CAND" \in f[n]
                  \/ [win |-> win[n], kind |-> "open"] \in Range(msgs)
         /\ msgs # <<>>
               => \E r \in Good : Flushed(f, msgs) = WndProc(r, msgs[Len(msgs)])
<1>1. PICK n \in Nat : n = Len(msgs)
  OBVIOUS
<1>2. PICK s \in [0 .. n -> Good] :
         /\ s[0] = [flags |-> f, announced |-> announced]
         /\ \A i \in 1 .. n : s[i] = WndProc(s[i - 1], msgs[i])
         /\ Flushed(f, msgs) = s[n]
  BY <1>1, FlushRun
<1> DEFINE Open(i, k) == "CATCH_OPEN_CAND" \in s[i].flags[k]
<1>3. ASSUME NEW i \in 1 .. n, NEW k \in Slots
      PROVE  /\ i - 1 \in 0 .. n /\ i \in 0 .. n
             /\ Open(i - 1, k) => Open(i, k)
             /\ Open(i, k) => \/ Open(i - 1, k)
                             \/ [win |-> win[k], kind |-> "open"] \in Range(msgs)
  <2>1. i - 1 \in 0 .. n /\ i \in 0 .. n
    OBVIOUS
  <2>2. s[i - 1] \in Good /\ msgs[i] \in Messages /\ msgs[i] \in Range(msgs)
    BY <1>1, <2>1 DEF Range
  <2>3. s[i] = WndProc(s[i - 1], msgs[i])
    BY <1>2
  <2>4. /\ Open(i - 1, k) => "CATCH_OPEN_CAND" \in WndProc(s[i - 1], msgs[i]).flags[k]
        /\ "CATCH_OPEN_CAND" \in WndProc(s[i - 1], msgs[i]).flags[k]
              => Open(i - 1, k) \/ msgs[i] = [win |-> win[k], kind |-> "open"]
    BY <2>2, WndProcGood
  <2> QED  BY <2>1, <2>2, <2>3, <2>4
<1>4. ASSUME NEW k \in Slots, Open(0, k)  PROVE Open(n, k)
  <2> DEFINE T == {i \in 0 .. n : ~Open(i, k)}
  <2> HIDE DEF Open
  <2>1. ASSUME T # {}  PROVE FALSE
    <3>1. PICK i \in T : \A j \in T : i <= j
      <4>1. T \subseteq Nat
        OBVIOUS
      <4> HIDE DEF T
      <4> QED  BY <2>1, <4>1, LeastNat
    <3>2. i \in 1 .. n /\ ~(i <= i - 1)
      BY <1>4, <3>1
    <3> QED  BY <1>3, <3>1, <3>2
  <2> QED  BY <2>1
<1>5. ASSUME NEW k \in Slots, Open(n, k), ~Open(0, k)
      PROVE  [win |-> win[k], kind |-> "open"] \in Range(msgs)
  <2> DEFINE T == {i \in 0 .. n : Open(i, k)}
  <2> HIDE DEF Open
  <2>1. PICK i \in T : \A j \in T : i <= j
    <3>1. T \subseteq Nat /\ T # {}
      BY <1>5
    <3> HIDE DEF T
    <3> QED  BY <3>1, LeastNat
  <2>2. i \in 1 .. n /\ ~(i <= i - 1)
    BY <1>5, <2>1
  <2> QED  BY <1>3, <2>1, <2>2
<1>6. ASSUME msgs # <<>>
      PROVE  \E r \in Good : Flushed(f, msgs) = WndProc(r, msgs[Len(msgs)])
  <2>1. n \in 1 .. n /\ n - 1 \in 0 .. n
    BY <1>1, <1>6
  <2> QED  BY <1>1, <1>2, <2>1
<1>7. s[0].flags = f
  BY <1>2
<1> QED  BY <1>2, <1>4, <1>5, <1>6, <1>7

\* Is the key of context n still the one that its results belong to, or have
\* they been seen?
Keyed(r, n) == "SEND_KEY" \in r.flags[n] \/ "CATCH_FINISH" \in r.flags[n]

\* Only the message of a composition without a result puts an end to that.
LEMMA KeyedStays ==
  ASSUME NEW r \in Good, NEW m \in Messages, NEW n \in Slots, Keyed(r, n),
         m # [win |-> win[n], kind |-> "reading"]
  PROVE  Keyed(WndProc(r, m), n)
<1> DEFINE cx == {c \in Slots : win[c] = m.win}
           out == WndProc(r, m)
<1>1. CASE cx = {}
  BY <1>1 DEF WndProc
<1>2. CASE cx # {}
  <2>1. PICK c : c = CHOOSE x \in cx : TRUE
    OBVIOUS
  <2>2. c \in Slots /\ win[c] = m.win
    BY <1>2, <2>1
  <2>3. /\ r.flags \in [Slots -> SUBSET FlagNames]
        /\ r = [flags |-> r.flags, announced |-> r.announced]
    BY DEF Good
  <2>4. out = CASE m.kind \in {"open", "change"} ->
                     [r EXCEPT !.flags[c] = @ \cup NotifiedFlag(m.kind)]
                [] IsAux(m, c, r.flags) ->
                     [r EXCEPT !.announced = IF xwin[c] THEN @ \cup {c} ELSE @]
                [] m.kind = "reading" ->
                     [r EXCEPT !.flags[c] = @ \ {"SEND_KEY"}]
                [] OTHER ->
                     [r EXCEPT !.flags[c] = (@ \ {"SEND_KEY"}) \cup {"CATCH_FINISH"}]
    BY <1>2, <2>1 DEF WndProc
  <2> HIDE DEF out
  <2>5. CASE m.kind \in {"open", "change"}
    <3>1. out = [r EXCEPT !.flags[c] = @ \cup NotifiedFlag(m.kind)]
      BY <2>4, <2>5 DEF IsAux, ResultAlone
    <3>2. out.flags[n] \in {r.flags[n], r.flags[n] \cup NotifiedFlag(m.kind)}
      BY <2>2, <2>3, <3>1
    <3> QED  BY <3>2 DEF Keyed, out
  <2>6. CASE m.kind \notin {"open", "change"} /\ IsAux(m, c, r.flags)
    <3>1. out = [r EXCEPT !.announced = IF xwin[c] THEN @ \cup {c} ELSE @]
      BY <2>4, <2>6 DEF IsAux, ResultAlone
    <3>2. out.flags = r.flags
      BY <2>3, <3>1
    <3> QED  BY <3>2 DEF Keyed, out
  <2>7. CASE m.kind = "reading"
    <3>1. c # n
      BY <2>2, <2>7 DEF Messages
    <3>2. out = [r EXCEPT !.flags[c] = @ \ {"SEND_KEY"}]
      BY <2>4, <2>7 DEF IsAux, ResultAlone
    <3>3. out.flags[n] = r.flags[n]
      BY <2>2, <2>3, <3>1, <3>2
    <3> QED  BY <3>3 DEF Keyed, out
  <2>8. CASE m.kind \notin {"open", "change", "reading"} /\ ~IsAux(m, c, r.flags)
    <3>1. out = [r EXCEPT !.flags[c] = (@ \ {"SEND_KEY"}) \cup {"CATCH_FINISH"}]
      BY <2>4, <2>8
    <3>2. out.flags[n] = r.flags[n] \/ "CATCH_FINISH" \in out.flags[n]
      BY <2>2, <2>3, <3>1
    <3> QED  BY <3>2 DEF Keyed, out
  <2> QED  BY <2>5, <2>6, <2>7, <2>8
<1> QED  BY <1>1, <1>2

\* So the last message of a flush meets a key that is still open, or whose
\* results have been seen, unless there is such a message before it.
LEMMA FlushKeyed ==
  ASSUME NEW f, [flags |-> f, announced |-> announced] \in Good,
         NEW msgs \in Seq(Messages), msgs # <<>>, NEW k \in Slots, "SEND_KEY" \in f[k]
  PROVE  \E r \in Good :
            /\ Flushed(f, msgs) = WndProc(r, msgs[Len(msgs)])
            /\ \/ Keyed(r, k)
               \/ \E i \in 1 .. Len(msgs) - 1 : msgs[i] = [win |-> win[k], kind |-> "reading"]
<1>1. PICK n \in Nat : n = Len(msgs) /\ n # 0
  OBVIOUS
<1>2. PICK s \in [0 .. n -> Good] :
         /\ s[0] = [flags |-> f, announced |-> announced]
         /\ \A i \in 1 .. n : s[i] = WndProc(s[i - 1], msgs[i])
         /\ Flushed(f, msgs) = s[n]
  BY <1>1, FlushRun
<1> DEFINE Open(i) == Keyed(s[i], k)
<1>3. n \in 1 .. n /\ n - 1 \in 0 .. n /\ s[n - 1] \in Good
  BY <1>1
<1>4. Open(0)
  <2>1. s[0].flags = f
    BY <1>2
  <2> QED  BY <2>1 DEF Keyed
<1>5. ASSUME ~Open(n - 1)
      PROVE  \E i \in 1 .. n - 1 : msgs[i] = [win |-> win[k], kind |-> "reading"]
  <2> DEFINE T == {i \in 0 .. n - 1 : ~Open(i)}
  <2> HIDE DEF Open
  <2>1. PICK i \in T : \A j \in T : i <= j
    <3>1. T \subseteq Nat /\ T # {}
      BY <1>1, <1>5
    <3> HIDE DEF T
    <3> QED  BY <3>1, LeastNat
  <2>2. i \in 1 .. n - 1 /\ i - 1 \in 0 .. n - 1 /\ ~(i <= i - 1)
    BY <1>1, <1>4, <2>1
  <2>3. Open(i - 1) /\ ~Open(i)
    BY <2>1, <2>2
  <2>4. s[i - 1] \in Good /\ msgs[i] \in Messages /\ s[i] = WndProc(s[i - 1], msgs[i])
    BY <1>1, <1>2, <2>2
  <2>5. msgs[i] = [win |-> win[k], kind |-> "reading"]
    BY <2>3, <2>4, KeyedStays DEF Open
  <2> QED  BY <2>2, <2>5
<1>6. Flushed(f, msgs) = WndProc(s[n - 1], msgs[n])
  BY <1>2, <1>3
<1> QED  BY <1>1, <1>3, <1>5, <1>6

\* The messages that are left are some of those that were there, all for
\* windows that are kept.
LEMMA LeftOfQueue ==
  ASSUME queue \in Seq(Messages), NEW kept
  PROVE  /\ Left(kept) \in Seq(Messages) /\ Len(Left(kept)) <= Len(queue)
         /\ \A m \in Range(Left(kept)) : m \in Messages /\ m.win \in kept
<1>1. PICK n \in Nat : n = Len(queue)
  OBVIOUS
<1> DEFINE D == {q \in Seq(Messages) : \A i \in 1 .. Len(q) : q[i].win \in kept}
           step == [p \in D \X (1 .. n) |-> IF queue[p[2]].win \in kept
                                            THEN Append(p[1], queue[p[2]]) ELSE p[1]]
           IsLeft(g) == g = [i \in 0 .. Len(queue) |->
                               IF i = 0 THEN <<>>
                               ELSE IF queue[i].win \in kept
                               THEN Append(g[i - 1], queue[i])
                               ELSE g[i - 1]]
           left == CHOOSE g : IsLeft(g)
<1>2. Left(kept) = left[n]
  BY <1>1 DEF Left
<1>3. ASSUME NEW q \in D, NEW i \in 1 .. n
      PROVE  /\ step[<<q, i>>] \in D
             /\ Len(step[<<q, i>>]) \in {Len(q), Len(q) + 1}
  <2>1. queue[i] \in Messages
    BY <1>1
  <2>2. ASSUME queue[i].win \in kept  PROVE Append(q, queue[i]) \in D
    <3> DEFINE l == Len(q)
               a == Append(q, queue[i])
    <3>1. l \in Nat /\ \A j \in 1 .. l : q[j].win \in kept
      OBVIOUS
    <3>2. /\ a \in Seq(Messages) /\ Len(a) = l + 1 /\ a[l + 1] = queue[i]
          /\ \A j \in 1 .. l : a[j] = q[j]
      BY <2>1, AppendProperties
    <3> HIDE DEF l, a
    <3>3. \A j \in 1 .. l + 1 : a[j].win \in kept
      BY <2>2, <3>1, <3>2
    <3>4. a \in D
      BY <3>2, <3>3
    <3> QED  BY <3>4 DEF a
  <2> QED  BY <2>1, <2>2
<1>4. PICK s : Course(s, D, <<>>, n, step)
  <2>1. <<>> \in D
    OBVIOUS
  <2>2. PICK DD, st, e : DD = D /\ st = step /\ e = <<>>
    OBVIOUS
  <2> HIDE DEF D, step
  <2>3. e \in DD /\ \A d \in DD, i \in 1 .. n : st[<<d, i>>] \in DD
    BY <1>3, <2>1, <2>2
  <2>4. \E s : Course(s, DD, e, n, st)
    BY <2>3, Iterated
  <2> QED  BY <2>2, <2>4
<1>5. /\ s \in [0 .. n -> D] /\ s[0] = <<>>
      /\ \A i \in 1 .. n : s[i] = IF queue[i].win \in kept
                                 THEN Append(s[i - 1], queue[i]) ELSE s[i - 1]
  <2>1. /\ s \in [0 .. n -> D] /\ s[0] = <<>>
        /\ \A i \in 1 .. n : s[i] = step[<<s[i - 1], i>>]
    BY <1>4 DEF Course
  <2> HIDE DEF D
  <2>2. ASSUME NEW i \in 1 .. n  PROVE <<s[i - 1], i>> \in D \X (1 .. n)
    BY <2>1
  <2> QED  BY <2>1, <2>2
<1>6. IsLeft(s)
  <2> HIDE DEF D, step
  <2>1. s = [i \in 0 .. n |-> s[i]]
    BY <1>5
  <2>2. ASSUME NEW i \in 0 .. n
        PROVE  s[i] = IF i = 0 THEN <<>>
                      ELSE IF queue[i].win \in kept
                      THEN Append(s[i - 1], queue[i]) ELSE s[i - 1]
    <3>1. CASE i = 0
      BY <1>5, <3>1
    <3>2. CASE i \in 1 .. n
      BY <1>5, <3>2
    <3> QED  BY <3>1, <3>2
  <2> QED  BY <1>1, <2>1, <2>2
<1>7. IsLeft(left)
  <2> HIDE DEF IsLeft
  <2> QED  BY <1>6
<1>8. \A i \in 0 .. n : left[i] = s[i]
  <2> DEFINE T == {i \in 0 .. n : left[i] # s[i]}
  <2>1. left = [i \in 0 .. n |->
                  IF i = 0 THEN <<>>
                  ELSE IF queue[i].win \in kept
                  THEN Append(left[i - 1], queue[i]) ELSE left[i - 1]]
    BY <1>1, <1>7
  <2> HIDE DEF left, step, D
  <2>2. ASSUME T # {}  PROVE FALSE
    <3>1. PICK k \in T : \A j \in T : k <= j
      <4>1. T \subseteq Nat
        OBVIOUS
      <4> HIDE DEF T
      <4> QED  BY <2>2, <4>1, LeastNat
    <3>2. k # 0
      BY <1>5, <2>1
    <3>3. k - 1 \in 0 .. n /\ ~(k <= k - 1) /\ k \in 1 .. n
      BY <3>1, <3>2
    <3>4. left[k - 1] = s[k - 1]
      BY <3>1, <3>3
    <3>5. left[k] = IF queue[k].win \in kept
                    THEN Append(left[k - 1], queue[k]) ELSE left[k - 1]
      BY <2>1, <3>1, <3>2, <3>3
    <3>6. left[k] = s[k]
      BY <1>5, <3>3, <3>4, <3>5
    <3> QED  BY <3>1, <3>6
  <2> QED  BY <2>2
<1>9. Len(s[n]) <= n
  <2> DEFINE l == [i \in 0 .. n |-> Len(s[i])]
             T == {i \in 0 .. n : ~(l[i] <= i)}
  <2>1. \A i \in 0 .. n : l[i] \in Nat
    BY <1>5
  <2>2. l[0] = 0
    BY <1>5
  <2>3. ASSUME NEW i \in 1 .. n  PROVE l[i] \in {l[i - 1], l[i - 1] + 1}
    <3>1. s[i - 1] \in D /\ i - 1 \in 0 .. n /\ i \in 0 .. n
      BY <1>5
    <3>2. s[i] = step[<<s[i - 1], i>>]
      BY <1>4 DEF Course
    <3> HIDE DEF D, step
    <3> QED  BY <1>3, <3>1, <3>2
  <2> HIDE DEF l
  <2>4. ASSUME T # {}  PROVE FALSE
    <3>1. PICK k \in T : \A j \in T : k <= j
      <4>1. T \subseteq Nat
        OBVIOUS
      <4> HIDE DEF T
      <4> QED  BY <2>4, <4>1, LeastNat
    <3>2. k # 0
      BY <2>2, <3>1
    <3>3. k - 1 \in 0 .. n /\ ~(k <= k - 1) /\ k \in 1 .. n
      BY <3>1, <3>2
    <3>4. l[k - 1] <= k - 1 /\ l[k - 1] \in Nat
      BY <2>1, <3>1, <3>3
    <3>5. l[k] \in {l[k - 1], l[k - 1] + 1} /\ ~(l[k] <= k)
      BY <2>3, <3>1, <3>3
    <3> QED  BY <3>3, <3>4, <3>5
  <2>5. l[n] <= n
    BY <2>4
  <2> QED  BY <2>5 DEF l
<1>10. s[n] \in D
  BY <1>5
<1>11. left[n] = s[n]
  BY <1>8
<1>12. /\ s[n] \in Seq(Messages)
       /\ \A m \in Range(s[n]) : m \in Messages /\ m.win \in kept
  BY <1>10 DEF Range
<1> HIDE DEF left
<1> QED  BY <1>1, <1>2, <1>9, <1>11, <1>12

---------------------------------------------------------------------------
(* Keys and what they post.                                                *)

Kinds == {"reading", "finish", "open", "change"} \cup ResultAlone

\* The messages posted to a window, in the order of their kinds.
LEMMA PostIsMessages ==
  ASSUME NEW w \in Handles, NEW kinds \in Seq(Kinds)
  PROVE  /\ Post(w, kinds) \in Seq(Messages)
         /\ Len(Post(w, kinds)) = Len(kinds)
         /\ \A i \in 1 .. Len(kinds) : Post(w, kinds)[i] = [win |-> w, kind |-> kinds[i]]
         /\ \A m \in Range(Post(w, kinds)) : m.win = w /\ m.kind \in Range(kinds)
<1> DEFINE p == [i \in DOMAIN kinds |-> [win |-> w, kind |-> kinds[i]]]
<1>1. PICK n \in Nat : n = Len(kinds) /\ DOMAIN kinds = 1 .. n
  OBVIOUS
<1>2. p \in [1 .. n -> Messages] /\ \A i \in 1 .. n : p[i] = [win |-> w, kind |-> kinds[i]]
  BY <1>1 DEF Messages, Kinds
<1>3. p \in Seq(Messages) /\ Len(p) = n /\ DOMAIN p = 1 .. n
  BY <1>2
<1> HIDE DEF p
<1>4. \A m \in Range(p) : m.win = w /\ m.kind \in Range(kinds)
  BY <1>1, <1>2, <1>3 DEF Range
<1>5. Post(w, kinds) = p
  BY DEF p, Post
<1> QED  BY <1>1, <1>2, <1>3, <1>4, <1>5

\* What a key may do has its types, and one that commits is taken, leaves a
\* result and posts one message that says so.
LEMMA KeyTypes ==
  ASSUME KTypeOK, NEW w \in Handles, NEW k \in Keys(w) \cup {RomajiKey(w)}
  PROVE  /\ k.done \in BOOLEAN /\ k.comp \in BOOLEAN /\ k.result \in BOOLEAN
         /\ k.reconv \in BOOLEAN /\ k.posts \in Seq(Kinds)
         /\ Commits(k) => /\ k.done /\ ~k.reconv /\ k.result
                          /\ k.posts \in {<<"finish">>, <<"result">>}
<1>1. comp[w] \in BOOLEAN /\ result[w] \in BOOLEAN
  BY DEF KTypeOK
<1> DEFINE Lists == {<<>>, <<"open">>, <<"reading">>, <<"reading", "open">>,
                     <<"reading", "change">>, <<"finish">>, <<"result">>}
<1>2. Lists \subseteq Seq(Kinds)
  BY DEF Kinds, ResultAlone
<1> DEFINE Is(ps) == \E d, c, r, v \in BOOLEAN :
                        /\ k = Key(d, c, r, ps, v)
                        /\ ps \in {<<"finish">>, <<"result">>} => d /\ ~v /\ r
<1>3. \E ps \in Lists : Is(ps)
  <2>1. ASSUME k \in {Key(FALSE, comp[w], result[w], <<>>, FALSE),
                      Key(TRUE, comp[w], result[w], <<>>, FALSE),
                      Key(TRUE, comp[w], result[w], <<>>, TRUE),
                      Key(FALSE, comp[w], result[w], <<>>, TRUE)}
        PROVE  Is(<<>>)
    BY <1>1, <2>1
  <2>2. ASSUME k = Key(TRUE, comp[w], result[w], <<"open">>, FALSE)
        PROVE  Is(<<"open">>)
    BY <1>1, <2>2
  <2>3. ASSUME k \in {Key(TRUE, TRUE, FALSE, <<"reading">>, FALSE),
                      Key(TRUE, FALSE, FALSE, <<"reading">>, FALSE)}
        PROVE  Is(<<"reading">>)
    BY <2>3
  <2>4. ASSUME k = Key(TRUE, TRUE, FALSE, <<"reading", "open">>, FALSE)
        PROVE  Is(<<"reading", "open">>)
    BY <2>4
  <2>5. ASSUME k = Key(TRUE, TRUE, FALSE, <<"reading", "change">>, FALSE)
        PROVE  Is(<<"reading", "change">>)
    BY <2>5
  <2>6. ASSUME k \in {Key(TRUE, FALSE, TRUE, <<"finish">>, FALSE),
                      Key(TRUE, TRUE, TRUE, <<"finish">>, FALSE)}
        PROVE  Is(<<"finish">>)
    BY <2>6
  <2>7. ASSUME k = Key(TRUE, FALSE, TRUE, <<"result">>, FALSE)
        PROVE  Is(<<"result">>)
    BY <2>7
  <2> HIDE DEF Is
  <2>8. k \in Keys(w) \cup {RomajiKey(w)}
           => \/ Is(<<>>) \/ Is(<<"open">>) \/ Is(<<"reading">>) \/ Is(<<"finish">>)
              \/ Is(<<"reading", "open">>) \/ Is(<<"reading", "change">>)
              \/ Is(<<"result">>)
    BY <2>1, <2>2, <2>3, <2>4, <2>5, <2>6, <2>7 DEF Keys, RomajiKey
  <2> QED  BY <2>8
<1>4. /\ k.done \in BOOLEAN /\ k.comp \in BOOLEAN /\ k.result \in BOOLEAN
      /\ k.reconv \in BOOLEAN /\ k.posts \in Lists
      /\ k.posts \in {<<"finish">>, <<"result">>} => k.done /\ ~k.reconv /\ k.result
  BY <1>3 DEF Key
<1>5. Commits(k) => k.posts \in {<<"finish">>, <<"result">>}
  BY <1>4 DEF Commits
<1> QED  BY <1>2, <1>4, <1>5

---------------------------------------------------------------------------
(* The inductive invariant: with the types, the table's own invariant (a   *)
(* window has one context, so a message changes the flags of one) and that *)
(* the queue is a sequence.                                                *)

KInv == IInv /\ KTypeOK /\ queue \in Seq(Messages) /\ OpenIsRemembered

LEMMA InitKInv == KInit => KInv
<1> SUFFICES ASSUME KInit  PROVE KInv
  OBVIOUS
<1>1. IInv
  BY InitIInv DEF KInit
<1>2. /\ queue = <<>> /\ queue \in Seq(Messages) /\ Range(queue) = {} /\ Len(queue) = 0
      /\ reply \in [st : Statuses, text : BOOLEAN]
  BY DEF KInit, Range, NoReply, Statuses
<1>3. KTypeOK
  BY <1>1, <1>2, MaxQueueAssumption DEF KInit, KTypeOK, IInv
<1> QED  BY <1>1, <1>2, <1>3 DEF KInv, KInit, OpenIsRemembered

\* What Follow does beside a step of the table.
LEMMA FollowKInv ==
  ASSUME KInv, IInv', NEW kept, Follow(kept), kept \subseteq wins',
         aux' \in wins' \cup {NoWin}
  PROVE  KInv'
<1>1. /\ queue \in Seq(Messages) /\ Len(queue) <= MaxQueue
      /\ flags \in [Slots -> SUBSET FlagNames]
      /\ xwin \in [Slots -> BOOLEAN]
      /\ announced \subseteq {n \in Slots : Live(n)}
      /\ fetching \subseteq {n \in Slots : Live(n)}
  BY DEF KInv, KTypeOK
<1>2. PICK q : q = Left(kept)
  OBVIOUS
<1>3. /\ q \in Seq(Messages) /\ Len(q) <= Len(queue)
      /\ \A m \in Range(q) : m \in Messages /\ m.win \in wins'
  BY <1>1, <1>2, LeftOfQueue
<1>4. queue' = q
  BY <1>2 DEF Follow
<1>5. Len(q) <= MaxQueue
  <2>1. Len(q) \in Nat /\ Len(queue) \in Nat
    BY <1>1, <1>3
  <2> QED  BY <1>1, <1>3, <2>1, MaxQueueAssumption
<1>6. /\ comp' \in [Handles -> BOOLEAN] /\ result' \in [Handles -> BOOLEAN]
      /\ xwin' \in [Slots -> BOOLEAN]
  BY DEF Follow
<1>7. /\ flags' \in [Slots -> SUBSET FlagNames]
      /\ \A n \in Slots : flags'[n] # {} => Live(n)'
      /\ \A n \in Slots : Live(n) /\ Live(n)' => flags'[n] = flags[n]
  BY <1>1 DEF Follow
<1>8. /\ announced' \subseteq {n \in Slots : Live(n)'}
      /\ fetching' \subseteq {n \in Slots : Live(n)'} /\ fetching' \subseteq fetching
  BY <1>1 DEF Follow
<1>9. reply' \in [st : Statuses, text : BOOLEAN]
  BY DEF Follow, NoReply, Statuses
<1>10. KTypeOK'
  BY <1>3, <1>4, <1>5, <1>6, <1>7, <1>8, <1>9 DEF KTypeOK, IInv, Live
<1>11. OpenIsRemembered'
  BY <1>1, <1>7, <1>8 DEF KInv, OpenIsRemembered
<1> QED  BY <1>3, <1>4, <1>10, <1>11 DEF KInv

LEMMA TableStepKInv == ASSUME KInv, TableStep  PROVE KInv'
<1>1. CASE Restart /\ Follow({})
  <2>1. IInv'
    BY <1>1, NextIInv DEF Next, KInv
  <2>2. aux' \in wins' \cup {NoWin}
    BY <1>1 DEF Follow, Restart, table, KInv, KTypeOK
  <2> QED  BY <1>1, <2>1, <2>2, FollowKInv
<1>2. CASE /\ server = "up"
           /\ \/ \E fd \in Fds : Accept(fd) \/ Disconnect(fd)
              \/ aux = NoWin /\ TableRequest
           /\ Follow(IF Reloads THEN {} ELSE wins')
  <2>1. PICK kept : kept = IF Reloads THEN {} ELSE wins'
    OBVIOUS
  <2>2. Follow(kept) /\ kept \subseteq wins'
    BY <1>2, <2>1
  <2>3. \E fd \in Fds : Request(fd)
    BY <1>2 DEF TableRequest, Request
  <2>4. IInv'
    BY <1>2, <2>3, NextIInv DEF Next, KInv
  <2>5. aux' \in {aux, NoWin} /\ aux \in wins \cup {NoWin}
    BY <2>2 DEF Follow, KInv, KTypeOK
  <2>6. ASSUME NEW fd \in Fds, Accept(fd) \/ Disconnect(fd)  PROVE wins' = wins
    BY <2>6 DEF Accept, Disconnect, CloseConnection, CloseCannaContexts, table
  <2> QED  BY <1>2, <2>2, <2>4, <2>5, <2>6, FollowKInv
<1> QED  BY <1>1, <1>2 DEF TableStep

\* The table in a step that leaves it alone.
LEMMA TableAlone ==
  ASSUME KInv, UNCHANGED vars
  PROVE  /\ IInv' /\ wins' = wins /\ win' = win
         /\ \A n \in Slots : Live(n)' <=> Live(n)
         /\ UNCHANGED xwin => xwin' \in [Slots -> BOOLEAN]
         /\ UNCHANGED aux => aux' \in wins \cup {NoWin}
BY NextIInv DEF KInv, KTypeOK, vars, table, Live

\* The flags after a change of those of one context in use are fit for
\* wnd_proc.
LEMMA GoodFlags ==
  ASSUME KInv, NEW n \in Slots, Live(n), NEW own \in SUBSET FlagNames
  PROVE  /\ [flags |-> flags, announced |-> announced] \in Good
         /\ [flags |-> [flags EXCEPT ![n] = own], announced |-> announced] \in Good
<1>1. /\ flags \in [Slots -> SUBSET FlagNames]
      /\ \A m \in Slots : flags[m] # {} => Live(m)
      /\ announced \in SUBSET {m \in Slots : Live(m)}
  BY DEF KInv, KTypeOK
<1>2. /\ [flags EXCEPT ![n] = own] \in [Slots -> SUBSET FlagNames]
      /\ \A m \in Slots : [flags EXCEPT ![n] = own][m] # {} => Live(m)
  BY <1>1
<1> QED  BY <1>1, <1>2 DEF Good

\* What a step that leaves the table alone must see to: its flags and the
\* clients with an event are what wnd_proc left in end, some flags cleared.
LEMMA KInvAfter ==
  ASSUME KInv, UNCHANGED vars, NEW end \in Good,
         xwin' \in [Slots -> BOOLEAN], aux' \in wins \cup {NoWin},
         NEW q \in Seq(Messages), queue' = q, Len(q) <= MaxQueue,
         \A m \in Range(q) : m.win \in wins,
         flags' \in [Slots -> SUBSET FlagNames],
         \A n \in Slots : flags'[n] \subseteq end.flags[n],
         announced' = end.announced,
         comp' \in [Handles -> BOOLEAN], result' \in [Handles -> BOOLEAN],
         fetching' \subseteq {n \in Slots : Live(n)},
         reply' \in [st : Statuses, text : BOOLEAN],
         \A n \in fetching' : "CATCH_OPEN_CAND" \in flags'[n]
  PROVE  KInv'
<1>1. /\ IInv' /\ wins' = wins /\ win' = win
      /\ \A n \in Slots : Live(n)' <=> Live(n)
  BY TableAlone
<1>2. /\ end.announced \subseteq {n \in Slots : Live(n)}
      /\ \A n \in Slots : end.flags[n] # {} => Live(n)
  BY DEF Good
<1>3. \A m \in Range(q) : m \in Messages
  BY DEF Range
<1>4. KTypeOK'
  BY <1>1, <1>2, <1>3 DEF KTypeOK, KInv, IInv
<1> QED  BY <1>1, <1>4 DEF KInv, OpenIsRemembered

LEMMA SendKeyKInv ==
  ASSUME KInv, NEW n \in Slots, Live(n),
         NEW k \in Keys(win[n]) \cup {RomajiKey(win[n])}, SendKey(n, k)
  PROVE  KInv'
<1> DEFINE w == win[n]
           own == (flags[n] \ Caught) \cup (IF k.done THEN {"SEND_KEY"} ELSE {})
           f == [flags EXCEPT ![n] = own]
           msgs == queue \o Post(w, k.posts)
<1>1. w \in Handles /\ KTypeOK
  BY DEF Live, KInv, IInv, TypeOK
<1>2. /\ k.done \in BOOLEAN /\ k.comp \in BOOLEAN /\ k.result \in BOOLEAN
      /\ k.reconv \in BOOLEAN /\ k.posts \in Seq(Kinds)
  BY <1>1, KeyTypes
<1>3. msgs \in Seq(Messages)
  BY <1>1, <1>2, PostIsMessages DEF KInv
<1>4. own \in SUBSET FlagNames
  BY <1>1 DEF KTypeOK, FlagNames
<1>5. [flags |-> f, announced |-> announced] \in Good
  <2> HIDE DEF own
  <2> QED  BY <1>4, GoodFlags
<1>6. PICK end : end = Flushed(f, msgs)
  OBVIOUS
<1>7. /\ end \in Good
      /\ \A m \in Slots : "CATCH_OPEN_CAND" \in f[m] => "CATCH_OPEN_CAND" \in end.flags[m]
  <2> HIDE DEF f, msgs
  <2> QED  BY <1>3, <1>5, <1>6, FlushGood
<1>8. /\ comp' = [comp EXCEPT ![w] = k.comp]
      /\ result' = [result EXCEPT ![w] = k.result]
      /\ flags' = [end.flags EXCEPT ![n] = Settled(@)]
      /\ announced' = end.announced
      /\ queue' = <<>>
      /\ reply' = [st |-> Status(k, end.flags[n]), text |-> HasText(k, end.flags[n])]
      /\ fetching' = IF reply'.st = "opencand" THEN fetching \cup {n} ELSE fetching \ {n}
      /\ UNCHANGED vars /\ UNCHANGED <<xwin, aux>>
  BY <1>6 DEF SendKey
<1>9. end.flags \in [Slots -> SUBSET FlagNames]
  BY <1>7 DEF Good
<1>10. /\ flags' \in [Slots -> SUBSET FlagNames]
       /\ flags'[n] = end.flags[n] \ {"CATCH_CHG_CAND"}
       /\ \A m \in Slots \ {n} : flags'[m] = end.flags[m]
  BY <1>8, <1>9 DEF Settled
<1>11. /\ Status(k, end.flags[n]) \in Statuses
       /\ Status(k, end.flags[n]) = "opencand" => "CATCH_OPEN_CAND" \in end.flags[n]
  BY <1>2 DEF Status, Statuses
<1>12. HasText(k, end.flags[n]) \in BOOLEAN
  BY DEF HasText
<1>13. reply' \in [st : Statuses, text : BOOLEAN]
       /\ (reply'.st = "opencand" => "CATCH_OPEN_CAND" \in flags'[n])
  BY <1>8, <1>10, <1>11, <1>12
<1>14. fetching \subseteq {m \in Slots : Live(m)} /\ OpenIsRemembered
  BY DEF KInv, KTypeOK
<1>15. ASSUME NEW m \in fetching'  PROVE "CATCH_OPEN_CAND" \in flags'[m]
  <2>1. CASE m = n
    BY <1>8, <1>13, <2>1
  <2>2. CASE m # n
    <3>1. m \in fetching /\ m \in Slots
      BY <1>8, <1>14, <2>2
    <3>2. f[m] = flags[m]
      BY <2>2, <3>1 DEF KInv, KTypeOK
    <3>3. "CATCH_OPEN_CAND" \in f[m]
      BY <1>14, <3>1, <3>2 DEF OpenIsRemembered
    <3> HIDE DEF f
    <3> QED  BY <1>7, <1>10, <2>2, <3>1, <3>3
  <2> QED  BY <2>1, <2>2
<1>16. comp' \in [Handles -> BOOLEAN] /\ result' \in [Handles -> BOOLEAN]
  BY <1>1, <1>2, <1>8 DEF KTypeOK
<1>17. fetching' \subseteq {m \in Slots : Live(m)}
  BY <1>8, <1>14
<1>18. /\ queue' = <<>> /\ <<>> \in Seq(Messages) /\ Len(<<>>) <= MaxQueue
       /\ Range(<<>>) = {}
  BY <1>8, MaxQueueAssumption DEF Range
<1> HIDE DEF f, msgs, own, w
<1> QED  BY <1>7, <1>8, <1>10, <1>13, <1>15, <1>16, <1>17, <1>18, KInvAfter, TableAlone

LEMMA FlushMsgKInv == ASSUME KInv, FlushMsg  PROVE KInv'
<1>1. PICK end : end = Flushed(flags, queue)
  OBVIOUS
<1>2. [flags |-> flags, announced |-> announced] \in Good
  BY DEF KInv, KTypeOK, Good
<1>3. /\ end \in Good
      /\ \A m \in Slots : "CATCH_OPEN_CAND" \in flags[m] => "CATCH_OPEN_CAND" \in end.flags[m]
  BY <1>1, <1>2, FlushGood DEF KInv
<1>4. /\ flags' = end.flags /\ announced' = end.announced
      /\ queue' = <<>> /\ reply' = NoReply
      /\ UNCHANGED vars /\ UNCHANGED <<xwin, aux>>
      /\ comp' = comp /\ result' = result /\ fetching' = fetching
  BY <1>1 DEF FlushMsg, imc
<1>5. flags' \in [Slots -> SUBSET FlagNames]
  BY <1>3, <1>4 DEF Good
<1>6. /\ comp' \in [Handles -> BOOLEAN] /\ result' \in [Handles -> BOOLEAN]
      /\ fetching' \subseteq {m \in Slots : Live(m)}
  BY <1>4 DEF KInv, KTypeOK
<1>7. reply' \in [st : Statuses, text : BOOLEAN]
  BY <1>4 DEF NoReply, Statuses
<1>8. \A m \in fetching' : "CATCH_OPEN_CAND" \in flags'[m]
  BY <1>3, <1>4, <1>6 DEF KInv, OpenIsRemembered
<1>9. /\ queue' = <<>> /\ <<>> \in Seq(Messages) /\ Len(<<>>) <= MaxQueue
      /\ Range(<<>>) = {}
  BY <1>4, MaxQueueAssumption DEF Range
<1> QED  BY <1>3, <1>4, <1>5, <1>6, <1>7, <1>8, <1>9, KInvAfter, TableAlone

LEMMA GetCandiListKInv ==
  ASSUME KInv, NEW n \in Slots, GetCandiList(n)
  PROVE  KInv'
<1>1. PICK opens \in BOOLEAN :
         LET cleared == [flags EXCEPT ![n] = @ \ {"CATCH_OPEN_CAND"}]
             posts == IF opens THEN <<"reading", "open">> ELSE <<"reading">>
             end == Flushed(cleared, queue \o Post(win[n], posts))
         IN  /\ flags' = end.flags
             /\ announced' = end.announced
  BY DEF GetCandiList
<1> DEFINE own == flags[n] \ {"CATCH_OPEN_CAND"}
           f == [flags EXCEPT ![n] = own]
           posts == IF opens THEN <<"reading", "open">> ELSE <<"reading">>
           msgs == queue \o Post(win[n], posts)
<1>2. PICK end : end = Flushed(f, msgs)
  OBVIOUS
<1>3. /\ flags' = end.flags /\ announced' = end.announced
      /\ queue' = <<>> /\ reply' = NoReply /\ Live(n)
      /\ UNCHANGED vars /\ UNCHANGED <<xwin, aux>>
      /\ comp' = comp /\ result' = [result EXCEPT ![win[n]] = FALSE]
      /\ fetching' = fetching \ {n}
  BY <1>1, <1>2 DEF GetCandiList, Requested
<1>4. /\ win[n] \in Handles /\ flags \in [Slots -> SUBSET FlagNames]
      /\ OpenIsRemembered /\ fetching \subseteq {m \in Slots : Live(m)}
  BY <1>3 DEF KInv, KTypeOK, IInv, TypeOK, Live
<1>5. msgs \in Seq(Messages)
  <2>1. <<"reading", "open">> \in Seq(Kinds) /\ <<"reading">> \in Seq(Kinds)
    BY DEF Kinds
  <2>2. posts \in Seq(Kinds)
    BY <2>1
  <2> HIDE DEF posts
  <2>3. Post(win[n], posts) \in Seq(Messages)
    BY <1>4, <2>2, PostIsMessages
  <2> QED  BY <2>3 DEF KInv
<1>6. [flags |-> f, announced |-> announced] \in Good
  <2>1. own \in SUBSET FlagNames
    BY <1>4
  <2> HIDE DEF own
  <2> QED  BY <1>3, <2>1, GoodFlags
<1>7. /\ end \in Good
      /\ \A m \in Slots : "CATCH_OPEN_CAND" \in f[m] => "CATCH_OPEN_CAND" \in end.flags[m]
  <2> HIDE DEF f, msgs
  <2> QED  BY <1>2, <1>5, <1>6, FlushGood
<1>8. flags' \in [Slots -> SUBSET FlagNames]
  BY <1>3, <1>7 DEF Good
<1>9. comp' \in [Handles -> BOOLEAN] /\ result' \in [Handles -> BOOLEAN]
      /\ fetching' \subseteq {m \in Slots : Live(m)}
  BY <1>3, <1>4 DEF KInv, KTypeOK
<1>10. reply' \in [st : Statuses, text : BOOLEAN]
  BY <1>3 DEF NoReply, Statuses
<1>11. ASSUME NEW m \in fetching'  PROVE "CATCH_OPEN_CAND" \in flags'[m]
  <2>1. m \in Slots /\ m # n /\ m \in fetching
    BY <1>3, <1>4
  <2>2. "CATCH_OPEN_CAND" \in f[m]
    BY <1>4, <2>1 DEF OpenIsRemembered
  <2> QED  BY <1>3, <1>7, <2>1, <2>2
<1>12. /\ queue' = <<>> /\ <<>> \in Seq(Messages) /\ Len(<<>>) <= MaxQueue
       /\ Range(<<>>) = {}
  BY <1>3, MaxQueueAssumption DEF Range
<1> HIDE DEF f, msgs, own, posts
<1> QED  BY <1>3, <1>7, <1>8, <1>9, <1>10, <1>11, <1>12, KInvAfter, TableAlone

\* A message that is added stands last and belongs to a window in use.
LEMMA OneMore ==
  ASSUME KInv, NEW w \in Handles, w \in InUse, NEW kind \in Kinds, Len(queue) < MaxQueue
  PROVE  /\ queue \o Post(w, <<kind>>) \in Seq(Messages)
         /\ Len(queue \o Post(w, <<kind>>)) <= MaxQueue
         /\ \A m \in Range(queue \o Post(w, <<kind>>)) : m \in Messages /\ m.win \in wins
<1> DEFINE p == Post(w, <<kind>>)
<1>1. <<kind>> \in Seq(Kinds) /\ Len(<<kind>>) = 1
  OBVIOUS
<1>2. p \in Seq(Messages) /\ Len(p) = 1 /\ \A m \in Range(p) : m.win = w
  <2>1. PICK ks : ks = <<kind>>
    OBVIOUS
  <2> QED  BY <1>1, <2>1, PostIsMessages
<1>3. queue \in Seq(Messages) /\ Len(queue) \in Nat /\ \A m \in Range(queue) : m.win \in wins
  BY DEF KInv, KTypeOK
<1>4. w \in wins
  BY DEF KInv, IInv, WindowsExclusive, NoneLost
<1> HIDE DEF p
<1>5. /\ queue \o p \in Seq(Messages) /\ Len(queue \o p) = Len(queue) + 1
      /\ Range(queue \o p) = Range(queue) \cup Range(p)
  BY <1>2, <1>3, ConcatProperties, RangeConcatenation
<1>6. Len(queue \o p) <= MaxQueue
  <2>1. PICK l \in Nat : l = Len(queue) /\ l < MaxQueue
    BY <1>3
  <2>2. PICK c : c = Len(queue \o p)
    OBVIOUS
  <2>3. c = l + 1
    BY <1>5, <2>1, <2>2
  <2>4. c <= MaxQueue
    BY <2>1, <2>3, MaxQueueAssumption
  <2> QED  BY <2>2, <2>4
<1>7. \A m \in Range(queue \o p) : m \in Messages /\ m.win \in wins
  <2>1. ASSUME NEW m \in Range(queue \o p)  PROVE m \in Messages /\ m.win \in wins
    <3>1. \A x \in Range(p) : x \in Messages
      BY <1>2, RangeOfSeq
    <3>2. \A x \in Range(queue) : x \in Messages
      BY <1>3, RangeOfSeq
    <3> QED  BY <1>2, <1>3, <1>4, <1>5, <2>1, <3>1, <3>2
  <2> QED  BY <2>1
<1> QED  BY <1>5, <1>6, <1>7 DEF p

LEMMA EndConvKInv ==
  ASSUME KInv, NEW n \in Slots, NEW commits \in BOOLEAN, EndConv(n, commits)
  PROVE  KInv'
<1>1. /\ Live(n) /\ UNCHANGED vars /\ UNCHANGED <<xwin, aux, announced>>
      /\ comp' = [comp EXCEPT ![win[n]] = FALSE]
      /\ result' = [result EXCEPT ![win[n]] = commits /\ comp[win[n]]]
      /\ flags' = [flags EXCEPT ![n] = {}]
      /\ fetching' = fetching \ {n} /\ reply' = NoReply
  BY DEF EndConv, Requested
<1>2. /\ win[n] \in Handles /\ flags \in [Slots -> SUBSET FlagNames]
      /\ OpenIsRemembered /\ fetching \subseteq {m \in Slots : Live(m)}
      /\ comp \in [Handles -> BOOLEAN] /\ result \in [Handles -> BOOLEAN]
  BY <1>1 DEF KInv, KTypeOK, IInv, TypeOK, Live
<1>3. comp' \in [Handles -> BOOLEAN] /\ result' \in [Handles -> BOOLEAN]
  BY <1>1, <1>2
<1>4. PICK end \in Good : end = [flags |-> flags, announced |-> announced]
  BY <1>1, GoodFlags
<1>5. /\ flags' \in [Slots -> SUBSET FlagNames]
      /\ \A m \in Slots : flags'[m] \subseteq end.flags[m]
      /\ announced' = end.announced
  BY <1>1, <1>2, <1>4
<1>6. /\ fetching' \subseteq {m \in Slots : Live(m)}
      /\ \A m \in fetching' : "CATCH_OPEN_CAND" \in flags'[m]
  BY <1>1, <1>2 DEF OpenIsRemembered
<1>7. reply' \in [st : Statuses, text : BOOLEAN]
  BY <1>1 DEF NoReply, Statuses
<1>8. PICK q : /\ queue' = q /\ q \in Seq(Messages) /\ Len(q) <= MaxQueue
               /\ \A m \in Range(q) : m.win \in wins
  <2>1. CASE queue' = queue
    BY <2>1 DEF KInv, KTypeOK
  <2>2. CASE Len(queue) < MaxQueue
             /\ queue' = queue \o Post(win[n], <<IF commits THEN "finish" ELSE "reading">>)
    <3>1. PICK kind \in Kinds : kind = IF commits THEN "finish" ELSE "reading"
      BY DEF Kinds
    <3>2. win[n] \in InUse
      BY <1>1 DEF InUse
    <3> QED  BY <1>2, <2>2, <3>1, <3>2, OneMore
  <2> QED  BY <2>1, <2>2 DEF EndConv
<1> QED  BY <1>1, <1>3, <1>4, <1>5, <1>6, <1>7, <1>8, KInvAfter, TableAlone

\* A step that leaves flags, table and candidates alone.
LEMMA FlagsAlone ==
  ASSUME KInv, UNCHANGED vars, UNCHANGED <<flags, fetching>>,
         xwin' \in [Slots -> BOOLEAN], aux' \in wins \cup {NoWin},
         NEW q \in Seq(Messages), queue' = q, Len(q) <= MaxQueue,
         \A m \in Range(q) : m.win \in wins,
         announced' \in SUBSET {n \in Slots : Live(n)},
         comp' \in [Handles -> BOOLEAN], result' \in [Handles -> BOOLEAN],
         reply' = NoReply
  PROVE  KInv'
<1>1. /\ flags \in [Slots -> SUBSET FlagNames]
      /\ \A m \in Slots : flags[m] # {} => Live(m)
      /\ OpenIsRemembered /\ fetching \subseteq {m \in Slots : Live(m)}
  BY DEF KInv, KTypeOK
<1>2. PICK end \in Good : end = [flags |-> flags, announced |-> announced']
  BY <1>1 DEF Good
<1>3. reply' \in [st : Statuses, text : BOOLEAN]
  BY DEF NoReply, Statuses
<1>4. /\ flags' \in [Slots -> SUBSET FlagNames]
      /\ \A m \in Slots : flags'[m] \subseteq end.flags[m]
      /\ announced' = end.announced
      /\ fetching' \subseteq {m \in Slots : Live(m)}
      /\ \A m \in fetching' : "CATCH_OPEN_CAND" \in flags'[m]
  BY <1>1, <1>2 DEF OpenIsRemembered
<1> QED  BY <1>2, <1>3, <1>4, KInvAfter

\* The types of what those steps may leave alone.
LEMMA OldTypes ==
  ASSUME KInv
  PROVE  /\ comp \in [Handles -> BOOLEAN] /\ result \in [Handles -> BOOLEAN]
         /\ xwin \in [Slots -> BOOLEAN] /\ aux \in wins \cup {NoWin}
         /\ announced \in SUBSET {n \in Slots : Live(n)}
         /\ queue \in Seq(Messages) /\ Len(queue) <= MaxQueue
         /\ \A m \in Range(queue) : m.win \in wins
BY DEF KInv, KTypeOK

LEMMA RegXWinKInv == ASSUME KInv, NEW n \in Slots, RegXWin(n)  PROVE KInv'
<1>1. xwin' \in [Slots -> BOOLEAN]
  BY OldTypes DEF RegXWin
<1> QED  BY <1>1, OldTypes, FlagsAlone DEF RegXWin, imc

LEMMA GetResultStrKInv == ASSUME KInv, NEW n \in Slots, GetResultStr(n)  PROVE KInv'
<1>1. announced' \in SUBSET {m \in Slots : Live(m)}
  BY OldTypes DEF GetResultStr
<1> QED  BY <1>1, OldTypes, FlagsAlone DEF GetResultStr, imc

LEMMA PaletteKInv == ASSUME KInv, NEW w \in Handles, Palette(w)  PROVE KInv'
<1>1. result' \in [Handles -> BOOLEAN]
  BY OldTypes DEF Palette
<1>2. PICK q : q = queue \o Post(w, <<"palette">>)
  OBVIOUS
<1>3. "palette" \in Kinds
  BY DEF Kinds, ResultAlone
<1>4. /\ q \in Seq(Messages) /\ Len(q) <= MaxQueue
      /\ \A m \in Range(q) : m.win \in wins
  BY <1>2, <1>3, OneMore DEF Palette
<1>5. queue' = q
  BY <1>2 DEF Palette
<1> QED  BY <1>1, <1>4, <1>5, OldTypes, FlagsAlone DEF Palette

LEMMA LateOpenKInv == ASSUME KInv, NEW w \in Handles, LateOpen(w)  PROVE KInv'
<1>1. PICK q : q = queue \o Post(w, <<"open">>)
  OBVIOUS
<1>2. "open" \in Kinds
  BY DEF Kinds
<1>3. /\ q \in Seq(Messages) /\ Len(q) <= MaxQueue
      /\ \A m \in Range(q) : m.win \in wins
  BY <1>1, <1>2, OneMore DEF LateOpen
<1>4. queue' = q
  BY <1>1 DEF LateOpen
<1> QED  BY <1>3, <1>4, OldTypes, FlagsAlone DEF LateOpen, imc

LEMMA DispatchKInv == ASSUME KInv, Dispatch  PROVE KInv'
<1>1. PICK m, q : m = Head(queue) /\ q = Tail(queue)
  OBVIOUS
<1>2. /\ queue # <<>> /\ queue' = q /\ reply' = NoReply /\ UNCHANGED vars
      /\ xwin' = xwin /\ comp' = comp /\ result' = result /\ fetching' = fetching
  BY <1>1 DEF Dispatch, imc
<1>3. m \in Messages /\ m.win \in wins
  BY <1>1, <1>2, OldTypes DEF Range
<1>4. /\ q \in Seq(Messages) /\ Len(q) <= MaxQueue
      /\ \A x \in Range(q) : x.win \in wins
  <2>1. PICK l \in Nat : l = Len(queue) /\ l <= MaxQueue
    BY OldTypes
  <2>2. q \in Seq(Messages) /\ Len(q) = l - 1 /\ \A i \in 1 .. l - 1 : q[i] = queue[i + 1]
    BY <1>1, <1>2, <2>1, OldTypes
  <2>3. l - 1 <= MaxQueue
    BY <2>1, MaxQueueAssumption
  <2>4. ASSUME NEW x \in Range(q)  PROVE x \in Range(queue)
    <3>1. PICK i \in 1 .. l - 1 : x = q[i]
      BY <2>2 DEF Range
    <3>2. i + 1 \in DOMAIN queue /\ x = queue[i + 1]
      BY <2>1, <2>2, <3>1, OldTypes
    <3> QED  BY <3>2 DEF Range
  <2> QED  BY <2>2, <2>3, <2>4, OldTypes
<1>5. CASE aux' = m.win /\ UNCHANGED <<flags, announced>>
  BY <1>2, <1>3, <1>4, <1>5, OldTypes, FlagsAlone
<1>6. CASE /\ flags' = Flushed(flags, <<m>>).flags
           /\ announced' = Flushed(flags, <<m>>).announced /\ aux' = NoWin
  <2>1. [flags |-> flags, announced |-> announced] \in Good
    BY DEF KInv, KTypeOK, Good
  <2>2. PICK end, ms : ms = <<m>> /\ end = Flushed(flags, ms)
    OBVIOUS
  <2>3. ms \in Seq(Messages)
    BY <1>3, <2>2
  <2>4. /\ end \in Good
        /\ \A n \in Slots : "CATCH_OPEN_CAND" \in flags[n] => "CATCH_OPEN_CAND" \in end.flags[n]
    BY <2>1, <2>2, <2>3, FlushGood
  <2>5. flags' = end.flags /\ announced' = end.announced
    BY <1>6, <2>2
  <2>6. end.flags \in [Slots -> SUBSET FlagNames]
    BY <2>4 DEF Good
  <2>7. /\ fetching' \subseteq {n \in Slots : Live(n)}
        /\ \A n \in fetching' : "CATCH_OPEN_CAND" \in flags'[n]
    BY <1>2, <2>4, <2>5 DEF KInv, KTypeOK, OpenIsRemembered
  <2>8. reply' \in [st : Statuses, text : BOOLEAN]
    BY <1>2 DEF NoReply, Statuses
  <2> QED  BY <1>2, <1>4, <1>6, <2>4, <2>5, <2>6, <2>7, <2>8, OldTypes, KInvAfter
<1> QED  BY <1>1, <1>5, <1>6 DEF Dispatch

LEMMA AuxInputKInv == ASSUME KInv, AuxInput  PROVE KInv'
<1>1. CASE User(aux)
  <2>1. PICK w : w = aux /\ w # NoWin
    BY DEF AuxInput
  <2>2. announced' \in SUBSET {n \in Slots : Live(n)}
    BY <1>1, <2>1, OldTypes DEF AuxInput, Live
  <2> QED  BY <1>1, <2>2, OldTypes, FlagsAlone DEF AuxInput, imc
<1>2. CASE ~User(aux)
  <2>1. Stop("crashed") /\ Follow({})
    BY <1>2 DEF AuxInput
  <2>2. IInv'
    BY <2>1, StopIInv
  <2>3. aux' = NoWin
    BY <2>1 DEF Stop, Follow
  <2> QED  BY <2>1, <2>2, <2>3, FollowKInv
<1> QED  BY <1>1, <1>2

LEMMA NextKInv == KInv /\ [KNext]_allVars => KInv'
<1> SUFFICES ASSUME KInv, [KNext]_allVars  PROVE KInv'
  OBVIOUS
<1>1. CASE TableStep
  BY <1>1, TableStepKInv
<1>2. ASSUME NEW n \in Slots, Live(n), NEW k \in Keys(win[n]), SendKey(n, k)
      PROVE  KInv'
  BY <1>2, SendKeyKInv
<1>3. ASSUME NEW n \in Slots, Live(n), SendKey(n, RomajiKey(win[n]))
      PROVE  KInv'
  BY <1>3, SendKeyKInv
<1>4. CASE FlushMsg
  BY <1>4, FlushMsgKInv
<1>5. ASSUME NEW n \in Slots, GetCandiList(n)  PROVE KInv'
  BY <1>5, GetCandiListKInv
<1>6. ASSUME NEW n \in Slots, NEW c \in BOOLEAN, EndConv(n, c)  PROVE KInv'
  BY <1>6, EndConvKInv
<1>7. ASSUME NEW n \in Slots, RegXWin(n)  PROVE KInv'
  BY <1>7, RegXWinKInv
<1>8. ASSUME NEW n \in Slots, GetResultStr(n)  PROVE KInv'
  BY <1>8, GetResultStrKInv
<1>9. ASSUME NEW w \in Handles, Palette(w) \/ LateOpen(w)  PROVE KInv'
  BY <1>9, PaletteKInv, LateOpenKInv
<1>10. CASE Dispatch
  BY <1>10, DispatchKInv
<1>11. CASE AuxInput
  BY <1>11, AuxInputKInv
<1>12. CASE UNCHANGED allVars
  <2>1. /\ UNCHANGED vars /\ UNCHANGED <<flags, xwin, comp, result, queue, aux>>
        /\ UNCHANGED <<announced, fetching, reply>>
    BY <1>12 DEF allVars, keyVars, imc, outputs
  <2>2. IInv' /\ wins' = wins /\ \A n \in Slots : Live(n)' <=> Live(n)
    BY <2>1, TableAlone
  <2> QED  BY <2>1, <2>2 DEF KInv, KTypeOK, IInv, OpenIsRemembered
<1> QED
  BY <1>1, <1>2, <1>3, <1>4, <1>5, <1>6, <1>7, <1>8, <1>9, <1>10, <1>11, <1>12
     DEF KNext

\* The inductive invariant holds in every state.
THEOREM KInvariance == KSpec => []KInv
BY InitKInv, NextKInv, PTL DEF KSpec

\* The types; and no message of a destroyed window is ever left in the queue,
\* nor a flag in a context that is closed.
THEOREM KeyTypesCorrect == KSpec => []KTypeOK
<1>1. KInv => KTypeOK
  BY DEF KInv
<1> QED  BY <1>1, KInvariance, PTL

\* A client told to fetch candidates has a context that remembers the open
\* candidate window, whatever is dispatched, flushed, reloaded, closed and
\* opened again in between.
THEOREM OpenStaysRemembered == KSpec => []OpenIsRemembered
<1>1. KInv => OpenIsRemembered
  BY DEF KInv
<1> QED  BY <1>1, KInvariance, PTL

---------------------------------------------------------------------------
(* What the reply to a key says.                                           *)

\* What SendKey gets back from the flush that dispatches its own messages
\* after those that were left: f are the flags before, end is the state after.
KeyFlush(n, k, f, end) ==
    LET msgs == queue \o Post(win[n], k.posts)
    IN  /\ Live(n) /\ win[n] \in Handles
        /\ f[n] = (flags[n] \ Caught) \cup (IF k.done THEN {"SEND_KEY"} ELSE {})
        /\ [flags |-> f, announced |-> announced] \in Good
        /\ msgs \in Seq(Messages)
        /\ end = Flushed(f, msgs)
        /\ announced' = end.announced
        /\ reply' = [st |-> Status(k, end.flags[n]), text |-> HasText(k, end.flags[n])]

LEMMA SendKeyFlush ==
  ASSUME KInv, NEW n \in Slots, NEW k \in Keys(win[n]), SendKey(n, k)
  PROVE  \E f, end : KeyFlush(n, k, f, end)
<1> DEFINE own == (flags[n] \ Caught) \cup (IF k.done THEN {"SEND_KEY"} ELSE {})
           f == [flags EXCEPT ![n] = own]
<1>1. /\ win[n] \in Handles /\ Live(n) /\ KTypeOK
      /\ flags \in [Slots -> SUBSET FlagNames]
  BY DEF SendKey, Requested, Live, KInv, KTypeOK, IInv, TypeOK
<1>2. k.posts \in Seq(Kinds)
  BY <1>1, KeyTypes
<1>3. queue \o Post(win[n], k.posts) \in Seq(Messages)
  BY <1>1, <1>2, PostIsMessages DEF KInv
<1>4. own \in SUBSET FlagNames
  BY <1>1 DEF FlagNames
<1>5. [flags |-> f, announced |-> announced] \in Good /\ f[n] = own
  <2> HIDE DEF own
  <2> QED  BY <1>1, <1>4, GoodFlags
<1>6. PICK end : end = Flushed(f, queue \o Post(win[n], k.posts))
  OBVIOUS
<1>7. /\ announced' = end.announced
      /\ reply' = [st |-> Status(k, end.flags[n]), text |-> HasText(k, end.flags[n])]
  BY <1>6 DEF SendKey
<1>8. KeyFlush(n, k, f, end)
  <2> HIDE DEF f
  <2> QED  BY <1>1, <1>3, <1>5, <1>6, <1>7 DEF KeyFlush
<1> QED  BY <1>8

\* A result's message for a context in use: the window has no other context,
\* so it is this one that is announced or has its flag set.
LEMMA ResultSeen ==
  ASSUME KInv, NEW n \in Slots, Live(n), NEW r \in Good,
         NEW kind \in {"finish", "result"},
         xwin[n] \/ kind = "finish" \/ Keyed(r, n)
  PROVE  LET out == WndProc(r, [win |-> win[n], kind |-> kind])
         IN  n \in out.announced \/ "CATCH_FINISH" \in out.flags[n]
<1> DEFINE m == [win |-> win[n], kind |-> kind]
           cx == {c \in Slots : win[c] = m.win}
           out == WndProc(r, m)
<1>1. cx = {n}
  BY DEF KInv, IInv, WindowsExclusive, ContextsApart, Live
<1>2. PICK c : c = CHOOSE x \in cx : TRUE
  OBVIOUS
<1>3. c = n
  BY <1>1, <1>2
<1>4. /\ r.flags \in [Slots -> SUBSET FlagNames]
      /\ r = [flags |-> r.flags, announced |-> r.announced]
  BY DEF Good
<1>5. CASE IsAux(m, n, r.flags)
  <2>1. out = [r EXCEPT !.announced = IF xwin[n] THEN @ \cup {n} ELSE @]
    BY <1>1, <1>2, <1>3, <1>5 DEF WndProc, IsAux, ResultAlone
  <2>2. xwin[n] \/ "CATCH_FINISH" \in r.flags[n]
    BY <1>5 DEF IsAux, ResultAlone, Keyed
  <2> QED  BY <1>4, <2>1, <2>2
<1>6. CASE ~IsAux(m, n, r.flags)
  <2>1. out = [r EXCEPT !.flags[n] = (@ \ {"SEND_KEY"}) \cup {"CATCH_FINISH"}]
    BY <1>1, <1>2, <1>3, <1>6 DEF WndProc, IsAux, ResultAlone
  <2> QED  BY <1>4, <2>1
<1> QED  BY <1>5, <1>6

\* A text that a key commits reaches its client: its message is the last of
\* the flush, so no message before it can take away what it leaves; if an
\* earlier one has ended the key it is announced as aux input, which a client
\* without a window does not see.
LEMMA CommitReaches ==
  ASSUME KInv, NEW n \in Slots, NEW k \in Keys(win[n]), Commits(k), SendKey(n, k)
  PROVE  \/ reply'.text \/ n \in announced'
         \/ ~xwin[n] /\ k.posts = <<"result">> /\ LeftReading(n)
<1> DEFINE p == Post(win[n], k.posts)
           msgs == queue \o p
<1>0. PICK f, end : KeyFlush(n, k, f, end)
  BY SendKeyFlush
<1>1. /\ Live(n) /\ win[n] \in Handles
      /\ f[n] = (flags[n] \ Caught) \cup (IF k.done THEN {"SEND_KEY"} ELSE {})
      /\ [flags |-> f, announced |-> announced] \in Good
      /\ msgs \in Seq(Messages)
      /\ end = Flushed(f, msgs)
      /\ announced' = end.announced
      /\ reply' = [st |-> Status(k, end.flags[n]), text |-> HasText(k, end.flags[n])]
  BY <1>0 DEF KeyFlush
<1>2. /\ k.done /\ ~k.reconv /\ k.result /\ k.posts \in Seq(Kinds)
      /\ k.posts \in {<<"finish">>, <<"result">>}
  BY <1>1, KeyTypes DEF KInv
<1>3. PICK kind \in {"finish", "result"} :
         /\ k.posts = <<kind>>
         /\ p \in Seq(Messages) /\ Len(p) = 1
         /\ p[1] = [win |-> win[n], kind |-> kind]
  <2>1. PICK kind \in {"finish", "result"} : k.posts = <<kind>>
    BY <1>2
  <2>2. Len(k.posts) = 1 /\ k.posts[1] = kind
    BY <2>1
  <2>3. /\ p \in Seq(Messages) /\ Len(p) = Len(k.posts)
        /\ \A i \in 1 .. Len(k.posts) : p[i] = [win |-> win[n], kind |-> k.posts[i]]
    BY <1>1, <1>2, PostIsMessages
  <2>4. 1 \in 1 .. Len(k.posts)
    BY <2>2
  <2> HIDE DEF p
  <2> QED  BY <2>1, <2>2, <2>3, <2>4
<1>4. PICK l \in Nat : l = Len(queue)
  BY OldTypes
<1>5. /\ msgs # <<>> /\ Len(msgs) = l + 1
      /\ msgs[Len(msgs)] = [win |-> win[n], kind |-> kind]
      /\ \A i \in 1 .. l : msgs[i] = queue[i]
  <2>2. /\ Len(msgs) = l + 1
        /\ \A i \in 1 .. l + 1 : msgs[i] = IF i <= l THEN queue[i] ELSE p[i - l]
    <3>1. PICK one, pp : one = 1 /\ pp = p
      OBVIOUS
    <3>2. pp \in Seq(Messages) /\ Len(pp) = one /\ queue \in Seq(Messages)
      BY <1>3, <3>1, OldTypes
    <3>3. /\ Len(queue \o pp) = l + one
          /\ \A i \in 1 .. l + one :
                (queue \o pp)[i] = IF i <= l THEN queue[i] ELSE pp[i - l]
      BY <1>4, <3>2, ConcatProperties
    <3> QED  BY <3>1, <3>3
  <2> HIDE DEF msgs, p
  <2>3. msgs[l + 1] = p[1]
    BY <2>2
  <2>4. msgs # <<>>
    BY <2>2
  <2> QED  BY <1>3, <2>2, <2>3, <2>4
<1>6. PICK r \in Good :
         /\ end = WndProc(r, [win |-> win[n], kind |-> kind])
         /\ \/ Keyed(r, n)
            \/ \E i \in 1 .. Len(msgs) - 1 : msgs[i] = [win |-> win[n], kind |-> "reading"]
  <2>1. "SEND_KEY" \in f[n]
    BY <1>1, <1>2
  <2> HIDE DEF msgs
  <2>2. PICK r \in Good :
           /\ Flushed(f, msgs) = WndProc(r, msgs[Len(msgs)])
           /\ \/ Keyed(r, n)
              \/ \E i \in 1 .. Len(msgs) - 1 : msgs[i] = [win |-> win[n], kind |-> "reading"]
    <3>1. /\ [flags |-> f, announced |-> announced] \in Good
          /\ msgs \in Seq(Messages) /\ msgs # <<>>
      BY <1>1, <1>5
    <3> QED  BY <2>1, <3>1, FlushKeyed
  <2>3. PICK fl : fl = Flushed(f, msgs)
    OBVIOUS
  <2>4. end = fl
    BY <1>1, <2>3
  <2>5. fl = WndProc(r, [win |-> win[n], kind |-> kind])
    BY <1>5, <2>2, <2>3, Zenon
  <2> QED  BY <2>2, <2>4, <2>5
<1>7. CASE xwin[n] \/ kind = "finish" \/ Keyed(r, n)
  <2>1. n \in end.announced \/ "CATCH_FINISH" \in end.flags[n]
    BY <1>1, <1>6, <1>7, ResultSeen
  <2> QED  BY <1>1, <1>2, <2>1 DEF HasText
<1>8. CASE ~(xwin[n] \/ kind = "finish" \/ Keyed(r, n))
  <2> HIDE DEF msgs
  <2>1. PICK i \in 1 .. l : msgs[i] = [win |-> win[n], kind |-> "reading"]
    BY <1>4, <1>5, <1>6, <1>8
  <2>2. LeftReading(n)
    BY <1>4, <1>5, <2>1, OldTypes DEF LeftReading, Range
  <2> QED  BY <1>3, <1>8, <2>2
<1> QED  BY <1>7, <1>8

\* A text that a key commits is in the reply or announced to the registered
\* window, whatever messages of palettes and earlier requests come before; of a
\* client without a window, unless a composition message of before is left.
THEOREM KeyTextNotLost == KSpec => KeyTextReaches
<1>1. KInv => (reply'.st # "none" /\ ~reply'.text =>
                 \A n \in Slots : Live(n) =>
                    \A k \in Keys(win[n]) :
                       Commits(k) /\ SendKey(n, k) =>
                          \/ n \in announced'
                          \/ ~xwin[n] /\ k.posts = <<"result">> /\ LeftReading(n))
  BY CommitReaches
<1> QED  BY <1>1, KInvariance, PTL DEF KeyTextReaches

\* The message of a candidate window that a reply tells of was posted by this
\* key or was waiting for it.
LEMMA OpenIsNew ==
  ASSUME KInv, reply'.st = "opencand", NEW n \in Slots, NEW k \in Keys(win[n]),
         SendKey(n, k)
  PROVE  "open" \in Range(k.posts) \/ [win |-> win[n], kind |-> "open"] \in Range(queue)
<1> DEFINE p == Post(win[n], k.posts)
           msgs == queue \o p
<1>0. PICK f, end : KeyFlush(n, k, f, end)
  BY SendKeyFlush
<1>1. /\ Live(n) /\ win[n] \in Handles
      /\ f[n] = (flags[n] \ Caught) \cup (IF k.done THEN {"SEND_KEY"} ELSE {})
      /\ [flags |-> f, announced |-> announced] \in Good
      /\ msgs \in Seq(Messages)
      /\ end = Flushed(f, msgs)
      /\ reply' = [st |-> Status(k, end.flags[n]), text |-> HasText(k, end.flags[n])]
  BY <1>0 DEF KeyFlush
<1>2. k.posts \in Seq(Kinds) /\ k.done \in BOOLEAN /\ k.reconv \in BOOLEAN
  BY <1>1, KeyTypes DEF KInv
<1>3. "CATCH_OPEN_CAND" \in end.flags[n] /\ "CATCH_OPEN_CAND" \notin f[n]
  BY <1>1, <1>2 DEF Status, Caught
<1>4. [win |-> win[n], kind |-> "open"] \in Range(msgs)
  <2> HIDE DEF msgs
  <2> QED  BY <1>1, <1>3, FlushGood
<1>5. p \in Seq(Messages) /\ \A m \in Range(p) : m.kind \in Range(k.posts)
  BY <1>1, <1>2, PostIsMessages
<1>6. Range(msgs) = Range(queue) \cup Range(p)
  <2> HIDE DEF p
  <2> QED  BY <1>5, OldTypes, RangeConcatenation
<1> HIDE DEF p, msgs
<1> QED  BY <1>4, <1>5, <1>6

\* A client is never told to fetch the candidates of a window that opened
\* before this key and was already reported.
THEOREM CandidatesAreNew == KSpec => CandidatesOfThisKey
<1>1. KInv => (reply'.st = "opencand" =>
                 \A n \in Slots : Live(n) =>
                    \A k \in Keys(win[n]) :
                       SendKey(n, k) => "open" \in Range(k.posts)
                                           \/ [win |-> win[n], kind |-> "open"] \in Range(queue))
  BY OpenIsNew
<1> QED  BY <1>1, KInvariance, PTL DEF CandidatesOfThisKey
=============================================================================
