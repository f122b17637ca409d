----------------------- MODULE ClientContexts_proofs -----------------------
(***************************************************************************)
(* Proofs about ClientContexts, for any widgets, context numbers and       *)
(* number of starts of the server.                                         *)
(***************************************************************************)
EXTENDS ClientContexts, FiniteSetTheorems, SequenceTheorems, TLAPS

\* The server holds contexts only for a connection that stands, and the
\* library then has the global one.
LinkSound == /\ up => server > 0
             /\ \A k \in Numbers : held[k] # None => Connected
             /\ Connected => libcxn # <<>> /\ libcxn[1] # None

LinkInv == TypeOK /\ LinkSound /\ LibraryMatchesServer

---------------------------------------------------------------------------

\* What WimeInitialize leaves.
LEMMA InitializeLeaves ==
  ASSUME TypeOK, WimeInitialize, UNCHANGED <<server, up>>
  PROVE  /\ fd' \in 0 .. server /\ registered' = TRUE
         /\ libcxn' \in Seq(Numbers \cup {None})
         /\ held' \in [Numbers -> Widgets \cup {Global, None}]
         /\ present' \in SUBSET Widgets
<1>1. server \in Nat
  BY StartsAssumption DEF TypeOK
<1>2. \A k \in Numbers : <<k>> \in Seq(Numbers \cup {None})
  OBVIOUS
<1>3. CASE up
  <2>1. PICK k \in Numbers : libcxn' = <<k>> /\ held' = [Nobody EXCEPT ![k] = Global]
    BY <1>3 DEF WimeInitialize
  <2>2. held' \in [Numbers -> Widgets \cup {Global, None}]
    BY <2>1 DEF Nobody
  <2>3. libcxn' \in Seq(Numbers \cup {None})
    BY <1>2, <2>1
  <2>4. present' = {} /\ fd' = server /\ registered' = TRUE
    BY <1>3 DEF WimeInitialize
  <2> QED  BY <1>1, <2>2, <2>3, <2>4
<1>4. CASE ~up
  BY <1>1, <1>4 DEF WimeInitialize, TypeOK
<1> QED  BY <1>3, <1>4

\* What CannaCreateContext leaves.
LEMMA CreateLeaves ==
  ASSUME TypeOK, NEW w \in Widgets, CannaCreateContext(w)
  PROVE  /\ libcxn' \in Seq(Numbers \cup {None})
         /\ held' \in [Numbers -> Widgets \cup {Global, None}]
         /\ cxn' \in [Widgets -> {-1} \cup (Nat \ {0})]
<1>1. CASE ~Connected
  BY <1>1 DEF CannaCreateContext, TypeOK
<1>2. ASSUME NEW k \in Free, NEW p \in 2 .. Len(libcxn) + 1,
             libcxn' = IF p \in DOMAIN libcxn THEN [libcxn EXCEPT ![p] = k]
                       ELSE Append(libcxn, k),
             held' = [held EXCEPT ![k] = w], cxn' = [cxn EXCEPT ![w] = p - 1]
      PROVE  /\ libcxn' \in Seq(Numbers \cup {None})
             /\ held' \in [Numbers -> Widgets \cup {Global, None}]
             /\ cxn' \in [Widgets -> {-1} \cup (Nat \ {0})]
  <2>1. libcxn \in Seq(Numbers \cup {None}) /\ k \in Numbers
    BY DEF TypeOK, Free
  <2>2. libcxn' \in Seq(Numbers \cup {None})
    BY <1>2, <2>1
  <2>3. p - 1 \in Nat \ {0}
    BY <2>1
  <2> QED  BY <1>2, <2>1, <2>2, <2>3 DEF TypeOK
<1> QED  BY <1>1, <1>2 DEF CannaCreateContext

\* What CannaCloseContext leaves.
LEMMA CloseLeaves ==
  ASSUME TypeOK, NEW i \in {-1} \cup (Nat \ {0}), CannaCloseContext(i)
  PROVE  /\ libcxn' \in Seq(Numbers \cup {None})
         /\ held' \in [Numbers -> Widgets \cup {Global, None}]
<1>1. libcxn \in Seq(Numbers \cup {None})
  BY DEF TypeOK
<1>2. i + 1 \in DOMAIN libcxn => [libcxn EXCEPT ![i + 1] = None] \in Seq(Numbers \cup {None})
  BY <1>1
<1> QED  BY <1>1, <1>2 DEF CannaCloseContext, Number, TypeOK

\* Types are kept.
LEMMA TypeStep ==
  ASSUME TypeOK, [Next]_vars
  PROVE  TypeOK'
<1> USE DEF link, widgets
<1>1. CASE Start
  BY <1>1, StartsAssumption DEF Start, TypeOK
<1>2. CASE Die
  BY <1>2 DEF Die, TypeOK, Nobody
<1>3. CASE CatchSignal
  <2>1. WimeInitialize /\ UNCHANGED <<server, up>>
    BY <1>3 DEF CatchSignal
  <2>2. count' \in Nat /\ level' \in [Widgets -> 0 .. count']
    BY <1>3 DEF CatchSignal, TypeOK
  <2>3. UNCHANGED <<toolkit, server, up, alive, cxn, op, at, reached>> /\ signalled' = FALSE
    BY <1>3 DEF CatchSignal
  <2> QED  BY <2>1, <2>2, <2>3, InitializeLeaves DEF TypeOK
<1>4. ASSUME NEW w \in Widgets, New(w) PROVE TypeOK'
  <2>1. \/ WimeInitialize /\ UNCHANGED <<server, up>>
        \/ UNCHANGED <<fd, libcxn, held, registered, present>>
    BY <1>4 DEF New
  <2>2. /\ fd' \in 0 .. server /\ registered' \in BOOLEAN
        /\ libcxn' \in Seq(Numbers \cup {None})
        /\ held' \in [Numbers -> Widgets \cup {Global, None}]
        /\ present' \in SUBSET Widgets
    BY <2>1, InitializeLeaves DEF TypeOK
  <2> QED  BY <1>4, <2>2 DEF New, Begin, LevelFirst, TypeOK
<1>5. ASSUME NEW w \in Widgets, Use(w) PROVE TypeOK'
  BY <1>5 DEF Use, Begin, Check, LevelFirst, TypeOK
<1>6. ASSUME NEW w \in Widgets, FocusIn(w) \/ Reset(w) \/ Update(w) PROVE TypeOK'
  BY <1>6 DEF FocusIn, Reset, Update, Begin, TypeOK
<1>7. ASSUME NEW w \in Widgets, Delete(w) PROVE TypeOK'
  BY <1>7 DEF Delete, Begin, Check, LevelFirst, TypeOK
<1>8. ASSUME NEW w \in Widgets, Show(w) PROVE TypeOK'
  <2>1. User(cxn[w]) \in Widgets \cup {Global, None}
    BY DEF User, Number, TypeOK
  <2> QED  BY <1>8, <2>1 DEF Show, Check, LevelFirst, TypeOK
<1>9. ASSUME NEW w \in Widgets, Create(w) PROVE TypeOK'
  BY <1>9, CreateLeaves DEF Create, TypeOK
<1>10. ASSUME NEW w \in Widgets, Mark(w) PROVE TypeOK'
  BY <1>10 DEF Mark, TypeOK
<1>11. ASSUME NEW w \in Widgets, Ask(w) PROVE TypeOK'
  <2>1. User(cxn[w]) \in Widgets \cup {Global, None}
    BY DEF User, Number, TypeOK
  <2> QED  BY <1>11, <2>1 DEF Ask, Done, TypeOK
<1>12. ASSUME NEW w \in Widgets, Close(w) PROVE TypeOK'
  <2>1. cxn[w] \in {-1} \cup (Nat \ {0}) /\ CannaCloseContext(cxn[w])
    BY <1>12 DEF Close, TypeOK
  <2>2. /\ libcxn' \in Seq(Numbers \cup {None})
        /\ held' \in [Numbers -> Widgets \cup {Global, None}]
    BY <2>1, CloseLeaves
  <2> QED  BY <1>12, <2>2 DEF Close, Done, TypeOK
<1>13. CASE Bye
  <2>1. 0 \in 0 .. server /\ <<>> \in Seq(Numbers \cup {None})
    BY StartsAssumption DEF TypeOK
  <2>2. fd' \in 0 .. server /\ held' \in [Numbers -> Widgets \cup {Global, None}]
        /\ registered' \in BOOLEAN
    BY <1>13, <2>1 DEF Bye, WimeFinalize, Nobody, TypeOK
  <2> QED  BY <1>13, <2>1, <2>2 DEF Bye, WimeFinalize, Done, TypeOK
<1>14. CASE UNCHANGED vars
  BY <1>14 DEF vars, TypeOK
<1> QED
  BY <1>1, <1>2, <1>3, <1>4, <1>5, <1>6, <1>7, <1>8, <1>9, <1>10, <1>11, <1>12,
     <1>13, <1>14 DEF Next, Step

\* Only these steps touch the connection and what is held over it.
LEMMA LinkSteps ==
  ASSUME [Next]_vars
  PROVE  \/ Start \/ Die \/ CatchSignal \/ Bye
         \/ \E w \in Widgets : New(w) \/ Create(w) \/ Close(w)
         \/ UNCHANGED link
BY DEF Next, Step, Use, FocusIn, Reset, Update, Delete, Show, Mark, Ask, vars

\* A new connection has one context in the server and in the library.
LEMMA InitializeMatches ==
  ASSUME LinkInv, WimeInitialize, UNCHANGED <<server, up>>
  PROVE  LinkSound' /\ LibraryMatchesServer'
<1>1. CASE up
  <2>1. PICK k \in Numbers : /\ libcxn' = <<k>>
                             /\ held' = [Nobody EXCEPT ![k] = Global]
                             /\ fd' = server
    BY <1>1 DEF WimeInitialize
  <2>2. /\ libcxn'[1] = k /\ DOMAIN libcxn' = {1} /\ libcxn' # <<>>
        /\ held'[k] = Global /\ \A n \in Numbers : held'[n] # None <=> n = k
    BY <2>1, NoneAssumption DEF Nobody
  <2>3. {libcxn'[p] : p \in DOMAIN libcxn'} \ {None} = {k}
    BY <2>2, NoneAssumption
  <2> QED  BY <1>1, <2>1, <2>2, <2>3 DEF LinkInv, LinkSound, Connected,
              LibraryMatchesServer, Free
<1>2. CASE ~up
  BY <1>2 DEF WimeInitialize, LinkInv, LinkSound, LibraryMatchesServer, Connected
<1> QED  BY <1>1, <1>2

\* CannaCreateContext adds one number to both sides, ...
LEMMA CreateMatches ==
  ASSUME LinkInv, NEW w \in Widgets, CannaCreateContext(w), UNCHANGED <<server, up, fd>>
  PROVE  LinkSound' /\ LibraryMatchesServer'
<1>1. CASE ~Connected
  <2>1. UNCHANGED <<libcxn, held>>
    BY <1>1 DEF CannaCreateContext
  <2> QED  BY <2>1 DEF LinkInv, LinkSound, LibraryMatchesServer, Connected, Free
<1>2. CASE Connected
  <2>1. PICK k \in Free, p \in 2 .. Len(libcxn) + 1 :
           /\ p \in DOMAIN libcxn => libcxn[p] = None
           /\ libcxn' = IF p \in DOMAIN libcxn THEN [libcxn EXCEPT ![p] = k]
                        ELSE Append(libcxn, k)
           /\ held' = [held EXCEPT ![k] = w]
    BY <1>2 DEF CannaCreateContext
  <2>2. /\ libcxn \in Seq(Numbers \cup {None}) /\ libcxn # <<>> /\ k \in Numbers
        /\ held \in [Numbers -> Widgets \cup {Global, None}] /\ held[k] = None
    BY <1>2 DEF LinkInv, LinkSound, TypeOK, Free
  <2>3. /\ p \in DOMAIN libcxn' /\ libcxn'[p] = k /\ p # 1
        /\ \A q \in DOMAIN libcxn : q # p => q \in DOMAIN libcxn' /\ libcxn'[q] = libcxn[q]
        /\ \A q \in DOMAIN libcxn' : q # p => q \in DOMAIN libcxn
    BY <2>1, <2>2
  <2>4. /\ held'[k] = w /\ w # None /\ k # None
        /\ \A n \in Numbers : n # k => held'[n] = held[n]
    BY <2>1, <2>2, NoneAssumption
  <2>5. /\ {libcxn[q] : q \in DOMAIN libcxn} \ {None} = Numbers \ Free
        /\ \A q, r \in DOMAIN libcxn : libcxn[q] = libcxn[r] /\ libcxn[q] # None => q = r
        /\ held[libcxn[1]] = Global
    BY <1>2 DEF LinkInv, LibraryMatchesServer
  <2>6. \A q \in DOMAIN libcxn : libcxn[q] # k
    BY <2>1, <2>4, <2>5
  <2>7. 1 \in DOMAIN libcxn /\ libcxn'[1] = libcxn[1] /\ libcxn[1] # k
    BY <2>2, <2>3, <2>6
  <2>8. libcxn[1] \in Numbers
    BY <1>2, <2>2, <2>7 DEF LinkInv, LinkSound
  <2>9. held'[libcxn'[1]] = Global
    BY <2>4, <2>5, <2>7, <2>8
  <2>10. Free' = Free \ {k}
    BY <2>4 DEF Free
  <2>11. {libcxn'[q] : q \in DOMAIN libcxn'} \ {None}
            = ({libcxn[q] : q \in DOMAIN libcxn} \ {None}) \cup {k}
    BY <2>1, <2>3, <2>4
  <2>12. {libcxn'[q] : q \in DOMAIN libcxn'} \ {None} = Numbers \ Free'
    BY <2>2, <2>5, <2>10, <2>11
  <2>13. \A q, r \in DOMAIN libcxn' : libcxn'[q] = libcxn'[r] /\ libcxn'[q] # None => q = r
    BY <2>3, <2>5, <2>6
  <2>14. LibraryMatchesServer'
    BY <2>9, <2>12, <2>13 DEF LibraryMatchesServer
  <2>15. LinkSound'
    BY <1>2, <2>3, <2>7 DEF LinkInv, LinkSound, Connected
  <2> QED  BY <2>14, <2>15
<1> QED  BY <1>1, <1>2

\* ... and CannaCloseContext takes one from both, never the global one.
LEMMA CloseMatches ==
  ASSUME LinkInv, NEW i \in {-1} \cup (Nat \ {0}), CannaCloseContext(i),
         UNCHANGED <<server, up, fd>>
  PROVE  LinkSound' /\ LibraryMatchesServer'
<1>1. CASE UNCHANGED <<held, libcxn>>
  BY <1>1 DEF LinkInv, LinkSound, LibraryMatchesServer, Connected, Free
<1>2. CASE /\ Number(i) # None /\ Connected
           /\ held' = [held EXCEPT ![Number(i)] = None]
           /\ libcxn' = [libcxn EXCEPT ![i + 1] = None]
  <2> DEFINE k == Number(i)
  <2>1. /\ libcxn \in Seq(Numbers \cup {None})
        /\ held \in [Numbers -> Widgets \cup {Global, None}]
    BY DEF LinkInv, TypeOK
  <2>2. i + 1 \in DOMAIN libcxn /\ i + 1 # 1 /\ k = libcxn[i + 1] /\ k \in Numbers
    BY <1>2, <2>1 DEF Number
  <2>3. /\ DOMAIN libcxn' = DOMAIN libcxn /\ libcxn'[i + 1] = None
        /\ \A q \in DOMAIN libcxn : q # i + 1 => libcxn'[q] = libcxn[q]
    BY <1>2, <2>1, <2>2
  <2>4. /\ held'[k] = None /\ \A n \in Numbers : n # k => held'[n] = held[n]
    BY <1>2, <2>1, <2>2
  <2>5. /\ {libcxn[q] : q \in DOMAIN libcxn} \ {None} = Numbers \ Free
        /\ \A q, r \in DOMAIN libcxn : libcxn[q] = libcxn[r] /\ libcxn[q] # None => q = r
        /\ held[libcxn[1]] = Global
    BY <1>2 DEF LinkInv, LibraryMatchesServer
  <2>6. \A q \in DOMAIN libcxn : q # i + 1 => libcxn[q] # k
    BY <1>2, <2>2, <2>5
  <2>7. 1 \in DOMAIN libcxn /\ libcxn'[1] = libcxn[1] /\ libcxn[1] # k
    BY <2>1, <2>2, <2>3, <2>6
  <2>8. Free' = Free \cup {k}
    BY <2>2, <2>4 DEF Free
  <2>9. {libcxn'[q] : q \in DOMAIN libcxn'} \ {None}
           = ({libcxn[q] : q \in DOMAIN libcxn} \ {None}) \ {k}
    BY <2>2, <2>3, <2>6
  <2>10. {libcxn'[q] : q \in DOMAIN libcxn'} \ {None} = Numbers \ Free'
    BY <2>5, <2>8, <2>9
  <2>11. \A q, r \in DOMAIN libcxn' : libcxn'[q] = libcxn'[r] /\ libcxn'[q] # None => q = r
    BY <2>3, <2>5
  <2>12. held'[libcxn'[1]] = Global
    <3>1. libcxn[1] \in Numbers
      BY <1>2, <2>1, <2>7 DEF LinkInv, LinkSound
    <3> QED  BY <2>4, <2>5, <2>7, <3>1
  <2>13. LibraryMatchesServer'
    BY <2>10, <2>11, <2>12 DEF LibraryMatchesServer
  <2>14. LinkSound'
    BY <1>2, <2>3, <2>7 DEF LinkInv, LinkSound, Connected
  <2> QED  BY <2>13, <2>14
<1> QED  BY <1>1, <1>2 DEF CannaCloseContext

LEMMA LinkStep ==
  ASSUME LinkInv, [Next]_vars
  PROVE  LinkInv'
<1>0. TypeOK /\ TypeOK'
  BY TypeStep DEF LinkInv
<1> SUFFICES LinkSound' /\ LibraryMatchesServer'
  BY <1>0 DEF LinkInv
<1>1. CASE Start
  <2>1. ~Connected' /\ server' > 0 /\ \A k \in Numbers : held'[k] = None
    BY <1>0, <1>1 DEF Start, Connected, LinkInv, LinkSound, TypeOK
  <2> QED  BY <2>1 DEF LinkSound, LibraryMatchesServer
<1>2. CASE Die
  BY <1>2 DEF Die, Nobody, Connected, LinkSound, LibraryMatchesServer
<1>3. CASE CatchSignal
  BY <1>3, InitializeMatches DEF CatchSignal
<1>4. CASE Bye
  <2>1. /\ up' => server' > 0 /\ fd' = 0 /\ server' = server /\ up' = up
        /\ fd # 0 => held' = Nobody
        /\ fd = 0 => held' = held
    BY <1>4 DEF Bye, WimeFinalize, LinkInv, LinkSound
  <2>2. ~Connected'
    BY <1>0, <2>1 DEF Connected, LinkInv, LinkSound, TypeOK
  <2>3. \A k \in Numbers : held'[k] = None
    BY <1>0, <2>1 DEF Connected, LinkInv, LinkSound, Nobody, TypeOK
  <2> QED  BY <2>1, <2>2, <2>3 DEF LinkSound, LibraryMatchesServer
<1>5. ASSUME NEW w \in Widgets, New(w) PROVE LinkSound' /\ LibraryMatchesServer'
  <2>1. UNCHANGED <<server, up>>
    BY <1>5 DEF New
  <2>2. CASE WimeInitialize
    BY <2>1, <2>2, InitializeMatches
  <2>3. CASE UNCHANGED <<fd, libcxn, held>>
    BY <2>1, <2>3 DEF LinkInv, LinkSound, LibraryMatchesServer, Connected, Free
  <2> QED  BY <1>5, <2>2, <2>3 DEF New
<1>6. ASSUME NEW w \in Widgets, Create(w) PROVE LinkSound' /\ LibraryMatchesServer'
  BY <1>6, CreateMatches DEF Create
<1>7. ASSUME NEW w \in Widgets, Close(w) PROVE LinkSound' /\ LibraryMatchesServer'
  <2>1. cxn[w] \in {-1} \cup (Nat \ {0})
    BY <1>0 DEF TypeOK
  <2> QED  BY <1>7, <2>1, CloseMatches DEF Close
<1>8. CASE UNCHANGED link
  BY <1>8 DEF link, LinkInv, LinkSound, LibraryMatchesServer, Connected, Free
<1> QED  BY <1>1, <1>2, <1>3, <1>4, <1>5, <1>6, <1>7, <1>8, LinkSteps

\* The invariant of the connection.
LEMMA LinkInvariant == Spec => []LinkInv
<1>1. ASSUME Init PROVE LinkInv
  <2>1. TypeOK
    <3>1. <<>> \in Seq(Numbers \cup {None})
      OBVIOUS
    <3>2. server \in 0 .. MaxStarts /\ fd \in 0 .. server /\ count \in Nat
      BY <1>1, StartsAssumption DEF Init
    <3>3. /\ held \in [Numbers -> Widgets \cup {Global, None}]
          /\ level \in [Widgets -> 0 .. count]
          /\ cxn \in [Widgets -> {-1} \cup (Nat \ {0})]
      BY <1>1 DEF Init, Nobody
    <3>4. op \in {"none", "new", "use", "focus_in", "reset", "update", "delete"}
                   \X (Widgets \cup {None})
      BY <1>1 DEF Init
    <3> QED  BY <1>1, <3>1, <3>2, <3>3, <3>4 DEF Init, TypeOK
  <2> QED  BY <1>1, <2>1 DEF Init, LinkInv, LinkSound, LibraryMatchesServer,
              Connected, Nobody
<1> QED  BY <1>1, LinkStep, PTL DEF Spec

\* While the connection stands, LibCxn is an exact copy of what the server
\* holds for it, whatever fails, restarts or is closed by the wrong widget.
THEOREM LibraryExact == Spec => []LibraryMatchesServer
<1>1. LinkInv => LibraryMatchesServer
  BY DEF LinkInv
<1> QED  BY <1>1, LinkInvariant, PTL

---------------------------------------------------------------------------
(* Widgets of the GTK module.                                              *)

\* The widget of an operation in progress exists until it has been closed.
BusyAlive == at \notin {"idle", "bye"} => op[2] \in alive

\* A widget's context is the one its index stands for, and the widget knows
\* that it is up to date, or is about to write that down.
OwnIndex ==
    \A w \in Widgets, k \in Numbers : held[k] = w =>
        /\ w \in alive
        /\ Number(cxn[w]) = k
        /\ level[w] = count \/ (at = "mark" /\ op[2] = w)

\* So replace_context asks for one only where there is none.
CreatesFirst == at = "create" => \A k \in Numbers : held[k] # op[2]

GtkInv == BusyAlive /\ (toolkit = "gtk" => OwnIndex /\ CreatesFirst)

\* After WimeInitialize or the server's death no widget has a context.
LEMMA NoneHeld ==
  ASSUME LinkInv, WimeInitialize, UNCHANGED <<server, up>>, NEW w \in Widgets
  PROVE  \A k \in Numbers : held'[k] # w
<1>1. CASE up
  BY <1>1, NoneAssumption DEF WimeInitialize, Nobody
<1>2. CASE ~up
  <2>1. \A k \in Numbers : held'[k] = None
    BY <1>2 DEF WimeInitialize, LinkInv, LinkSound, Connected
  <2> QED  BY <2>1, NoneAssumption
<1> QED  BY <1>1, <1>2

\* A stale widget has no context.
LEMMA StaleHasNone ==
  ASSUME LinkInv, OwnIndex, NEW w \in Widgets, Stale(w), at # "mark"
  PROVE  \A k \in Numbers : held[k] # w
<1> SUFFICES ASSUME NEW k \in Numbers, held[k] = w PROVE FALSE
  OBVIOUS
<1>1. level[w] = count /\ Number(cxn[w]) = k
  BY DEF OwnIndex
<1>2. cxn[w] = -1
  BY <1>1 DEF Stale, LinkInv, TypeOK
<1>3. libcxn \in Seq(Numbers \cup {None})
  BY DEF LinkInv, TypeOK
<1> QED  BY <1>1, <1>2, <1>3, NoneAssumption DEF Number

\* Operations are for widgets that exist.
LEMMA BusyStep ==
  ASSUME BusyAlive, [Next]_vars
  PROVE  BusyAlive'
<1>1. CASE Start \/ Die \/ CatchSignal \/ Bye \/ UNCHANGED vars
  BY <1>1 DEF Start, Die, CatchSignal, Bye, Done, vars, widgets, BusyAlive
<1>2. ASSUME NEW w \in Widgets, New(w) \/ Use(w) \/ FocusIn(w) \/ Reset(w) \/ Update(w) \/ Delete(w)
      PROVE  BusyAlive'
  <2>1. op'[2] = w /\ w \in alive'
    BY <1>2 DEF New, Use, FocusIn, Reset, Update, Delete, Begin, widgets
  <2> QED  BY <2>1 DEF BusyAlive
<1>3. ASSUME NEW w \in Widgets, Show(w) \/ Create(w) \/ Mark(w) \/ Ask(w) PROVE BusyAlive'
  BY <1>3 DEF Show, Create, Mark, Ask, Done, widgets, BusyAlive
<1>4. ASSUME NEW w \in Widgets, Close(w) PROVE BusyAlive'
  BY <1>4 DEF Close, Done, BusyAlive
<1> QED  BY <1>1, <1>2, <1>3, <1>4 DEF Next, Step

\* A step after which no widget holds anything.
LEMMA EmptyIsOwn ==
  ASSUME TypeOK', BusyAlive', \A w \in Widgets, k \in Numbers : held'[k] # w
  PROVE  OwnIndex' /\ CreatesFirst'
BY DEF OwnIndex, CreatesFirst, BusyAlive, TypeOK

\* A step before the next request, which changes no connection.
LEMMA QuietIsOwn ==
  ASSUME OwnIndex, at # "mark", UNCHANGED <<link, level, cxn>>, alive \subseteq alive'
  PROVE  OwnIndex'
BY DEF OwnIndex, link, Number

\* The widgets of the GTK module keep their promise.
LEMMA GtkStep ==
  ASSUME LinkInv, LinkInv', GtkInv, [Next]_vars
  PROVE  GtkInv'
<1> USE DEF GtkInv
<1>0. BusyAlive' /\ TypeOK /\ TypeOK'
  BY BusyStep DEF LinkInv
<1>t. toolkit' = toolkit
  BY DEF Next, Step, Start, Die, CatchSignal, New, Use, FocusIn, Reset, Update, Delete,
     Show, Create, Mark, Ask, Close, Bye, vars
<1> SUFFICES ASSUME toolkit = "gtk" PROVE OwnIndex' /\ CreatesFirst'
  BY <1>0, <1>t
<1> USE <1>0
<1>1. CASE Start \/ Die
  <2>1. \A k \in Numbers : held'[k] = None
    BY <1>1 DEF Start, Die, LinkInv, LinkSound, Connected, Nobody
  <2> QED  BY <2>1, EmptyIsOwn, NoneAssumption
<1>2. CASE CatchSignal
  BY <1>2, NoneHeld, EmptyIsOwn DEF CatchSignal
<1>3. ASSUME NEW w \in Widgets, New(w) PROVE OwnIndex' /\ CreatesFirst'
  <2>1. CASE WimeInitialize
    BY <1>3, <2>1, NoneHeld, EmptyIsOwn DEF New
  <2>2. CASE UNCHANGED <<fd, libcxn, held, registered, present>>
    <3>1. /\ at = "idle" /\ w \notin alive /\ op'[2] = w
          /\ UNCHANGED <<link, level, cxn>> /\ alive \subseteq alive'
      BY <1>3, <2>2 DEF New, Begin, Idle, LevelFirst, link
    <3>2. \A k \in Numbers : held'[k] # w
      BY <3>1 DEF OwnIndex, link
    <3> QED  BY <3>1, <3>2, QuietIsOwn DEF CreatesFirst
  <2> QED  BY <1>3, <2>1, <2>2 DEF New
<1>4. ASSUME NEW w \in Widgets, Use(w) \/ Delete(w) \/ (op[2] = w /\ Show(w))
      PROVE OwnIndex' /\ CreatesFirst'
  <2>1. /\ at # "mark" /\ op'[2] = w /\ Check(w)
        /\ UNCHANGED <<link, cxn>> /\ alive \subseteq alive'
    BY <1>4 DEF Use, Delete, Show, Begin, Idle
  <2>2. level' = level /\ (at' = "create" => Stale(w))
    BY <2>1 DEF Check, LevelFirst
  <2>3. at' = "create" => \A k \in Numbers : held[k] # w
    BY <2>1, <2>2, StaleHasNone
  <2> QED  BY <2>1, <2>2, <2>3, QuietIsOwn DEF CreatesFirst, link
<1>5. ASSUME NEW w \in Widgets, FocusIn(w) \/ Reset(w) \/ Update(w)
      PROVE OwnIndex' /\ CreatesFirst'
  <2>1. at = "idle" /\ at' # "create" /\ UNCHANGED <<link, level, cxn, alive>>
    BY <1>5 DEF FocusIn, Reset, Update, Begin, Idle, widgets
  <2> QED  BY <2>1, QuietIsOwn DEF CreatesFirst
<1>6. ASSUME NEW w \in Widgets, op[2] = w, Create(w) PROVE OwnIndex' /\ CreatesFirst'
  <2>1. /\ at = "create" /\ at' = "mark" /\ op' = op /\ w \in alive
        /\ UNCHANGED <<alive, level, count>>
    BY <1>6 DEF Create, BusyAlive
  <2>2. \A k \in Numbers : held[k] # w
    BY <1>6, <2>1 DEF CreatesFirst
  <2> SUFFICES ASSUME NEW u \in Widgets, NEW k \in Numbers, held'[k] = u
               PROVE  /\ u \in alive /\ Number(cxn[u])' = k
                      /\ level[u] = count \/ u = w
    BY <1>6, <2>1 DEF OwnIndex, CreatesFirst
  <2>3. CASE ~Connected
    BY <1>6, <2>1, <2>2, <2>3 DEF Create, CannaCreateContext, OwnIndex, Number, TypeOK
  <2>4. CASE Connected
    <3>1. PICK n \in Free, p \in 2 .. Len(libcxn) + 1 :
             /\ p \in DOMAIN libcxn => libcxn[p] = None
             /\ libcxn' = IF p \in DOMAIN libcxn THEN [libcxn EXCEPT ![p] = n]
                          ELSE Append(libcxn, n)
             /\ held' = [held EXCEPT ![n] = w]
             /\ cxn' = [cxn EXCEPT ![w] = p - 1]
      BY <1>6, <2>4 DEF Create, CannaCreateContext
    <3>2. libcxn \in Seq(Numbers \cup {None}) /\ n \in Numbers
      BY DEF TypeOK, Free
    <3>3. /\ p \in DOMAIN libcxn' /\ libcxn'[p] = n
          /\ \A q \in DOMAIN libcxn : q # p => q \in DOMAIN libcxn' /\ libcxn'[q] = libcxn[q]
      BY <3>1, <3>2
    <3>4. CASE u = w
      <4>1. k = n
        BY <2>2, <3>1, <3>4 DEF TypeOK
      <4>2. cxn'[w] + 1 = p
        BY <3>1, <3>2 DEF TypeOK
      <4> QED  BY <2>1, <3>3, <3>4, <4>1, <4>2 DEF Number
    <3>5. CASE u # w
      <4>1. held[k] = u
        BY <3>1, <3>5 DEF TypeOK
      <4>2. u \in alive /\ Number(cxn[u]) = k /\ level[u] = count
        BY <2>1, <4>1 DEF OwnIndex
      <4>3. cxn[u] + 1 \in DOMAIN libcxn /\ cxn[u] + 1 # p
        BY <3>1, <4>2, NoneAssumption DEF Number
      <4>4. cxn'[u] = cxn[u]
        BY <3>1, <3>5 DEF TypeOK
      <4> QED  BY <3>3, <4>2, <4>3, <4>4 DEF Number
    <3> QED  BY <3>4, <3>5
  <2> QED  BY <2>3, <2>4
<1>7. ASSUME NEW w \in Widgets, op[2] = w, Mark(w) PROVE OwnIndex' /\ CreatesFirst'
  <2>1. /\ at' = "ask" /\ UNCHANGED <<link, alive, cxn>>
        /\ level' = [level EXCEPT ![w] = count]
    BY <1>7 DEF Mark
  <2> QED  BY <1>7, <2>1 DEF OwnIndex, CreatesFirst, link, Number, TypeOK
<1>8. ASSUME NEW w \in Widgets, Ask(w) PROVE OwnIndex' /\ CreatesFirst'
  <2>1. at = "ask" /\ at' # "create" /\ UNCHANGED <<link, level, cxn, alive>>
    BY <1>8 DEF Ask, Done, widgets
  <2> QED  BY <2>1, QuietIsOwn DEF CreatesFirst
<1>9. ASSUME NEW w \in Widgets, Close(w) PROVE OwnIndex' /\ CreatesFirst'
  <2>1. /\ at = "close" /\ at' # "create" /\ alive' = alive \ {w} /\ count' = count
        /\ cxn' = [cxn EXCEPT ![w] = -1] /\ level' = [level EXCEPT ![w] = 0]
        /\ CannaCloseContext(cxn[w])
    BY <1>9 DEF Close, Done
  <2>2. /\ libcxn \in Seq(Numbers \cup {None})
        /\ held \in [Numbers -> Widgets \cup {Global, None}]
    BY DEF TypeOK
  <2> SUFFICES ASSUME NEW u \in Widgets, NEW k \in Numbers, held'[k] = u
               PROVE  u # w /\ u \in alive /\ Number(cxn[u])' = k /\ level[u] = count
    BY <2>1 DEF OwnIndex, CreatesFirst, TypeOK
  <2>3. held[k] = u
    BY <2>1, <2>2, NoneAssumption DEF CannaCloseContext
  <2>4. u \in alive /\ Number(cxn[u]) = k /\ level[u] = count
    BY <2>1, <2>3 DEF OwnIndex
  <2>5. Connected
    BY <2>3, NoneAssumption DEF LinkInv, LinkSound
  <2>6. u # w
    <3> SUFFICES ASSUME u = w PROVE FALSE
      OBVIOUS
    <3>1. Number(cxn[w]) = k /\ k # None
      BY <2>4, NoneAssumption
    <3>2. held' = [held EXCEPT ![k] = None]
      BY <2>1, <2>5, <3>1 DEF CannaCloseContext
    <3> QED  BY <2>2, <3>2, NoneAssumption
  <2>7. cxn'[u] = cxn[u]
    BY <2>1, <2>6 DEF TypeOK
  <2>8. cxn[u] + 1 \in DOMAIN libcxn /\ libcxn[cxn[u] + 1] = k
    BY <2>4, NoneAssumption DEF Number
  <2>9. cxn[u] + 1 \in DOMAIN libcxn' /\ libcxn'[cxn[u] + 1] = k
    <3>1. CASE UNCHANGED <<held, libcxn>>
      BY <2>8, <3>1
    <3>2. CASE /\ Number(cxn[w]) # None
               /\ held' = [held EXCEPT ![Number(cxn[w])] = None]
               /\ libcxn' = [libcxn EXCEPT ![cxn[w] + 1] = None]
      <4>1. Number(cxn[w]) # k
        BY <2>2, <3>2, NoneAssumption
      <4>2. cxn[w] + 1 # cxn[u] + 1
        BY <2>8, <4>1 DEF Number
      <4> QED  BY <2>2, <2>8, <3>2, <4>2
    <3> QED  BY <2>1, <3>1, <3>2 DEF CannaCloseContext
  <2> QED  BY <2>4, <2>6, <2>7, <2>9 DEF Number
<1>10. CASE Bye
  <2>1. (fd # 0 /\ held' = Nobody) \/ (fd = 0 /\ held' = held)
    BY <1>10 DEF Bye, WimeFinalize
  <2>2. \A k \in Numbers : held'[k] = None
    BY <2>1 DEF LinkInv, LinkSound, Connected, Nobody, TypeOK
  <2> QED  BY <2>2, EmptyIsOwn, NoneAssumption
<1>11. CASE UNCHANGED vars
  BY <1>11 DEF vars, link, widgets, OwnIndex, CreatesFirst, Number
<1> QED  BY <1>1, <1>2, <1>3, <1>4, <1>5, <1>6, <1>7, <1>8, <1>9, <1>10, <1>11 DEF Next, Step

\* A GTK widget that is deleted leaves no context in the server, and one that
\* lives has at most one, wherever restart signals fall (imwime_init,
\* replace_context, imwime_finalize).
THEOREM GtkLeavesNoContext == Spec => []GtkLeavesNothing
<1>1. Init => GtkInv
  BY NoneAssumption DEF Init, GtkInv, BusyAlive, OwnIndex, CreatesFirst, Nobody
<1>2. LinkInv /\ LinkInv' /\ GtkInv /\ [Next]_vars => GtkInv'
  BY GtkStep
<1>3. ASSUME GtkInv PROVE GtkLeavesNothing
  <2> SUFFICES ASSUME toolkit = "gtk", NEW w \in Widgets
               PROVE  /\ w \notin alive => \A k \in Numbers : held[k] # w
                      /\ Cardinality({k \in Numbers : held[k] = w}) <= 1
    BY DEF GtkLeavesNothing
  <2>1. OwnIndex
    BY <1>3 DEF GtkInv
  <2>2. {k \in Numbers : held[k] = w} \in SUBSET {Number(cxn[w])}
    BY <2>1 DEF OwnIndex
  <2>3. /\ IsFiniteSet({Number(cxn[w])}) /\ Cardinality({Number(cxn[w])}) = 1
    BY FS_Singleton
  <2>4. Cardinality({k \in Numbers : held[k] = w}) <= 1
    BY <2>2, <2>3, FS_Subset
  <2> QED  BY <2>1, <2>4 DEF OwnIndex
<1> QED  BY <1>1, <1>2, <1>3, LinkInvariant, PTL DEF Spec

---------------------------------------------------------------------------
(* Widgets of the Qt module.                                               *)

\* Between the level and the request it is written for, a widget may pass for
\* up to date with an old index; nowhere else.
Fresh == \A w \in alive : ~Stale(w) /\ ~(at = "create" /\ op[2] = w) => w \in present

QtInv == toolkit = "qt" => /\ at \notin {"show", "mark", "bye"}
                           /\ registered
                           /\ up /\ ~signalled => fd = server
                           /\ Fresh

\* The widgets of the Qt module keep theirs.
LEMMA QtStep ==
  ASSUME TypeOK, QtInv, [Next]_vars
  PROVE  QtInv'
<1> USE DEF QtInv, link, widgets
<1>t. toolkit' = toolkit
  BY DEF Next, Step, Start, Die, CatchSignal, New, Use, FocusIn, Reset, Update, Delete,
     Show, Create, Mark, Ask, Close, Bye, vars
<1> SUFFICES ASSUME toolkit = "qt" PROVE QtInv'
  BY <1>t
<1>1. CASE Start
  BY <1>1 DEF Start, Fresh, Stale
<1>2. CASE Die
  BY <1>2 DEF Die, Fresh, Stale
<1>3. CASE CatchSignal
  <2>1. /\ registered' = TRUE /\ up' = up /\ server' = server /\ at' = at
        /\ up => fd' = server
        /\ level' = level /\ alive' = alive /\ count' = count + 2
    BY <1>3 DEF CatchSignal, WimeInitialize
  <2>2. \A w \in alive : Stale(w)'
    BY <2>1 DEF Stale, TypeOK
  <2> QED  BY <2>1, <2>2 DEF Fresh
<1>4. ASSUME NEW w \in Widgets, New(w) PROVE QtInv'
  BY <1>4 DEF New, Begin, Idle, LevelFirst, Fresh, Stale, TypeOK
<1>5. ASSUME NEW w \in Widgets, Use(w) PROVE QtInv'
  BY <1>5 DEF Use, Begin, Idle, Check, LevelFirst, Fresh, Stale, TypeOK
<1>6. ASSUME NEW w \in Widgets, FocusIn(w) \/ Reset(w) PROVE QtInv'
  BY <1>6 DEF FocusIn, Reset
<1>7. ASSUME NEW w \in Widgets, Update(w) \/ Delete(w) PROVE QtInv'
  BY <1>7 DEF Update, Delete, Begin, Idle, Fresh, Stale
<1>8. ASSUME NEW w \in Widgets, op[2] = w, Create(w) PROVE QtInv'
  <2>1. \A u \in Widgets \ {w} : cxn'[u] = cxn[u]
    BY <1>8 DEF Create, CannaCreateContext, TypeOK
  <2> QED  BY <1>8, <2>1 DEF Create, Fresh, Stale, TypeOK
<1>9. ASSUME NEW w \in Widgets, Ask(w) PROVE QtInv'
  BY <1>9 DEF Ask, Done, Fresh, Stale
<1>10. ASSUME NEW w \in Widgets, Close(w) PROVE QtInv'
  BY <1>10 DEF Close, Done, Fresh, Stale, TypeOK
<1>11. ASSUME NEW w \in Widgets, Show(w) \/ Mark(w) PROVE QtInv'
  BY <1>11 DEF Show, Mark
<1>12. CASE Bye
  BY <1>12 DEF Bye
<1>13. CASE UNCHANGED vars
  BY <1>13 DEF vars, Fresh, Stale
<1> QED  BY <1>1, <1>2, <1>3, <1>4, <1>5, <1>6, <1>7, <1>8, <1>9, <1>10, <1>11,
            <1>12, <1>13 DEF Next, Step

LEMMA QtInvariant == Spec => []QtInv
<1>1. Init => QtInv
  BY DEF Init, QtInv, Fresh
<1>2. LinkInv /\ QtInv /\ [Next]_vars => QtInv'
  BY QtStep DEF LinkInv
<1> QED  BY <1>1, <1>2, LinkInvariant, PTL DEF Spec

\* A Qt widget that passes for up to date has its index from the present
\* connection, wherever the signal falls (QWime's ServerLevel).
THEOREM QtNoticesEveryRestart == Spec => []QtNoticesRestart
<1>1. QtInv => QtNoticesRestart
  BY DEF QtInv, Fresh, QtNoticesRestart
<1> QED  BY <1>1, QtInvariant, PTL

\* Nothing leaves a Qt process without a connection while the server runs and
\* no signal is pending.
THEOREM QtKeepsConnection == Spec => []QtStaysConnected
<1>1. QtInv => QtStaysConnected
  BY DEF QtInv, QtStaysConnected, StaysConnected
<1> QED  BY <1>1, QtInvariant, PTL
=============================================================================
