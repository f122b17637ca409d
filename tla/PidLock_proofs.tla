--------------------------- MODULE PidLock_proofs ---------------------------
(***************************************************************************)
(* Proofs about PidLock, for any finite set of clients, any size of the    *)
(* table, any number of processes in a call at once and of starts.         *)
(***************************************************************************)
EXTENDS PidLock, FiniteSetTheorems, TLAPS

\* Outside of a call: between two calls a handler is there, too.
Out(p) == pc[p] \in {"idle", "between"}

\* A flow has the semaphore open exactly while it is in a call, maps the
\* table in between, and its process has not died.
CallShape ==
    \A p \in Flows :
        /\ Out(p) <=> lock[p] = None
        /\ Out(p) => call[p] = None
        /\ pc[p] = "between" => p \in Handlers
        /\ pc[p] # "idle" => Pid(p) \notin dead
        /\ pc[p] \in {"idle", "between", "sem_wait", "shm_open", "sem_unlink"} => map[p] = None
        /\ pc[p] \in {"work", "write", "scan"} => map[p] \in Ids
        /\ pc[p] = "write" => call[p] = "ShmStartClient"
        /\ pc[p] = "scan" => call[p] = "ShmEndClient"
        /\ pc[p] = "write" => cell[p] \in Cells
        /\ pc[p] = "work" /\ call[p] = "ShmStartServer" => cell[p] \in Cells

\* TokenKept speaks of semaphores in use; of the others, that their identity
\* is clean when it serves again.
UnusedClean == \A k \in Ids : ~InUse(k) => extra[k] = 0

LockInv == TypeOK /\ CallShape /\ UnusedClean /\ TokenKept

---------------------------------------------------------------------------

\* A flow is the main one or the handler of its process.
LEMMA FlowShape ==
  /\ \A p \in Flows : /\ Pid(p) \in Clients \cup {Server}
                      /\ p = Main(Pid(p)) \/ p = Handler(Pid(p))
                      /\ p \in Handlers => p = Handler(Pid(p)) /\ Pid(p) \in Clients
                      /\ p \in Mains \/ p \in Handlers
                      /\ p \in Mains => p = Main(Pid(p))
                      /\ ~(p \in Mains /\ p \in Handlers)
  /\ \A c : Pid(Main(c)) = c /\ Pid(Handler(c)) = c
  /\ \A c \in Clients : Main(c) \in Mains /\ Handler(c) \in Handlers
  /\ Main(Server) \in Mains
  /\ Mains \subseteq Flows /\ Handlers \subseteq Flows
BY DEF Flows, Mains, Handlers, Main, Handler, Pid

\* What a flow may call, for each kind of flow.
LEMMA CallsAre ==
  ASSUME NEW p \in Flows
  PROVE  /\ Calls(p) \subseteq CallNames
         /\ "ShmStartServer" \in Calls(p) => p \in Mains /\ Pid(p) = Server
         /\ "ShmStartClient" \in Calls(p) => Pid(p) \in Clients
         /\ "ShmEndClient" \in Calls(p) => p \in Mains /\ Pid(p) \in Clients /\ Pid(p) \in started
         /\ "ShmGetPidData" \in Calls(p) => p \in Handlers
         /\ None \notin Calls(p)
BY FlowShape, NoneAssumption, ServerAssumption DEF Calls, CallNames

\* There are finitely many flows, fewer than there are identities.
LEMMA FlowsFinite ==
  /\ IsFiniteSet(Flows)
  /\ Cardinality(Flows) < Cardinality(Ids)
<1>1. IsFiniteSet(Clients \cup {Server})
  BY IdsAssumption, FS_AddElement
<1>2. IsFiniteSet({"main"} \cup {"handler"})
  BY FS_Singleton, FS_Union
<1>3. IsFiniteSet(Flows)
  <2>1. IsFiniteSet((Clients \cup {Server}) \X ({"main"} \cup {"handler"}))
    BY <1>1, <1>2, FS_Product
  <2>2. Flows \subseteq (Clients \cup {Server}) \X ({"main"} \cup {"handler"})
    BY DEF Flows, Mains, Handlers, Main, Handler
  <2> QED  BY <2>1, <2>2, FS_Subset
<1>4. Cardinality(Flows) \in Nat /\ Cardinality(Ids) \in Nat
  BY <1>3, IdsAssumption, FS_CardinalityType
<1> QED  BY <1>3, <1>4, IdsAssumption

\* There is always an object that no other process uses and the name does not
\* lead to: pigeons are the objects, holes the processes, and p's own hole is
\* for the named one.
LEMMA FreeObject ==
  ASSUME NEW p \in Flows, NEW named, NEW used, used[p] = None
  PROVE  \E k \in Ids : k # named /\ \A q \in Flows : used[q] # k
<1> SUFFICES ASSUME \A k \in Ids : k = named \/ \E q \in Flows : used[q] = k
             PROVE  FALSE
  OBVIOUS
<1> DEFINE user(k) == CHOOSE q \in Flows : used[q] = k
           hole == [k \in Ids |-> IF k = named THEN p ELSE user(k)]
<1>1. \A k \in Ids : k # named => user(k) \in Flows /\ used[user(k)] = k
  OBVIOUS
<1>2. hole \in [Ids -> Flows]
  BY <1>1
<1>3. PICK x, y \in Ids : x # y /\ hole[x] = hole[y]
  <2> HIDE DEF hole
  <2> QED  BY <1>2, FlowsFinite, IdsAssumption, FS_PigeonHole
<1>4. \A k \in Ids : k # named => user(k) # p
  BY <1>1, NoneAssumption
<1> QED  BY <1>1, <1>3, <1>4

\* Which gives sem_open and shm_open their new objects.
LEMMA NewObjects ==
  ASSUME TypeOK, CallShape, NEW p \in Flows
  PROVE  /\ Out(p) => /\ NewSem \in Ids /\ NewSem # lockName
                      /\ \A q \in Flows : lock[q] # NewSem
         /\ pc[p] = "shm_open" => /\ NewShm \in Ids /\ NewShm # shmName
                                  /\ \A q \in Flows : map[q] # NewShm
<1>1. ASSUME Out(p)
      PROVE  \E k \in Ids : k # lockName /\ \A q \in Flows : lock[q] # k
  <2>1. lock[p] = None
    BY <1>1 DEF CallShape
  <2> QED  BY <2>1, FreeObject
<1>2. ASSUME pc[p] = "shm_open"
      PROVE  \E m \in Ids : m # shmName /\ \A q \in Flows : map[q] # m
  <2>1. map[p] = None
    BY <1>2 DEF CallShape
  <2> QED  BY <2>1, FreeObject
<1> QED  BY <1>1, <1>2 DEF NewSem, NewShm

\* The invariant holds at the start.
LEMMA InitLockInv == Init => LockInv
<1> SUFFICES ASSUME Init PROVE LockInv
  OBVIOUS
<1>1. TypeOK
  BY DEF Init, TypeOK, Labels, Empty
<1>2. CallShape
  BY DEF Init, CallShape, Out
<1>3. UnusedClean
  BY DEF Init, UnusedClean
<1>4. TokenKept
  BY NoneAssumption DEF Init, TokenKept, InUse
<1> QED  BY <1>1, <1>2, <1>3, <1>4 DEF LockInv

\* The three ways into a call, for what they have in common: flow p, which is
\* outside of a call and whose process lives, enters one that it may call.
Entering(p) == /\ p \in Flows /\ Out(p) /\ Pid(p) \notin dead
               /\ \E name \in Calls(p) : Enter(p, name)
               /\ signals' \in SUBSET signals
               /\ starts' \in {starts, starts + 1}
               /\ contended' \in {contended, TRUE}

LEMMA Entered ==
  ASSUME TypeOK, CallShape
  PROVE  /\ \A p \in Mains : SemOpen(p) => Entering(p)
         /\ \A c \in Clients : Handle(c) \/ Reconnect(c) => Entering(Handler(c))
<1>1. ASSUME NEW p \in Mains, SemOpen(p) PROVE Entering(p)
  <2>1. p \in Flows /\ Out(p) /\ Pid(p) \notin dead /\ \E name \in Calls(p) : Enter(p, name)
    BY <1>1, FlowShape DEF SemOpen, Out
  <2>2. contended' \in {contended, TRUE}
    BY <1>1 DEF SemOpen, TypeOK
  <2>3. signals' \in SUBSET signals /\ starts' \in {starts, starts + 1}
    BY <1>1 DEF SemOpen
  <2> QED  BY <2>1, <2>2, <2>3 DEF Entering
<1>2. ASSUME NEW c \in Clients, Handle(c) PROVE Entering(Handler(c))
  <2>1. Handler(c) \in Flows /\ Handler(c) \in Handlers /\ Pid(Handler(c)) = c
    BY FlowShape
  <2>2. "ShmGetPidData" \in Calls(Handler(c))
    BY <2>1 DEF Calls
  <2>3. c \notin dead
    BY <1>2 DEF Handle, TypeOK
  <2>4. Enter(Handler(c), "ShmGetPidData") /\ pc[Handler(c)] = "idle"
    BY <1>2 DEF Handle
  <2>5. signals' \in SUBSET signals /\ starts' = starts /\ contended' = contended
    BY <1>2 DEF Handle
  <2> QED  BY <2>1, <2>2, <2>3, <2>4, <2>5 DEF Entering, Out
<1>3. ASSUME NEW c \in Clients, Reconnect(c) PROVE Entering(Handler(c))
  <2>1. Handler(c) \in Flows /\ Handler(c) \in Handlers /\ Pid(Handler(c)) = c
    BY FlowShape
  <2>2. "ShmStartClient" \in Calls(Handler(c))
    BY <2>1 DEF Calls
  <2>3. Enter(Handler(c), "ShmStartClient") /\ pc[Handler(c)] = "between"
    BY <1>3 DEF Reconnect
  <2>4. c \notin dead
    BY <2>1, <2>3 DEF CallShape
  <2>5. signals' = signals /\ starts' = starts /\ contended' = contended
    BY <1>3 DEF Reconnect, news
  <2> QED  BY <2>1, <2>2, <2>3, <2>4, <2>5 DEF Entering, Out
<1> QED  BY <1>1, <1>2, <1>3

\* The one step of Enter, field by field.
LEMMA EnterIs ==
  ASSUME TypeOK, CallShape, NEW p, Entering(p)
  PROVE  /\ p \in Flows /\ Out(p) /\ Pid(p) \notin dead /\ lock[p] = None
         /\ \E name \in Calls(p) : call' = [call EXCEPT ![p] = name]
         /\ pc' = [pc EXCEPT ![p] = "sem_wait"]
         /\ lock' = [lock EXCEPT ![p] = lockName']
         /\ lockName' \in Ids
         /\ lockName # None => lockName' = lockName /\ count' = count
         /\ lockName = None => lockName' = NewSem /\ count' = [count EXCEPT ![NewSem] = 1]
         /\ UNCHANGED <<shm, who, extra>>
<1>1. p \in Flows /\ Out(p) /\ Pid(p) \notin dead /\ lock[p] = None
  BY DEF Entering, CallShape
<1>2. PICK name \in Calls(p) : Enter(p, name)
  BY DEF Entering
<1>3. NewSem \in Ids
  BY <1>1, NewObjects
<1>4. lockName' \in Ids /\ lock' = [lock EXCEPT ![p] = lockName']
  BY <1>2, <1>3 DEF Enter, TypeOK
<1> QED  BY <1>1, <1>2, <1>3, <1>4 DEF Enter, Goto

\* Each call opens, maps, unmaps and closes in its order.
LEMMA CallShapeStep ==
  ASSUME TypeOK, CallShape, [Next]_vars
  PROVE  CallShape'
<1>1. ASSUME NEW p, Entering(p) PROVE CallShape'
  <2>1. PICK name \in Calls(p) : call' = [call EXCEPT ![p] = name]
    BY <1>1, EnterIs
  <2>2. UNCHANGED <<map, dead, cell>>
    BY <1>1, EnterIs DEF shm, who
  <2>3. SUFFICES ASSUME NEW q \in Flows
                 PROVE  /\ Out(q)' <=> lock'[q] = None
                        /\ Out(q)' => call'[q] = None
                        /\ pc'[q] = "between" => q \in Handlers
                        /\ pc'[q] # "idle" => Pid(q) \notin dead
                        /\ pc'[q] \in {"idle", "between", "sem_wait", "shm_open", "sem_unlink"}
                              => map[q] = None
                        /\ pc'[q] \in {"work", "write", "scan"} => map[q] \in Ids
                        /\ pc'[q] = "write" => call'[q] = "ShmStartClient"
                        /\ pc'[q] = "scan" => call'[q] = "ShmEndClient"
                        /\ pc'[q] = "write" => cell[q] \in Cells
                        /\ pc'[q] = "work" /\ call'[q] = "ShmStartServer" => cell[q] \in Cells
    BY <2>2 DEF CallShape
  <2>4. CASE q = p
    <3>1. pc'[q] = "sem_wait" /\ lock'[q] \in Ids
      BY <1>1, <2>4, EnterIs DEF TypeOK
    <3>2. map[q] = None
      BY <1>1, <2>4, EnterIs DEF CallShape, Out
    <3>3. Pid(q) \notin dead
      BY <1>1, <2>4, EnterIs
    <3> QED  BY <3>1, <3>2, <3>3, NoneAssumption DEF Out
  <2>5. CASE q # p
    <3>1. pc'[q] = pc[q] /\ lock'[q] = lock[q] /\ call'[q] = call[q]
      BY <1>1, <2>1, <2>5, EnterIs DEF TypeOK
    <3> QED  BY <3>1 DEF CallShape, Out
  <2> QED  BY <2>4, <2>5
<1>2. ASSUME NEW p \in Flows, SemWait(p) PROVE CallShape'
  BY <1>2, NoneAssumption DEF SemWait, Goto, shm, who, CallShape, Out, TypeOK
<1>3. ASSUME NEW p \in Flows, SemInterrupted(p) PROVE CallShape'
  BY <1>3, NoneAssumption DEF SemInterrupted, Goto, sem, shm, who, CallShape, Out, TypeOK
<1>4. ASSUME NEW p \in Flows, ShmOpen(p) PROVE CallShape'
  <2>1. map' = [map EXCEPT ![p] = shmName'] /\ shmName' \in Ids
    BY <1>4, NewObjects DEF ShmOpen, TypeOK
  <2>2. 0 \in Cells
    BY TableAssumption DEF Cells
  <2>3. call[p] = "ShmStartServer" => cell'[p] \in Cells
    BY <1>4, <2>2 DEF ShmOpen, TypeOK
  <2>4. \A q \in Flows \ {p} : cell'[q] = cell[q] /\ map'[q] = map[q] /\ pc'[q] = pc[q]
    BY <1>4, <2>1 DEF ShmOpen, Goto, TypeOK
  <2>5. pc'[p] = "work" /\ map'[p] \in Ids /\ pc[p] = "shm_open"
    BY <1>4, <2>1 DEF ShmOpen, Goto, TypeOK
  <2>6. UNCHANGED <<call, lock, dead>>
    BY <1>4 DEF ShmOpen, sem, who
  <2> QED  BY <2>3, <2>4, <2>5, <2>6, NoneAssumption DEF CallShape, Out
<1>5. ASSUME NEW p \in Flows, FindCell(p) PROVE CallShape'
  BY <1>5, NoneAssumption DEF FindCell, Works, Goto, sem, CallShape, Out, TypeOK
<1>6. ASSUME NEW p \in Flows, WriteCell(p) PROVE CallShape'
  BY <1>6, NoneAssumption DEF WriteCell, Goto, sem, CallShape, Out, TypeOK
<1>7. ASSUME NEW p \in Flows, ClearCell(p) PROVE CallShape'
  BY <1>7, NoneAssumption DEF ClearCell, Works, Goto, sem, who, CallShape, Out, TypeOK
<1>8. ASSUME NEW p \in Flows, ScanAndUnlink(p) PROVE CallShape'
  BY <1>8, NoneAssumption DEF ScanAndUnlink, Goto, sem, who, CallShape, Out, TypeOK
<1>9. ASSUME NEW p \in Flows, Announce(p) PROVE CallShape'
  BY <1>9, NoneAssumption DEF Announce, Works, Goto, sem, who, CallShape, Out, TypeOK
<1>10. ASSUME NEW p \in Flows, LookUp(p) PROVE CallShape'
  BY <1>10, NoneAssumption DEF LookUp, Works, Goto, sem, shm, who, CallShape, Out, TypeOK
<1>11. ASSUME NEW p \in Flows, SemPost(p) PROVE CallShape'
  BY <1>11, NoneAssumption DEF SemPost, Unmap, Goto, who, CallShape, Out, TypeOK
<1>12. ASSUME NEW p \in Flows, SemUnlink(p) PROVE CallShape'
  <2>1. call[p] = "ShmGetPidData" => p \in Handlers
    BY CallsAre, NoneAssumption DEF TypeOK, CallNames
  <2> QED  BY <1>12, <2>1, NoneAssumption DEF SemUnlink, Goto, shm, CallShape, Out, TypeOK
<1>13. ASSUME NEW c \in Clients, Die(c) PROVE CallShape'
  <2>1. \A q \in Flows : Pid(q) = c => pc[q] = "idle"
    BY <1>13, FlowShape DEF Die
  <2> QED  BY <1>13, <2>1 DEF Die, sem, shm, CallShape, Out
<1>14. CASE UNCHANGED vars
  BY <1>14 DEF vars, sem, shm, who, CallShape, Out
<1> QED
  BY <1>1, <1>2, <1>3, <1>4, <1>5, <1>6, <1>7, <1>8,
     <1>9, <1>10, <1>11, <1>12, <1>13, <1>14, Entered
  DEF Next, Progress

\* The calls stay among those that a flow may be in.
CallsTyped == /\ call \in [Flows -> CallNames \cup {None}]
              /\ \A p \in Flows : call[p] \in Calls(p) \cup {None}

LEMMA SameCalls ==
  ASSUME CallsTyped, call' = call, started \subseteq started'
  PROVE  CallsTyped'
BY DEF CallsTyped, Calls

LEMMA CallsStep ==
  ASSUME TypeOK, CallShape, [Next]_vars
  PROVE  CallsTyped'
<1>0. CallsTyped
  BY DEF TypeOK, CallsTyped
<1>1. ASSUME NEW p, Entering(p) PROVE CallsTyped'
  <2>1. PICK name \in Calls(p) : call' = [call EXCEPT ![p] = name]
    BY <1>1, EnterIs
  <2>2. p \in Flows /\ started' = started
    BY <1>1, EnterIs DEF who
  <2> QED  BY <1>0, <2>1, <2>2, CallsAre DEF CallsTyped, Calls
<1>2. ASSUME NEW p \in Flows, SemUnlink(p) PROVE CallsTyped'
  <2>1. call' = [call EXCEPT ![p] = None]
    BY <1>2 DEF SemUnlink
  <2>2. call[p] # "ShmEndClient" => started \subseteq started'
    BY <1>2 DEF SemUnlink
  <2>6. call[p] = "ShmEndClient" => started' = started \ {Pid(p)}
    BY <1>2 DEF SemUnlink
  <2>3. SUFFICES ASSUME NEW q \in Flows, q # p, call[q] = "ShmEndClient"
                 PROVE  Pid(q) \in started'
    <3>1. call' \in [Flows -> CallNames \cup {None}]
      BY <1>0, <2>1 DEF CallsTyped
    <3>2. \A q \in Flows : call'[q] \in Calls(q)' \cup {None}
      BY <1>0, <2>1, <2>3 DEF CallsTyped, Calls
    <3> QED  BY <3>1, <3>2 DEF CallsTyped
  <2>4. q \in Mains /\ Pid(q) \in started
    BY <1>0, <2>3, CallsAre, NoneAssumption DEF CallsTyped, CallNames
  <2>5. call[p] = "ShmEndClient" => p \in Mains
    BY <1>0, CallsAre, NoneAssumption DEF CallsTyped, CallNames
  <2> QED  BY <2>2, <2>3, <2>4, <2>5, <2>6, FlowShape
<1>3. ASSUME NEW c \in Clients, Die(c) PROVE CallsTyped'
  <2>1. \A q \in Flows : Pid(q) = c => call[q] = None
    BY <1>3, FlowShape DEF Die, CallShape, Out
  <2>2. call' = call /\ started' = started \ {c}
    BY <1>3 DEF Die
  <2> QED  BY <1>0, <2>1, <2>2 DEF CallsTyped, Calls
<1>4. ASSUME call' = call, started' = started PROVE CallsTyped'
  BY <1>0, <1>4, SameCalls
<1>5. ASSUME NEW p \in Flows, Progress(p) \/ SemInterrupted(p), ~SemUnlink(p)
      PROVE  call' = call /\ started' = started
  BY <1>5 DEF Progress, SemWait, SemInterrupted, ShmOpen, FindCell, WriteCell, ClearCell,
     ScanAndUnlink, Announce, LookUp, SemPost, who
<1>6. CASE UNCHANGED vars
  BY <1>4, <1>6 DEF vars, who
<1> QED  BY <1>1, <1>2, <1>3, <1>4, <1>5, <1>6, Entered DEF Next

\* Types are kept.
OthersTyped == /\ pc \in [Flows -> Labels]
               /\ lockName \in Ids \cup {None}
               /\ count \in [Ids -> Nat]
               /\ lock \in [Flows -> Ids \cup {None}]
               /\ shmName \in Ids \cup {None}
               /\ table \in [Ids -> [Cells -> Clients \cup {None}]]
               /\ map \in [Flows -> Ids \cup {None}]
               /\ cell \in [Flows -> Cells \cup {None}]
               /\ started \in SUBSET Clients
               /\ member \in SUBSET Clients
               /\ dead \in SUBSET Clients
               /\ signals \in SUBSET Clients
               /\ dead \cap (started \cup member \cup signals) = {}
               /\ starts \in Nat
               /\ extra \in [Ids -> Nat]
               /\ contended \in BOOLEAN

LEMMA TypeStep ==
  ASSUME TypeOK, CallShape, [Next]_vars
  PROVE  TypeOK'
<1> SUFFICES OthersTyped'
  BY CallsStep DEF CallsTyped, OthersTyped, TypeOK
<1>0. OthersTyped
  BY DEF OthersTyped, TypeOK
<1>1. ASSUME NEW p, Entering(p) PROVE OthersTyped'
  <2>1. count' \in [Ids -> Nat]
    BY <1>0, <1>1, EnterIs DEF OthersTyped
  <2>2. pc' \in [Flows -> Labels] /\ lockName' \in Ids /\ lock' \in [Flows -> Ids \cup {None}]
    BY <1>0, <1>1, EnterIs DEF OthersTyped, Labels
  <2>3. UNCHANGED <<shm, who, extra>>
    BY <1>1, EnterIs
  <2>4. signals' \in SUBSET signals /\ contended' \in BOOLEAN
    BY <1>0, <1>1 DEF Entering, OthersTyped
  <2>5. starts' \in Nat
    <3>1. starts \in Nat /\ starts' \in {starts, starts + 1}
      BY <1>0, <1>1 DEF Entering, OthersTyped
    <3> QED  BY <3>1
  <2> QED  BY <1>0, <2>1, <2>2, <2>3, <2>4, <2>5 DEF shm, who, OthersTyped
<1>2. ASSUME NEW p \in Flows, SemWait(p) PROVE OthersTyped'
  <2>1. lock[p] \in Ids
    BY <1>2 DEF SemWait, CallShape, Out, TypeOK
  <2>2. count' \in [Ids -> Nat]
    BY <1>2, <2>1 DEF SemWait, TypeOK
  <2>3. pc' \in [Flows -> Labels]
    BY <1>2 DEF SemWait, Goto, TypeOK, Labels
  <2> QED  BY <1>0, <1>2, <2>2, <2>3 DEF SemWait, shm, who, news, OthersTyped
<1>3. ASSUME NEW p \in Flows, SemInterrupted(p) PROVE OthersTyped'
  <2>0. lock[p] \in Ids
    BY <1>3 DEF SemInterrupted, CallShape, Out, TypeOK
  <2>1. extra' \in [Ids -> Nat]
    BY <1>3, <2>0 DEF SemInterrupted, TypeOK
  <2>2. pc' \in [Flows -> Labels]
    BY <1>3 DEF SemInterrupted, Goto, TypeOK, Labels
  <2> QED  BY <1>0, <1>3, <2>1, <2>2 DEF SemInterrupted, sem, shm, who, news, OthersTyped
<1>4. ASSUME NEW p \in Flows, ShmOpen(p) PROVE OthersTyped'
  <2>1. map' \in [Flows -> Ids \cup {None}] /\ shmName' \in Ids \cup {None}
    BY <1>4, NewObjects DEF ShmOpen, TypeOK
  <2>2. 0 \in Cells
    BY TableAssumption DEF Cells
  <2>3. cell' \in [Flows -> Cells \cup {None}]
    BY <1>4, <2>2 DEF ShmOpen, TypeOK
  <2>4. pc' \in [Flows -> Labels]
    BY <1>4 DEF ShmOpen, Goto, TypeOK, Labels
  <2> QED  BY <1>0, <1>4, <2>1, <2>3, <2>4 DEF ShmOpen, sem, who, news, OthersTyped
<1>5. ASSUME NEW p \in Flows, FindCell(p) PROVE OthersTyped'
  <2>1. Pid(p) \in Clients /\ Pid(p) \notin dead
    BY <1>5, CallsAre, NoneAssumption DEF FindCell, Works, TypeOK, CallNames, CallShape
  <2>2. member' \in SUBSET Clients /\ dead \cap (started \cup member' \cup signals) = {}
    BY <1>5, <2>1 DEF FindCell, TypeOK
  <2>3. cell' \in [Flows -> Cells \cup {None}]
    BY <1>5 DEF FindCell, TypeOK
  <2>4. pc' \in [Flows -> Labels]
    BY <1>5 DEF FindCell, Goto, TypeOK, Labels
  <2> QED  BY <1>0, <1>5, <2>2, <2>3, <2>4 DEF FindCell, sem, news, OthersTyped
<1>6. ASSUME NEW p \in Flows, WriteCell(p) PROVE OthersTyped'
  <2>1. Pid(p) \in Clients /\ Pid(p) \notin dead /\ map[p] \in Ids
    BY <1>6, CallsAre, NoneAssumption DEF WriteCell, TypeOK, CallNames, CallShape
  <2>2. member' \in SUBSET Clients /\ dead \cap (started \cup member' \cup signals) = {}
    BY <1>6, <2>1 DEF WriteCell, TypeOK
  <2>3. table' \in [Ids -> [Cells -> Clients \cup {None}]]
    BY <1>6, <2>1 DEF WriteCell, TypeOK
  <2>4. pc' \in [Flows -> Labels] /\ cell' \in [Flows -> Cells \cup {None}]
    BY <1>6 DEF WriteCell, Goto, TypeOK, Labels
  <2> QED  BY <1>0, <1>6, <2>2, <2>3, <2>4 DEF WriteCell, sem, news, OthersTyped
<1>7. ASSUME NEW p \in Flows, ClearCell(p) PROVE OthersTyped'
  <2>1. table' \in [Ids -> [Cells -> Clients \cup {None}]]
    BY <1>7 DEF ClearCell, TypeOK
  <2>2. pc' \in [Flows -> Labels]
    BY <1>7 DEF ClearCell, Goto, TypeOK, Labels
  <2> QED  BY <1>0, <1>7, <2>1, <2>2 DEF ClearCell, sem, who, news, OthersTyped
<1>8. ASSUME NEW p \in Flows, ScanAndUnlink(p) PROVE OthersTyped'
  BY <1>0, <1>8 DEF ScanAndUnlink, Goto, sem, who, news, OthersTyped, Labels
<1>9. ASSUME NEW p \in Flows, Announce(p) PROVE OthersTyped'
  <2>1. map[p] \in Ids /\ cell[p] \in Cells
    BY <1>9 DEF Announce, Works, CallShape
  <2>2. table[map[p]][cell[p]] \in Clients \cup {None}
    BY <2>1 DEF TypeOK
  <2>3. signals' \in SUBSET Clients /\ dead \cap signals' = {}
    BY <1>9, <2>2 DEF Announce, TypeOK
  <2>4. table' \in [Ids -> [Cells -> Clients \cup {None}]]
    BY <1>9, <2>2 DEF Announce, TypeOK
  <2>5. pc' \in [Flows -> Labels] /\ cell' \in [Flows -> Cells \cup {None}]
    BY <1>9 DEF Announce, Goto, TypeOK, Labels
  <2> QED  BY <1>0, <1>9, <2>3, <2>4, <2>5 DEF Announce, sem, who, OthersTyped
<1>10. ASSUME NEW p \in Flows, LookUp(p) PROVE OthersTyped'
  BY <1>0, <1>10 DEF LookUp, Goto, sem, shm, who, news, OthersTyped, Labels
<1>11. ASSUME NEW p \in Flows, SemPost(p) PROVE OthersTyped'
  <2>0. lock[p] \in Ids
    BY <1>11 DEF SemPost, CallShape, Out, TypeOK
  <2>1. count' \in [Ids -> Nat]
    BY <1>11, <2>0 DEF SemPost, TypeOK
  <2>2. table' \in [Ids -> [Cells -> Clients \cup {None}]]
    BY <1>11 DEF SemPost, Unmap, TypeOK, Empty
  <2>3. pc' \in [Flows -> Labels] /\ map' \in [Flows -> Ids \cup {None}]
    BY <1>11 DEF SemPost, Unmap, Goto, TypeOK, Labels
  <2> QED  BY <1>0, <1>11, <2>1, <2>2, <2>3 DEF SemPost, who, news, OthersTyped
<1>12. ASSUME NEW p \in Flows, SemUnlink(p) PROVE OthersTyped'
  <2>1. Pid(p) \notin dead
    BY <1>12 DEF SemUnlink, CallShape
  <2>2. call[p] = "ShmStartClient" => Pid(p) \in Clients
    BY CallsAre, NoneAssumption DEF TypeOK, CallNames
  <2>3. /\ started' \in SUBSET Clients /\ member' \in SUBSET Clients
        /\ dead \cap (started' \cup member' \cup signals) = {}
    BY <1>12, <2>1, <2>2 DEF SemUnlink, TypeOK
  <2>4. count' \in [Ids -> Nat] /\ extra' \in [Ids -> Nat]
    BY <1>12 DEF SemUnlink, TypeOK
  <2>5. /\ pc' \in [Flows -> Labels] /\ lock' \in [Flows -> Ids \cup {None}]
        /\ lockName' = None
    BY <1>12 DEF SemUnlink, Goto, TypeOK, Labels
  <2> QED  BY <1>0, <1>12, <2>3, <2>4, <2>5 DEF SemUnlink, shm, news, OthersTyped
<1>13. ASSUME NEW c \in Clients, Die(c) PROVE OthersTyped'
  BY <1>0, <1>13 DEF Die, sem, shm, OthersTyped
<1>14. CASE UNCHANGED vars
  BY <1>0, <1>14 DEF vars, sem, shm, who, news, OthersTyped
<1> QED
  BY <1>1, <1>2, <1>3, <1>4, <1>5, <1>6, <1>7, <1>8,
     <1>9, <1>10, <1>11, <1>12, <1>13, <1>14, Entered
  DEF Next, Progress

\* The identity of an object that nobody uses is clean.
LEMMA UnusedStep ==
  ASSUME TypeOK, CallShape, UnusedClean, [Next]_vars
  PROVE  UnusedClean'
<1>1. ASSUME NEW p, Entering(p) PROVE UnusedClean'
  <2> SUFFICES ASSUME NEW k \in Ids, InUse(k) PROVE InUse(k)'
    BY <1>1, EnterIs DEF UnusedClean
  <2>1. lock[p] = None /\ (lockName = None \/ lockName' = lockName)
    BY <1>1, EnterIs
  <2>2. \A q \in Flows \ {p} : lock'[q] = lock[q]
    BY <1>1, EnterIs DEF TypeOK
  <2> QED  BY <2>1, <2>2, NoneAssumption DEF InUse
<1>2. ASSUME NEW p \in Flows, SemInterrupted(p) PROVE UnusedClean'
  BY <1>2 DEF SemInterrupted, sem, UnusedClean, InUse, TypeOK, CallShape, Out
<1>3. ASSUME NEW p \in Flows, SemUnlink(p) PROVE UnusedClean'
  <2> SUFFICES ASSUME NEW k \in Ids, ~InUse(k)' PROVE extra'[k] = 0
    BY DEF UnusedClean
  <2>1. OnlyUser(p, lock, k)
    BY <1>3 DEF SemUnlink, InUse, OnlyUser, TypeOK
  <2> QED  BY <1>3, <2>1 DEF SemUnlink
<1>4. ASSUME NEW p \in Flows,
             \/ SemWait(p) \/ ShmOpen(p) \/ FindCell(p) \/ WriteCell(p)
             \/ ClearCell(p) \/ ScanAndUnlink(p) \/ Announce(p) \/ LookUp(p)
             \/ SemPost(p)
      PROVE UnusedClean'
  <2>1. UNCHANGED <<lockName, lock, extra>>
    BY <1>4 DEF SemWait, ShmOpen, FindCell, WriteCell, ClearCell, ScanAndUnlink,
       Announce, LookUp, SemPost, sem
  <2> QED  BY <2>1 DEF UnusedClean, InUse
<1>5. ASSUME NEW p \in Clients, Die(p) PROVE UnusedClean'
  BY <1>5 DEF Die, sem, UnusedClean, InUse
<1>6. CASE UNCHANGED vars
  BY <1>6 DEF vars, sem, UnusedClean, InUse
<1> QED  BY <1>1, <1>2, <1>3, <1>4, <1>5, <1>6, Entered DEF Next, Progress

\* The holders of a semaphore are finitely many, and their number changes by
\* the one that comes or goes.
LEMMA HoldersCount ==
  ASSUME NEW k, NEW p
  PROVE  /\ Cardinality(Holders(k)) \in Nat
         /\ p \notin Holders(k) =>
               Cardinality(Holders(k) \cup {p}) = Cardinality(Holders(k)) + 1
         /\ p \in Holders(k) =>
               Cardinality(Holders(k) \ {p}) = Cardinality(Holders(k)) - 1
<1>1. IsFiniteSet(Holders(k))
  BY FlowsFinite, FS_Subset DEF Holders
<1> QED  BY <1>1, FS_CardinalityType, FS_AddElement, FS_RemoveElement

\* A step that leaves the semaphores and who holds them alone keeps the tokens.
LEMMA SameHolders ==
  ASSUME TokenKept, UNCHANGED <<sem, extra>>, \A k \in Ids : Holders(k)' = Holders(k)
  PROVE  TokenKept'
  BY DEF TokenKept, InUse, sem

\* The token of a semaphore is neither lost nor doubled.
LEMMA TokenStep ==
  ASSUME TypeOK, CallShape, UnusedClean, TokenKept, [Next]_vars
  PROVE  TokenKept'
<1> USE DEF TokenKept
<1>1. ASSUME NEW p, Entering(p) PROVE TokenKept'
  <2> SUFFICES ASSUME NEW k \in Ids, InUse(k)'
               PROVE  count'[k] + Cardinality(Holders(k)') = 1 + extra'[k]
    OBVIOUS
  <2>1. p \in Flows /\ lock[p] = None /\ pc[p] \in {"idle", "between"}
    BY <1>1, EnterIs DEF Out
  <2>2. pc' = [pc EXCEPT ![p] = "sem_wait"] /\ extra' = extra
    BY <1>1, EnterIs
  <2>3. \A q \in Flows \ {p} : lock'[q] = lock[q] /\ pc'[q] = pc[q]
    <3>1. lock' = [lock EXCEPT ![p] = lockName']
      BY <1>1, EnterIs
    <3> QED  BY <2>2, <3>1 DEF TypeOK
  <2>4. pc'[p] = "sem_wait"
    BY <2>1, <2>2 DEF TypeOK
  <2>5. Holders(k)' = Holders(k)
    BY <2>1, <2>3, <2>4 DEF Holders, Inside, Posting
  <2>6. CASE InUse(k)
    <3>1. lockName = None => NewSem # k
      BY <2>1, <2>6, NewObjects, NoneAssumption DEF Out, InUse
    <3>2. count'[k] = count[k]
      BY <1>1, <3>1, EnterIs DEF TypeOK
    <3> QED  BY <2>2, <2>5, <2>6, <3>2
  <2>7. CASE ~InUse(k)
    <3>1. k = NewSem /\ lockName = None
      BY <1>1, <2>3, <2>7, NoneAssumption, EnterIs DEF InUse, TypeOK
    <3>2. count'[k] = 1
      BY <1>1, <3>1, EnterIs DEF TypeOK
    <3>3. Holders(k) = {}
      BY <2>7 DEF Holders, InUse
    <3>4. extra[k] = 0
      BY <2>7 DEF UnusedClean
    <3> QED  BY <2>2, <2>5, <3>2, <3>3, <3>4, FS_EmptySet
  <2> QED  BY <2>6, <2>7
<1>2. ASSUME NEW p \in Flows, SemWait(p) PROVE TokenKept'
  <2> SUFFICES ASSUME NEW k \in Ids, InUse(k)'
               PROVE  count'[k] + Cardinality(Holders(k)') = 1 + extra'[k]
    OBVIOUS
  <2>1. /\ pc[p] = "sem_wait" /\ pc' = [pc EXCEPT ![p] = "shm_open"]
        /\ count[lock[p]] > 0 /\ count' = [count EXCEPT ![lock[p]] = @ - 1]
        /\ UNCHANGED <<lockName, lock, extra>>
    BY <1>2 DEF SemWait, Goto
  <2>2. /\ count[k] \in Nat /\ extra[k] \in Nat
        /\ count[k] + Cardinality(Holders(k)) = 1 + extra[k]
    BY <2>1 DEF InUse, TypeOK
  <2>3. CASE lock[p] = k
    <3>1. Holders(k)' = Holders(k) \cup {p} /\ p \notin Holders(k)
      BY <2>1, <2>3 DEF Holders, Inside, Posting, TypeOK
    <3>2. count'[k] = count[k] - 1
      BY <2>1, <2>3 DEF TypeOK
    <3> QED  BY <2>1, <2>2, <3>1, <3>2, HoldersCount
  <2>4. CASE lock[p] # k
    <3>1. Holders(k)' = Holders(k)
      BY <2>1, <2>4 DEF Holders, Inside, Posting, TypeOK
    <3>2. count'[k] = count[k]
      BY <2>1, <2>4 DEF TypeOK
    <3> QED  BY <2>1, <2>2, <3>1, <3>2
  <2> QED  BY <2>3, <2>4
<1>3. ASSUME NEW p \in Flows, SemInterrupted(p) PROVE TokenKept'
  <2> SUFFICES ASSUME NEW k \in Ids, InUse(k)'
               PROVE  count'[k] + Cardinality(Holders(k)') = 1 + extra'[k]
    OBVIOUS
  <2>1. /\ pc[p] = "sem_wait" /\ pc' = [pc EXCEPT ![p] = "sem_post"]
        /\ extra' = [extra EXCEPT ![lock[p]] = @ + 1]
        /\ UNCHANGED <<lockName, lock, count>>
    BY <1>3 DEF SemInterrupted, Goto, sem
  <2>2. /\ count[k] \in Nat /\ extra[k] \in Nat
        /\ count[k] + Cardinality(Holders(k)) = 1 + extra[k]
    BY <2>1 DEF InUse, TypeOK
  <2>3. CASE lock[p] = k
    <3>1. Holders(k)' = Holders(k) \cup {p} /\ p \notin Holders(k)
      BY <2>1, <2>3 DEF Holders, Inside, Posting, TypeOK
    <3>2. extra'[k] = extra[k] + 1
      BY <2>1, <2>3 DEF TypeOK
    <3> QED  BY <2>1, <2>2, <3>1, <3>2, HoldersCount
  <2>4. CASE lock[p] # k
    <3>1. Holders(k)' = Holders(k)
      BY <2>1, <2>4 DEF Holders, Inside, Posting, TypeOK
    <3>2. extra'[k] = extra[k]
      BY <2>1, <2>4 DEF TypeOK
    <3> QED  BY <2>1, <2>2, <3>1, <3>2
  <2> QED  BY <2>3, <2>4
<1>4. ASSUME NEW p \in Flows, SemPost(p) PROVE TokenKept'
  <2> SUFFICES ASSUME NEW k \in Ids, InUse(k)'
               PROVE  count'[k] + Cardinality(Holders(k)') = 1 + extra'[k]
    OBVIOUS
  <2>1. /\ pc[p] = "sem_post" /\ pc' = [pc EXCEPT ![p] = "sem_unlink"]
        /\ count' = [count EXCEPT ![lock[p]] = @ + 1]
        /\ UNCHANGED <<lockName, lock, extra>>
    BY <1>4 DEF SemPost, Goto
  <2>2. /\ count[k] \in Nat /\ extra[k] \in Nat
        /\ count[k] + Cardinality(Holders(k)) = 1 + extra[k]
    BY <2>1 DEF InUse, TypeOK
  <2>3. CASE lock[p] = k
    <3>1. Holders(k)' = Holders(k) \ {p} /\ p \in Holders(k)
      BY <2>1, <2>3 DEF Holders, Inside, Posting, TypeOK
    <3>2. count'[k] = count[k] + 1
      BY <2>1, <2>3 DEF TypeOK
    <3> QED  BY <2>1, <2>2, <3>1, <3>2, HoldersCount
  <2>4. CASE lock[p] # k
    <3>1. Holders(k)' = Holders(k)
      BY <2>1, <2>4 DEF Holders, Inside, Posting, TypeOK
    <3>2. count'[k] = count[k]
      BY <2>1, <2>4 DEF TypeOK
    <3> QED  BY <2>1, <2>2, <3>1, <3>2
  <2> QED  BY <2>3, <2>4
<1>5. ASSUME NEW p \in Flows, SemUnlink(p) PROVE TokenKept'
  <2> SUFFICES ASSUME NEW k \in Ids, InUse(k)'
               PROVE  count'[k] + Cardinality(Holders(k)') = 1 + extra'[k]
    OBVIOUS
  <2>1. /\ pc[p] = "sem_unlink"
        /\ pc' = [pc EXCEPT ![p] = IF call[p] = "ShmGetPidData" THEN "between" ELSE "idle"]
        /\ lockName' = None /\ lock' = [lock EXCEPT ![p] = None]
    BY <1>5 DEF SemUnlink, Goto
  <2>2. PICK q \in Flows \ {p} : lock[q] = k
    BY <2>1, NoneAssumption DEF InUse, TypeOK
  <2>3. count'[k] = count[k] /\ extra'[k] = extra[k]
    BY <1>5, <2>2 DEF SemUnlink, OnlyUser
  <2>4. Holders(k)' = Holders(k)
    BY <2>1 DEF Holders, Inside, Posting, TypeOK
  <2> QED  BY <2>2, <2>3, <2>4 DEF InUse
<1>6. ASSUME NEW p \in Flows,
             \/ ShmOpen(p) \/ FindCell(p) \/ WriteCell(p) \/ ClearCell(p)
             \/ ScanAndUnlink(p) \/ Announce(p) \/ LookUp(p)
      PROVE TokenKept'
  <2>1. UNCHANGED <<sem, extra>>
    BY <1>6 DEF ShmOpen, FindCell, WriteCell, ClearCell, ScanAndUnlink, Announce, LookUp
  <2>2. /\ pc[p] \in {"shm_open", "work", "write", "scan"}
        /\ \E there \in {"work", "write", "scan", "sem_post"} : pc' = [pc EXCEPT ![p] = there]
    <3>1. CASE Announce(p)
      <4>1. pc[p] = "work"
        BY <3>1 DEF Announce, Works
      <4>2. pc' = [pc EXCEPT ![p] = "work"] \/ pc' = [pc EXCEPT ![p] = "sem_post"]
        BY <3>1, <4>1 DEF Announce, Goto, TypeOK
      <4> QED  BY <4>1, <4>2
    <3>2. CASE ~Announce(p)
      BY <1>6, <3>2 DEF ShmOpen, FindCell, WriteCell, ClearCell, ScanAndUnlink, LookUp, Works, Goto
    <3> QED  BY <3>1, <3>2
  <2>3. \A k \in Ids : Holders(k)' = Holders(k)
    BY <2>1, <2>2 DEF sem, Holders, Inside, Posting, TypeOK
  <2> QED  BY <2>1, <2>3, SameHolders
<1>7. ASSUME NEW p \in Clients, Die(p) PROVE TokenKept'
  BY <1>7, SameHolders DEF Die, sem, Holders, Inside, Posting
<1>8. CASE UNCHANGED vars
  BY <1>8, SameHolders DEF vars, sem, Holders, Inside, Posting
<1> QED  BY <1>1, <1>2, <1>3, <1>4, <1>5, <1>6, <1>7, <1>8, Entered DEF Next, Progress

\* The parts together are inductive.
LEMMA LockInvariant == Spec => []LockInv
<1>1. Init => LockInv
  BY InitLockInv
<1>2. LockInv /\ [Next]_vars => LockInv'
  BY TypeStep, CallShapeStep, UnusedStep, TokenStep DEF LockInv
<1> QED  BY <1>1, <1>2, PTL DEF Spec

\* Types of the lock and the table, for any number of clients and cells.
THEOREM TypesCorrect == Spec => []TypeOK
<1>1. LockInv => TypeOK
  BY DEF LockInv
<1> QED  BY <1>1, LockInvariant, PTL

\* However often the semaphore's name is given up while processes wait on the
\* semaphore or hold it, each semaphore keeps its one token and gains one for
\* each wait that a signal cut short (lock_pid_table, unlock_pid_table).
THEOREM TokenNeverLost == Spec => []TokenKept
<1>1. LockInv => TokenKept
  BY DEF LockInv
<1> QED  BY <1>1, LockInvariant, PTL

---------------------------------------------------------------------------
\* A semaphore without a token has been given to somebody.
LEMMA SomebodyHolds ==
  ASSUME TypeOK, CallShape, TokenKept, NEW p \in Flows, Blocked(p)
  PROVE  Holders(lock[p]) # {}
<1>1. lock[p] \in Ids /\ InUse(lock[p])
  BY DEF Blocked, CallShape, Out, TypeOK, InUse
<1>2. extra[lock[p]] \in Nat /\ Cardinality(Holders(lock[p])) = 1 + extra[lock[p]]
  <2>1. Cardinality(Holders(lock[p])) \in Nat
    BY HoldersCount
  <2> QED  BY <1>1, <2>1 DEF Blocked, TypeOK, TokenKept
<1> QED  BY <1>2, FS_EmptySet

\* A process that stands still although one of its flows has a token does so
\* in its handler, and the token is its main flow's.
LEMMA HeldBelow ==
  ASSUME TypeOK, NEW k, NEW q \in Holders(k), NEW p \in Flows,
         Pid(p) = Pid(q), Runs(p), Blocked(p)
  PROVE  /\ Pid(q) \in Clients
         /\ q = Main(Pid(q)) /\ p = Handler(Pid(q))
<1>1. q \in Flows /\ pc[q] \notin {"idle", "sem_wait"} /\ pc[p] = "sem_wait"
  BY DEF Holders, Inside, Posting, Blocked
<1>2. ~(q \in Handlers /\ p \in Mains)
  <2> SUFFICES ASSUME q \in Handlers, p \in Mains PROVE FALSE
    OBVIOUS
  <2>1. q = Handler(Pid(p)) /\ Pid(p) # Server
    BY FlowShape, ServerAssumption
  <2> QED  BY <1>1, <2>1 DEF Runs, HandlerIdle
<1> QED  BY <1>1, <1>2, FlowShape

\* For any number of clients: whoever waits on the table waits in the end for
\* somebody who can go on, or for handlers that wait for what their own main
\* flows hold (lock_pid_table, restart_server).
LEMMA ClosedWaitsHaveRing == TypeOK /\ CallShape /\ TokenKept => StuckOnlyInRing
<1> SUFFICES ASSUME TypeOK, CallShape, TokenKept,
                    NEW S, S \subseteq Clients \cup {Server}, S # {}, WaitInside(S)
             PROVE  \E R \in (SUBSET (S \cap Clients)) \ {{}} : Ring(R)
  <2>1. \A S \in (SUBSET (Clients \cup {Server})) \ {{}} :
            S \subseteq Clients \cup {Server} /\ S # {}
    OBVIOUS
  <2> QED  BY <2>1, Zenon DEF StuckOnlyInRing
<1> DEFINE Waits(c, p) == /\ Pid(p) = c /\ Runs(p) /\ Blocked(p)
                          /\ {Pid(q) : q \in Holders(lock[p])} \subseteq S
           R == {c \in S \cap Clients : Waits(c, Handler(c))}
<1>1. \A c \in S : \E p \in Flows : Waits(c, p)
  BY DEF WaitInside
<1>2. ASSUME NEW c \in S, NEW p \in Flows, Waits(c, p), NEW q \in Holders(lock[p])
      PROVE  Pid(q) \in R /\ q = Main(Pid(q))
  <2>1. Pid(q) \in S
    BY <1>2
  <2>2. PICK r \in Flows : Waits(Pid(q), r)
    BY <1>1, <2>1
  <2>3. Pid(q) \in Clients /\ q = Main(Pid(q)) /\ r = Handler(Pid(q))
    BY <2>2, HeldBelow
  <2> QED  BY <2>1, <2>2, <2>3
<1>3. R # {}
  <2>1. PICK c : c \in S
    OBVIOUS
  <2>2. PICK p \in Flows : Waits(c, p)
    BY <1>1, <2>1
  <2>3. Holders(lock[p]) # {}
    BY <2>2, SomebodyHolds
  <2>4. PICK q : q \in Holders(lock[p])
    BY <2>3
  <2>5. Pid(q) \in R
    BY <1>2, <2>1, <2>2, <2>4
  <2> QED  BY <2>5
<1>4. Ring(R)
  <2> SUFFICES ASSUME NEW c \in R
               PROVE  /\ Blocked(Handler(c))
                      /\ Holders(lock[Handler(c)]) \subseteq {Main(d) : d \in R}
    BY DEF Ring
  <2>1. Handler(c) \in Flows /\ Waits(c, Handler(c))
    BY FlowShape
  <2> QED  BY <1>2, <2>1
<1> QED  BY <1>3, <1>4

\* Processes that wait only for each other always contain such a ring: nobody
\* waits on a semaphore that has lost its name without somebody to post it.
THEOREM WaitsEndOrRing == Spec => []StuckOnlyInRing
<1>1. LockInv => StuckOnlyInRing
  BY ClosedWaitsHaveRing DEF LockInv
<1> QED  BY <1>1, LockInvariant, PTL

---------------------------------------------------------------------------
\* While no two processes have been in calls of their own at once, whoever
\* works has the memory that the name leads to, only a main flow writes, where
\* nobody else has written, ...
OneBusy == \A p, q \in Mains : pc[p] # "idle" /\ pc[q] # "idle" => p = q
MapsNamed == \A p \in Flows :
    pc[p] \in {"work", "write", "scan"} => map[p] = shmName
CellFree == \A p \in Flows :
    pc[p] = "write" => cell[p] \in Cells /\ table[map[p]][cell[p]] = None
HandlersRead == \A c \in Clients : pc[Handler(c)] # "write"
Maps == OneBusy /\ MapsNamed /\ CellFree /\ HandlersRead

\* ... a registered client is recorded until it clears its own cell, and so is
\* a signalled one, which is in no call until its handler is done.
Leaving(c) == /\ call[Main(c)] = "ShmEndClient"
              /\ pc[Main(c)] \in {"scan", "sem_post", "sem_unlink"}
Recorded(c) == shmName # None /\ c \in Pids(shmName)
MembersRecorded == \A c \in member : Recorded(c) \/ Leaving(c)
Called(c) == c \in signals \/ pc[Handler(c)] # "idle"
CalledRecorded == \A c \in Clients : Called(c) => pc[Main(c)] = "idle" /\ Recorded(c)
Records == MembersRecorded /\ CalledRecorded

SerialInv == ~contended => Maps /\ Records

\* What the steps of flow p inside of a call have in common, ...
StepOf(p) == /\ pc[p] # "idle" /\ dead' = dead
             /\ \A q \in Flows \ {p} : /\ pc'[q] = pc[q] /\ call'[q] = call[q]
                                       /\ map'[q] = map[q] /\ cell'[q] = cell[q]

LEMMA StepsOfFlows ==
  ASSUME TypeOK, NEW p \in Flows, SemInterrupted(p) \/ Progress(p)
  PROVE  StepOf(p) /\ contended' = contended
<1>1. CASE SemInterrupted(p) \/ SemWait(p)
  BY <1>1 DEF SemInterrupted, SemWait, Goto, shm, who, StepOf, TypeOK
<1>2. CASE ShmOpen(p) \/ FindCell(p) \/ WriteCell(p)
  BY <1>2 DEF ShmOpen, FindCell, WriteCell, Works, Goto, who, StepOf, TypeOK
<1>3. CASE ClearCell(p) \/ ScanAndUnlink(p) \/ LookUp(p)
  BY <1>3 DEF ClearCell, ScanAndUnlink, LookUp, Works, Goto, shm, who, StepOf, TypeOK
<1>4. CASE Announce(p)
  BY <1>4 DEF Announce, Works, Goto, who, StepOf, TypeOK
<1>5. CASE SemPost(p)
  BY <1>5 DEF SemPost, Unmap, Goto, who, StepOf, TypeOK
<1>6. CASE SemUnlink(p)
  BY <1>6 DEF SemUnlink, Goto, shm, StepOf, TypeOK
<1> QED  BY <1>1, <1>2, <1>3, <1>4, <1>5, <1>6 DEF Progress

\* ... and what such a step owes to the two parts.
SameTable == shmName' = shmName /\ (shmName # None => table'[shmName] = table[shmName])

KeepsMaps(p) ==
    /\ shmName' = shmName \/ \A q \in Flows \ {p} : pc[q] \notin {"work", "write", "scan"}
    /\ p \in Handlers => pc'[p] # "write" /\ SameTable
    /\ pc'[p] \in {"work", "write", "scan"} => map'[p] = shmName'
    /\ pc'[p] = "write" => cell'[p] \in Cells /\ table'[map'[p]][cell'[p]] = None

LEMMA MapsKept ==
  ASSUME TypeOK, CallShape, Maps, NEW p \in Flows, StepOf(p), KeepsMaps(p)
  PROVE  Maps'
<1>1. OneBusy'
  BY FlowShape DEF OneBusy, Maps, StepOf
<1>2. HandlersRead'
  BY FlowShape DEF HandlersRead, Maps, StepOf, KeepsMaps
<1>3. MapsNamed'
  BY DEF MapsNamed, Maps, StepOf, KeepsMaps
<1>4. CellFree'
  <2> SUFFICES ASSUME NEW q \in Flows, q # p, pc[q] = "write"
               PROVE  cell[q] \in Cells /\ table'[map[q]][cell[q]] = None
    BY DEF CellFree, StepOf, KeepsMaps
  <2>1. cell[q] \in Cells /\ table[map[q]][cell[q]] = None /\ map[q] = shmName
    BY DEF Maps, CellFree, MapsNamed
  <2>2. q \in Mains
    BY FlowShape DEF Maps, HandlersRead
  <2>3. p \in Handlers
    BY <2>2, FlowShape DEF Maps, OneBusy, StepOf
  <2>4. map[q] \in Ids
    BY DEF CallShape
  <2>5. table'[shmName] = table[shmName]
    BY <2>1, <2>3, <2>4, NoneAssumption DEF KeepsMaps, SameTable
  <2> QED  BY <2>1, <2>5
<1> QED  BY <1>1, <1>2, <1>3, <1>4 DEF Maps

KeepsRecords(p) ==
    /\ member' \subseteq member \cup {Pid(p)}
    /\ \A d \in signals' \ signals : Recorded(d) /\ pc[Main(d)] = "idle"
    /\ \A d \in Clients : p = Main(d) /\ d \in member' => Recorded(d)' \/ Leaving(d)'
    /\ \A d \in Clients \ dead : p # Main(d) /\ Recorded(d) => Recorded(d)'

LEMMA RecordsKept ==
  ASSUME TypeOK, CallShape, TypeOK', Records, NEW p \in Flows, StepOf(p), KeepsRecords(p)
  PROVE  Records'
<1>1. ASSUME NEW d \in Clients PROVE Main(d) \in Flows /\ Handler(d) \in Flows
  BY FlowShape
<1>2. ASSUME NEW d \in Clients, Called(d) PROVE d \notin dead /\ p # Main(d) /\ Recorded(d)
  <2>1. d \notin dead
    BY <1>2, FlowShape DEF Called, CallShape, TypeOK
  <2> QED  BY <1>2, <2>1 DEF Records, CalledRecorded, StepOf
<1>3. MembersRecorded'
  <2> SUFFICES ASSUME NEW d \in member', p # Main(d) PROVE Recorded(d)' \/ Leaving(d)'
    BY DEF MembersRecorded, KeepsRecords, TypeOK
  <2>1. d \in Clients
    BY DEF TypeOK
  <2>2. CASE d \in member
    <3>1. d \notin dead /\ (Recorded(d) \/ Leaving(d))
      BY <2>2 DEF TypeOK, Records, MembersRecorded
    <3>2. Leaving(d) => Leaving(d)'
      BY <1>1, <2>1 DEF Leaving, StepOf
    <3> QED  BY <2>1, <3>1, <3>2 DEF KeepsRecords
  <2>3. CASE d \notin member
    <3>1. p = Handler(d)
      BY <2>3, FlowShape DEF KeepsRecords
    <3>2. Called(d)
      BY <3>1 DEF Called, StepOf
    <3> QED  BY <1>2, <2>1, <3>2 DEF KeepsRecords
  <2> QED  BY <2>2, <2>3
<1>4. CalledRecorded'
  <2> SUFFICES ASSUME NEW d \in Clients, Called(d)'
               PROVE  pc'[Main(d)] = "idle" /\ Recorded(d)'
    BY DEF CalledRecorded
  <2>1. CASE Called(d)
    <3>1. pc[Main(d)] = "idle"
      BY <2>1 DEF Records, CalledRecorded
    <3> QED  BY <1>1, <1>2, <2>1, <3>1 DEF KeepsRecords, StepOf
  <2>2. CASE ~Called(d)
    <3>1. p # Handler(d) /\ pc'[Handler(d)] = pc[Handler(d)]
      BY <1>1, <2>2 DEF Called, StepOf
    <3>2. d \in signals' \ signals
      BY <2>2, <3>1 DEF Called
    <3>3. Recorded(d) /\ pc[Main(d)] = "idle"
      BY <3>2 DEF KeepsRecords
    <3>4. p # Main(d)
      BY <3>3 DEF StepOf
    <3>5. d \notin dead
      BY <3>2 DEF TypeOK, StepOf
    <3> QED  BY <1>1, <3>3, <3>4, <3>5 DEF KeepsRecords, StepOf
  <2> QED  BY <2>1, <2>2
<1> QED  BY <1>3, <1>4 DEF Records

\* A record outlives the steps that keep the name and the contents.
LEMMA SameRecords ==
  ASSUME SameTable, NEW d, Recorded(d)
  PROVE  Recorded(d)'
BY DEF SameTable, Recorded, Pids

\* A flow that has done no more than look at the table.
LEMMA LookedOnly ==
  ASSUME TypeOK, Records, NEW p \in Flows, SameTable, signals' \subseteq signals,
         member' \subseteq member,
         \A d \in Clients : p = Main(d) /\ d \in member' => ~Leaving(d) \/ Leaving(d)'
  PROVE  KeepsRecords(p)
<1>1. \A d \in member : Recorded(d) \/ Leaving(d)
  BY DEF Records, MembersRecorded
<1> QED  BY <1>1, SameRecords DEF KeepsRecords

\* Each step inside of a call keeps both parts.
LEMMA StepsKeep ==
  ASSUME TypeOK, CallShape, Maps, Records,
         NEW p \in Flows, SemInterrupted(p) \/ Progress(p)
  PROVE  KeepsMaps(p) /\ KeepsRecords(p)
<1>0. StepOf(p)
  BY StepsOfFlows
<1>1. ASSUME SemInterrupted(p) \/ SemWait(p) \/ LookUp(p)
      PROVE  KeepsMaps(p) /\ KeepsRecords(p)
  <2>1. /\ SameTable /\ signals' = signals /\ member' = member /\ call' = call
        /\ pc'[p] \in {"sem_post", "shm_open"}
    BY <1>1 DEF SemInterrupted, SemWait, LookUp, Goto, TypeOK, shm, who, news, SameTable
  <2>2. pc[p] = "work" => call[p] = "ShmGetPidData"
    BY <1>1 DEF SemInterrupted, SemWait, LookUp, Works
  <2>3. pc[p] \in {"sem_wait", "work"}
    BY <1>1 DEF SemInterrupted, SemWait, LookUp, Works
  <2>4. \A d \in Clients : p = Main(d) => ~Leaving(d)
    BY <2>2, <2>3 DEF Leaving
  <2>5. KeepsRecords(p)
    BY <2>1, <2>4, LookedOnly
  <2> QED  BY <2>1, <2>5 DEF KeepsMaps, SameTable
<1>2. ASSUME ShmOpen(p) PROVE KeepsMaps(p) /\ KeepsRecords(p)
  <2>1. /\ signals' = signals /\ member' = member /\ table' = table
        /\ shmName # None => shmName' = shmName
        /\ pc'[p] = "work" /\ map'[p] = shmName'
        /\ pc[p] = "shm_open"
    BY <1>2 DEF ShmOpen, Goto, TypeOK, who, news
  <2>2. CASE shmName # None
    <3>1. SameTable
      BY <2>1, <2>2 DEF SameTable
    <3>2. \A d \in Clients : p = Main(d) => ~Leaving(d)
      BY <2>1 DEF Leaving
    <3>3. KeepsRecords(p)
      BY <2>1, <3>1, <3>2, LookedOnly
    <3> QED  BY <2>1, <3>1, <3>3 DEF KeepsMaps, SameTable
  <2>3. CASE shmName = None
    <3>1. \A q \in Flows : pc[q] \notin {"work", "write", "scan"}
      BY <2>3, NoneAssumption DEF CallShape, Maps, MapsNamed
    <3>2. \A d \in Clients : ~Recorded(d) /\ ~Called(d)
      BY <2>3 DEF Recorded, Records, CalledRecorded
    <3>3. p \notin Handlers
      BY <1>0, <3>2, FlowShape DEF Called, StepOf
    <3>4. \A d \in Clients : p = Main(d) => d \notin member
      BY <2>1, <3>2 DEF Records, MembersRecorded, Leaving
    <3>5. KeepsRecords(p)
      BY <2>1, <3>2, <3>4 DEF KeepsRecords
    <3> QED  BY <2>1, <3>1, <3>3, <3>5 DEF KeepsMaps
  <2> QED  BY <2>2, <2>3
<1>3. ASSUME FindCell(p) PROVE KeepsMaps(p) /\ KeepsRecords(p)
  <2>1. /\ UNCHANGED <<shmName, table, map, signals>> /\ SameTable
        /\ pc[p] = "work" /\ map[p] = shmName /\ map[p] \in Ids
        /\ pc'[p] \in {"sem_post", "write"}
    BY <1>3 DEF FindCell, Works, Goto, TypeOK, news, SameTable, Maps, MapsNamed, CallShape
  <2>2. Pid(p) \in Pids(shmName) => Recorded(Pid(p))
    BY <2>1, NoneAssumption DEF Recorded
  <2>3. pc'[p] = "write" => /\ Pid(p) \notin Pids(shmName)
                            /\ cell'[p] \in Cells /\ table[map[p]][cell'[p]] = None
    BY <1>3, <2>1 DEF FindCell, Goto, TypeOK
  <2>4. \/ member' = member
        \/ member' = member \cup {Pid(p)} /\ Pid(p) \in Pids(shmName)
    BY <1>3, <2>1 DEF FindCell
  <2>5. p \in Handlers => pc'[p] # "write"
    <3>1. p \in Handlers => Called(Pid(p)) /\ Pid(p) \in Clients
      BY <1>0, FlowShape DEF Called, StepOf
    <3> QED  BY <2>3, <3>1 DEF Records, CalledRecorded, Recorded
  <2>6. KeepsMaps(p)
    BY <2>1, <2>3, <2>5 DEF KeepsMaps
  <2>7. \A d \in Clients : p = Main(d) => ~Leaving(d) /\ Pid(p) = d
    BY <2>1, FlowShape DEF Leaving
  <2>8. KeepsRecords(p)
    <3>1. \A d \in Clients : Recorded(d) => Recorded(d)'
      BY <2>1, SameRecords
    <3>2. \A d \in Clients : p = Main(d) /\ d \in member' => Recorded(d)
      BY <2>2, <2>4, <2>7 DEF Records, MembersRecorded
    <3> QED  BY <2>1, <2>4, <3>1, <3>2 DEF KeepsRecords
  <2> QED  BY <2>6, <2>8
<1>4. ASSUME WriteCell(p) PROVE KeepsMaps(p) /\ KeepsRecords(p)
  <2>1. /\ pc[p] = "write" /\ map[p] = shmName /\ shmName \in Ids
        /\ cell[p] \in Cells /\ table[shmName][cell[p]] = None
    BY <1>4 DEF WriteCell, Maps, MapsNamed, CellFree, CallShape
  <2>2. /\ shmName' = shmName /\ signals' = signals /\ member' = member \cup {Pid(p)}
        /\ pc'[p] = "sem_post"
        /\ table' = [table EXCEPT ![shmName][cell[p]] = Pid(p)]
    BY <1>4, <2>1 DEF WriteCell, Goto, TypeOK, news
  <2>3. /\ table'[shmName][cell[p]] = Pid(p)
        /\ \A c \in Cells \ {cell[p]} : table'[shmName][c] = table[shmName][c]
    BY <2>1, <2>2 DEF TypeOK
  <2>4. p \notin Handlers
    BY <2>1, FlowShape DEF Maps, HandlersRead
  <2>5. \A d \in Clients : p = Main(d) => Recorded(d)'
    BY <2>1, <2>2, <2>3, FlowShape, NoneAssumption DEF Recorded, Pids
  <2>6. ASSUME NEW d \in Clients, Recorded(d) PROVE Recorded(d)'
    <3>1. PICK c \in Cells : table[shmName][c] = d /\ d # None
      BY <2>6 DEF Recorded, Pids
    <3>2. c # cell[p]
      BY <2>1, <3>1
    <3> QED  BY <2>2, <2>3, <2>6, <3>1, <3>2 DEF Recorded, Pids
  <2>7. KeepsRecords(p)
    BY <2>2, <2>5, <2>6 DEF KeepsRecords
  <2> QED  BY <2>2, <2>4, <2>7 DEF KeepsMaps
<1>5. ASSUME ClearCell(p) \/ ScanAndUnlink(p)
      PROVE  \E c \in Clients : /\ p = Main(c) /\ call[p] = "ShmEndClient"
                                /\ map[p] = shmName /\ shmName \in Ids
                                /\ \A q \in Flows \ {p} : pc[q] # "write"
  <2>1. call[p] = "ShmEndClient" /\ pc[p] \in {"work", "scan"}
    BY <1>5 DEF ClearCell, ScanAndUnlink, Works, CallShape
  <2>2. p \in Mains /\ Pid(p) \in Clients
    BY <2>1, CallsAre, NoneAssumption DEF TypeOK, CallNames
  <2>3. \A q \in Flows \ {p} : pc[q] # "write"
    BY <1>0, <2>2, FlowShape DEF Maps, OneBusy, HandlersRead, StepOf
  <2> QED  BY <2>1, <2>2, <2>3, FlowShape DEF Maps, MapsNamed, CallShape
<1>6. ASSUME ClearCell(p) PROVE KeepsMaps(p) /\ KeepsRecords(p)
  <2>1. PICK c \in Clients : /\ p = Main(c) /\ call[p] = "ShmEndClient"
                             /\ map[p] = shmName /\ shmName \in Ids
    BY <1>5, <1>6
  <2>2. /\ UNCHANGED <<shmName, map, member, call, signals>> /\ pc'[p] = "scan"
        /\ table' = [table EXCEPT ![shmName] =
                       [x \in Cells |-> IF @[x] = Pid(p) THEN None ELSE @[x]]]
    BY <1>6, <2>1 DEF ClearCell, Goto, who, news, TypeOK
  <2>3. Pid(p) = c /\ p \notin Handlers
    BY <2>1, FlowShape
  <2>4. \A x \in Cells : table[shmName][x] # c => table'[shmName][x] = table[shmName][x]
    BY <2>1, <2>2, <2>3 DEF TypeOK
  <2>5. \A d \in Clients : p = Main(d) => d = c /\ Leaving(d)'
    BY <2>1, <2>2, <2>3, FlowShape DEF Leaving
  <2>6. \A d \in Clients : p # Main(d) /\ Recorded(d) => Recorded(d)'
    BY <2>1, <2>2, <2>4 DEF Recorded, Pids
  <2>7. KeepsRecords(p)
    BY <2>2, <2>5, <2>6 DEF KeepsRecords
  <2> QED  BY <2>1, <2>2, <2>3, <2>7 DEF KeepsMaps
<1>7. ASSUME ScanAndUnlink(p) PROVE KeepsMaps(p) /\ KeepsRecords(p)
  <2>1. PICK c \in Clients : /\ p = Main(c) /\ call[p] = "ShmEndClient"
                             /\ map[p] = shmName /\ shmName \in Ids
                             /\ \A q \in Flows \ {p} : pc[q] # "write"
    BY <1>5, <1>7
  <2>2. /\ UNCHANGED <<table, member, call, signals>> /\ pc'[p] = "sem_post"
        /\ shmName' = IF Pids(shmName) = {} THEN None ELSE shmName
    BY <1>7, <2>1 DEF ScanAndUnlink, Goto, who, news, TypeOK
  <2>3. p \notin Handlers
    BY <2>1, FlowShape
  <2>4. \A d \in Clients : p = Main(d) => Leaving(d)'
    BY <2>1, <2>2 DEF Leaving
  <2>5. \A d \in Clients : Recorded(d) => Recorded(d)'
    BY <2>2 DEF Recorded, Pids
  <2>6. KeepsRecords(p)
    BY <2>2, <2>4, <2>5 DEF KeepsRecords
  <2>7. ASSUME NEW q \in Flows \ {p}, pc[q] \in {"work", "write", "scan"}
        PROVE  shmName' = shmName
    <3>1. q \in Handlers
      BY <1>0, <2>1, <2>7, FlowShape DEF Maps, OneBusy, StepOf
    <3>2. Called(Pid(q)) /\ Pid(q) \in Clients
      BY <2>7, <3>1, FlowShape DEF Called
    <3> QED  BY <2>2, <3>2 DEF Records, CalledRecorded, Recorded
  <2> QED  BY <2>2, <2>3, <2>6, <2>7 DEF KeepsMaps
<1>8. ASSUME Announce(p) PROVE KeepsMaps(p) /\ KeepsRecords(p)
  <2>1. /\ pc[p] = "work" /\ map[p] = shmName /\ shmName \in Ids /\ cell[p] \in Cells
        /\ call[p] = "ShmStartServer"
    BY <1>8 DEF Announce, Works, Maps, MapsNamed, CallShape
  <2>2. p \in Mains /\ Pid(p) = Server
    BY <2>1, CallsAre, NoneAssumption DEF TypeOK, CallNames
  <2> DEFINE pid == table[shmName][cell[p]]
  <2>3. /\ shmName' = shmName /\ member' = member /\ map' = map
        /\ signals' = signals \cup ({pid} \ (dead \cup {None}))
        /\ table' = [table EXCEPT ![shmName][cell[p]] = IF pid \in dead THEN None ELSE pid]
    BY <1>8, <2>1 DEF Announce, who
  <2>4. pc'[p] \in {"work", "sem_post"}
    BY <1>8, <2>1 DEF Announce, Goto, TypeOK
  <2>5. p \notin Handlers /\ \A d \in Clients : p # Main(d)
    BY <2>2, FlowShape, ServerAssumption
  <2>6. \A x \in Cells : table[shmName][x] \notin dead =>
                            table'[shmName][x] = table[shmName][x]
    BY <2>1, <2>3 DEF TypeOK
  <2>7. \A d \in Clients \ dead : Recorded(d) => Recorded(d)'
    BY <2>3, <2>6 DEF Recorded, Pids
  <2>8. \A d \in signals' \ signals : Recorded(d) /\ pc[Main(d)] = "idle"
    <3> SUFFICES ASSUME NEW d \in signals' \ signals
                 PROVE  Recorded(d) /\ pc[Main(d)] = "idle"
      OBVIOUS
    <3>1. d = pid /\ d # None
      BY <2>3
    <3>2. Recorded(d)
      BY <2>1, <3>1, NoneAssumption DEF Recorded, Pids
    <3>3. d \in Clients
      BY <2>1, <3>1 DEF TypeOK
    <3>4. pc[Main(d)] = "idle"
      BY <1>0, <2>2, <2>5, <3>3, FlowShape DEF Maps, OneBusy, StepOf
    <3> QED  BY <3>2, <3>4
  <2>9. KeepsRecords(p)
    BY <2>3, <2>5, <2>7, <2>8 DEF KeepsRecords
  <2> QED  BY <2>1, <2>3, <2>4, <2>5, <2>9 DEF KeepsMaps
<1>9. ASSUME SemPost(p) PROVE KeepsMaps(p) /\ KeepsRecords(p)
  <2>1. /\ pc[p] = "sem_post" /\ pc'[p] = "sem_unlink"
        /\ UNCHANGED <<shmName, member, call, signals>>
    BY <1>9 DEF SemPost, Goto, who, news, TypeOK
  <2>2. SameTable
    BY <1>9, <2>1 DEF SemPost, Unmap, SameTable, TypeOK
  <2>3. \A d \in Clients : p = Main(d) => ~Leaving(d) \/ Leaving(d)'
    BY <2>1 DEF Leaving
  <2>4. KeepsRecords(p)
    BY <2>1, <2>2, <2>3, LookedOnly
  <2> QED  BY <2>1, <2>2, <2>4 DEF KeepsMaps
<1>10. ASSUME SemUnlink(p) PROVE KeepsMaps(p) /\ KeepsRecords(p)
  <2>1. /\ pc'[p] \in {"idle", "between"} /\ SameTable /\ signals' = signals
        /\ shmName' = shmName
        /\ member' = IF call[p] = "ShmEndClient" THEN member \ {Pid(p)} ELSE member
    BY <1>10 DEF SemUnlink, Goto, shm, news, SameTable, TypeOK
  <2>2. \A d \in Clients : p = Main(d) /\ d \in member' => ~Leaving(d)
    BY <2>1, FlowShape DEF Leaving
  <2>3. KeepsRecords(p)
    BY <2>1, <2>2, LookedOnly
  <2> QED  BY <2>1, <2>3 DEF KeepsMaps
<1> QED
  BY <1>1, <1>2, <1>3, <1>4, <1>6, <1>7, <1>8, <1>9, <1>10 DEF Progress

\* While no two processes are in calls of their own at once, they and their
\* handlers keep each other's records.
LEMMA SerialStep ==
  ASSUME TypeOK, CallShape, SerialInv, [Next]_vars
  PROVE  SerialInv'
<1> SUFFICES ASSUME ~contended' PROVE Maps' /\ Records'
  BY DEF SerialInv
<1>0. TypeOK'
  BY TypeStep
<1>1. ASSUME NEW p \in Mains, SemOpen(p) PROVE Maps' /\ Records'
  <2>1. /\ \A q \in Mains : pc[q] = "idle"
        /\ Maps /\ Records
    BY <1>1 DEF SemOpen, Busy, SerialInv
  <2>2. /\ UNCHANGED <<shmName, table, map, cell, member, dead, signals>>
        /\ pc' = [pc EXCEPT ![p] = "sem_wait"] /\ p \in Flows
        /\ \A q \in Flows \ {p} : call'[q] = call[q]
    BY <1>1, FlowShape DEF SemOpen, Enter, Goto, shm, who, TypeOK
  <2>3. \A q \in Flows : pc'[q] = IF q = p THEN "sem_wait" ELSE pc[q]
    BY <2>2 DEF TypeOK
  <2>4. Maps'
    BY <2>1, <2>2, <2>3, FlowShape
    DEF Maps, OneBusy, MapsNamed, CellFree, HandlersRead
  <2>5. \A d \in Clients : Recorded(d)' = Recorded(d)
    BY <2>2 DEF Recorded, Pids
  <2>6. MembersRecorded'
    BY <2>1, <2>2, <2>5, FlowShape DEF Records, MembersRecorded, Leaving, TypeOK
  <2>7. CalledRecorded'
    <3> SUFFICES ASSUME NEW d \in Clients, Called(d)'
                 PROVE  pc'[Main(d)] = "idle" /\ Recorded(d)'
      BY DEF CalledRecorded
    <3>1. Called(d)
      BY <2>2, <2>3, FlowShape DEF Called
    <3>2. p # Main(d)
      BY <1>1, <3>1, FlowShape, ServerAssumption DEF SemOpen, Runs, HandlerIdle, Called
    <3> QED  BY <2>1, <2>3, <2>5, <3>1, <3>2, FlowShape DEF Records, CalledRecorded
  <2> QED  BY <2>4, <2>6, <2>7 DEF Records
<1>2. ASSUME NEW c \in Clients, Handle(c) \/ Reconnect(c) PROVE Maps' /\ Records'
  <2>1. Maps /\ Records
    BY <1>2 DEF Handle, Reconnect, SerialInv
  <2>2. Called(c) /\ Handler(c) \in Flows /\ pc[Handler(c)] \in {"idle", "between"}
    BY <1>2, FlowShape DEF Handle, Reconnect, Called
  <2>3. /\ UNCHANGED <<shmName, table, map, cell, member>> /\ signals' \subseteq signals
        /\ pc' = [pc EXCEPT ![Handler(c)] = "sem_wait"]
        /\ \A q \in Mains : call'[q] = call[q]
    BY <1>2, FlowShape DEF Handle, Reconnect, Enter, Goto, shm, who, news, TypeOK
  <2>4. \A q \in Flows : pc'[q] = IF q = Handler(c) THEN "sem_wait" ELSE pc[q]
    BY <2>3 DEF TypeOK
  <2>5. Maps'
    BY <2>1, <2>3, <2>4, FlowShape
    DEF Maps, OneBusy, MapsNamed, CellFree, HandlersRead
  <2>6. \A d \in Clients : Recorded(d)' = Recorded(d)
    BY <2>3 DEF Recorded, Pids
  <2>7. \A d \in Clients : pc'[Main(d)] = pc[Main(d)] /\ Leaving(d)' = Leaving(d)
    BY <2>3, <2>4, FlowShape DEF Leaving
  <2>8. \A d \in Clients : Called(d)' => Called(d)
    BY <2>2, <2>3, <2>4, FlowShape DEF Called
  <2> QED  BY <2>1, <2>3, <2>5, <2>6, <2>7, <2>8
           DEF Records, MembersRecorded, CalledRecorded, TypeOK
<1>3. ASSUME NEW p \in Flows, SemInterrupted(p) \/ Progress(p) PROVE Maps' /\ Records'
  <2>1. StepOf(p) /\ Maps /\ Records
    BY <1>3, StepsOfFlows DEF SerialInv
  <2> QED  BY <1>0, <1>3, <2>1, StepsKeep, MapsKept, RecordsKept
<1>4. ASSUME NEW c \in Clients, Die(c) PROVE Maps' /\ Records'
  <2>1. /\ UNCHANGED <<pc, call, shm>> /\ member' \subseteq member /\ ~contended
        /\ signals' \subseteq signals
    BY <1>4 DEF Die
  <2> QED  BY <2>1 DEF shm, SerialInv, Maps, OneBusy, MapsNamed, CellFree, HandlersRead,
              Records, MembersRecorded, CalledRecorded, Called, Recorded, Leaving, Pids
<1>5. CASE UNCHANGED vars
  BY <1>5 DEF vars, shm, who, news, SerialInv, Maps, OneBusy, MapsNamed, CellFree,
     HandlersRead, Records, MembersRecorded, CalledRecorded, Called, Recorded, Leaving, Pids
<1> QED  BY <1>1, <1>2, <1>3, <1>4, <1>5 DEF Next

\* As long as no two processes are in calls of their own at once, a registered
\* client that lives finds itself in the table that the name leads to, though
\* handlers of a restart look and register meanwhile (ShmStartServer,
\* restart_server).
THEOREM SerialCallsRecord == Spec => []RecordedIfSerial
<1>1. Init => SerialInv
  BY FlowShape DEF Init, SerialInv, Maps, OneBusy, MapsNamed, CellFree, HandlersRead,
     Records, MembersRecorded, CalledRecorded, Called
<1>2. LockInv /\ SerialInv /\ [Next]_vars => SerialInv'
  BY SerialStep DEF LockInv
<1>3. SerialInv => RecordedIfSerial
  BY DEF SerialInv, RecordedIfSerial, RegisteredIsRecorded, Records, MembersRecorded,
     Recorded, Leaving
<1> QED  BY <1>1, <1>2, <1>3, LockInvariant, PTL DEF Spec
=============================================================================
