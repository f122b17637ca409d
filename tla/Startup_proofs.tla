--------------------------- MODULE Startup_proofs ---------------------------
(***************************************************************************)
(* Proofs about Startup, for any finite set of servers, any set of         *)
(* waiting processes and any number of crashes.                            *)
(***************************************************************************)
EXTENDS Startup, FiniteSetTheorems, TLAPS

Phases == Listening \cup {"new", "failed", "killed", "exited", "crashed"}
Places == Ends \cup {"idle", "connect", "asking", "asked", "open", "wait",
                     "own", "again", "post", "usable"}

Types == /\ phase \in [Servers -> Phases]
         /\ file \in Servers \cup {None}
         /\ gen \in Gens
         /\ value \in [Gens -> Nat]
         /\ sem \in [Servers \cup Waiters -> Gens]
         /\ pc \in [Waiters -> Places]

\* Why there is always a next semaphore: each server unlinks the name once.
Exited == {s \in Servers : phase[s] = "exited"}
GenCounts == gen = Cardinality(Exited)

\* Nobody has opened, or posted to, a semaphore that does not exist yet.
FutureUnused == /\ \A p \in Servers \cup Waiters : sem[p] <= gen
                /\ \A g \in Gens : g > gen => value[g] = 0

\* A token of the current semaphore is in it or in a waiter's hand, that is
\* between its sem_wait and its sem_post.
Held(w) == pc[w] \in {"post", "again"} /\ sem[w] = gen
Token == value[gen] > 0 \/ \E w \in Waiters : Held(w)
NoCrash == \A s \in Servers : phase[s] # "crashed"
Alive == \E s \in Servers : phase[s] \in {"posted", "serving", "killed"}

\* TokenMeansServer is not inductive: a waiter would put back a token from
\* nowhere.  So the tokens in waiters' hands count too.
TokensFollow == NoCrash /\ Token => Alive

IInv == Types /\ ListenerHasPath /\ GenCounts /\ FutureUnused /\ TokensFollow

---------------------------------------------------------------------------

\* The invariant holds at the start.
LEMMA InitIInv == Init => IInv
<1> SUFFICES ASSUME Init PROVE IInv
  OBVIOUS
<1>1. Cardinality(Servers) \in Nat /\ 0 \in Gens
  BY ServersFinite, FS_CardinalityType DEF Gens
<1>2. Types
  BY <1>1 DEF Init, Types, Phases, Places
<1>3. Exited = {}
  BY DEF Init, Exited
<1>4. GenCounts
  BY <1>3, FS_EmptySet DEF Init, GenCounts
<1>5. ListenerHasPath
  BY DEF Init, ListenerHasPath, Listening
<1>6. FutureUnused
  BY <1>1 DEF Init, FutureUnused, Gens
<1>7. ~Token
  BY <1>1 DEF Init, Token, Held
<1> QED  BY <1>2, <1>4, <1>5, <1>6, <1>7 DEF IInv, TokensFollow

\* A server that is not yet exited leaves room for one more semaphore.
LEMMA RoomForNext ==
  ASSUME Types, GenCounts, NEW s \in Servers, phase[s] # "exited"
  PROVE  /\ gen \in Nat /\ gen + 1 \in Gens
         /\ Cardinality(Exited \cup {s}) = gen + 1
<1>1. IsFiniteSet(Exited) /\ s \notin Exited
  BY ServersFinite, FS_Subset DEF Exited
<1>2. Cardinality(Exited \cup {s}) = Cardinality(Exited) + 1
  BY <1>1, FS_AddElement
<1>3. Exited \cup {s} \subseteq Servers
  BY DEF Exited
<1>4. /\ Cardinality(Exited \cup {s}) <= Cardinality(Servers)
      /\ Cardinality(Servers) \in Nat
  BY <1>3, ServersFinite, FS_Subset, FS_CardinalityType
<1>5. gen \in Nat
  BY <1>4 DEF Types, Gens
<1> QED  BY <1>2, <1>4, <1>5 DEF GenCounts, Gens

\* Types are kept.
LEMMA TypesStep ==
  ASSUME Types, GenCounts, [Next]_vars
  PROVE  Types'
<1>1. ASSUME NEW s \in Servers, Initialize(s) PROVE Types'
  BY <1>1 DEF Initialize, Enter, Goto, MakeSocket, Types, Phases, Listening, sems, waits
<1>2. ASSUME NEW s \in Servers, SemOpen(s) PROVE Types'
  BY <1>2 DEF SemOpen, Enter, Goto, Types, Phases, Listening, waits
<1>3. ASSUME NEW s \in Servers, SemPost(s) PROVE Types'
  BY <1>3 DEF SemPost, Enter, Goto, Types, Phases, Listening, waits
<1>4. ASSUME NEW s \in Servers, ShmStartServer(s) PROVE Types'
  BY <1>4 DEF ShmStartServer, Enter, Goto, Types, Phases, Places, Listening, Ends, sems
<1>5. ASSUME NEW s \in Servers, SemUnlink(s) PROVE Types'
  <2>1. phase[s] # "exited"
    BY <1>5 DEF SemUnlink
  <2>2. gen + 1 \in Gens
    BY <2>1, RoomForNext
  <2> QED  BY <1>5, <2>2 DEF SemUnlink, Enter, Types, Phases, Listening, waits
<1>6. ASSUME NEW s \in Servers, KillServer(s) PROVE Types'
  BY <1>6 DEF KillServer, Enter, Goto, ImCloseAll, Types, Phases, Listening, sems, waits
<1>7. ASSUME NEW s \in Servers, Crash(s) PROVE Types'
  BY <1>7 DEF Crash, Enter, Goto, Types, Phases, Listening, sems, waits
<1>8. CASE RemoveSocket
  BY <1>8 DEF RemoveSocket, Types, sems, waits
<1>9. ASSUME NEW w \in Waiters, Begin(w) PROVE Types'
  BY <1>9 DEF Begin, Enter, Goto, Types, Places, Ends, sems
<1>10. ASSUME NEW w \in Waiters, Connect(w) PROVE Types'
  BY <1>10 DEF Connect, Enter, Goto, Types, Places, Ends, sems
<1>11. ASSUME NEW w \in Waiters, Answered(w) PROVE Types'
  BY <1>11 DEF Answered, Enter, Goto, Types, Places, Ends, sems
<1>12. ASSUME NEW w \in Waiters, HungUp(w) PROVE Types'
  BY <1>12 DEF HungUp, Enter, Goto, Types, Places, Ends, sems
<1>13. ASSUME NEW w \in Waiters, ShmStartClient(w) PROVE Types'
  BY <1>13 DEF ShmStartClient, Enter, Goto, AfterRefusal, Types, Places, Ends, sems
<1>14. ASSUME NEW w \in Waiters, Open(w) PROVE Types'
  BY <1>14 DEF Open, Enter, Goto, Types, Places, Ends, sems
<1>15. ASSUME NEW w \in Waiters, Down(w) PROVE Types'
  BY <1>15 DEF Down, Enter, Goto, Types, Places, Ends, sems
<1>16. ASSUME NEW w \in Waiters, Up(w) PROVE Types'
  BY <1>16 DEF Up, Enter, Goto, Types, Places, Ends, sems
<1>17. ASSUME NEW w \in Waiters, Finalize(w) PROVE Types'
  BY <1>17 DEF Finalize, Enter, Goto, Types, Places, Ends, sems
<1>18. ASSUME NEW w \in Waiters, TimeOut(w) PROVE Types'
  BY <1>18 DEF TimeOut, Enter, Goto, Types, Places, Ends, sems
<1>19. CASE UNCHANGED vars
  BY <1>19 DEF vars, sems, waits, Types
<1> QED
  BY <1>1, <1>2, <1>3, <1>4, <1>5, <1>6, <1>7, <1>8, <1>9, <1>10, <1>11,
     <1>12, <1>13, <1>14, <1>15, <1>16, <1>17, <1>18, <1>19 DEF Next,
     ServerStep, WaiterStep

\* A listening server keeps the path: bind needs a path that is free, and only
\* the server that has it, or its end, frees it.
LEMMA ListenerStep ==
  ASSUME Types, ListenerHasPath, [Next]_vars
  PROVE  ListenerHasPath'
<1>1. ASSUME NEW s \in Servers, Initialize(s) PROVE ListenerHasPath'
  BY <1>1, NoServer DEF Initialize, MakeSocket, Enter, Types, ListenerHasPath, Listening
<1>2. ASSUME NEW s \in Servers, SemOpen(s) PROVE ListenerHasPath'
  BY <1>2 DEF SemOpen, Enter, Goto, Types, ListenerHasPath, Listening
<1>3. ASSUME NEW s \in Servers, SemPost(s) PROVE ListenerHasPath'
  BY <1>3 DEF SemPost, Enter, Goto, Types, ListenerHasPath, Listening
<1>4. ASSUME NEW s \in Servers, ShmStartServer(s) PROVE ListenerHasPath'
  BY <1>4 DEF ShmStartServer, Enter, Goto, Types, ListenerHasPath, Listening
<1>5. ASSUME NEW s \in Servers, SemUnlink(s) PROVE ListenerHasPath'
  BY <1>5 DEF SemUnlink, Enter, Goto, Types, ListenerHasPath, Listening
<1>6. ASSUME NEW s \in Servers, KillServer(s) PROVE ListenerHasPath'
  BY <1>6 DEF KillServer, ImCloseAll, Enter, Types, ListenerHasPath, Listening
<1>7. ASSUME NEW s \in Servers, Crash(s) PROVE ListenerHasPath'
  BY <1>7 DEF Crash, Enter, Goto, Types, ListenerHasPath, Listening
<1>8. CASE RemoveSocket
  BY <1>8 DEF RemoveSocket, Types, ListenerHasPath, Listening
<1>9. ASSUME NEW w \in Waiters, Begin(w) PROVE ListenerHasPath'
  BY <1>9 DEF Begin, Enter, Goto, ListenerHasPath
<1>10. ASSUME NEW w \in Waiters, Connect(w) PROVE ListenerHasPath'
  BY <1>10 DEF Connect, Enter, Goto, ListenerHasPath
<1>11. ASSUME NEW w \in Waiters, Answered(w) PROVE ListenerHasPath'
  BY <1>11 DEF Answered, Enter, Goto, ListenerHasPath
<1>12. ASSUME NEW w \in Waiters, HungUp(w) PROVE ListenerHasPath'
  BY <1>12 DEF HungUp, Enter, Goto, ListenerHasPath
<1>13. ASSUME NEW w \in Waiters, ShmStartClient(w) PROVE ListenerHasPath'
  BY <1>13 DEF ShmStartClient, Enter, Goto, ListenerHasPath
<1>14. ASSUME NEW w \in Waiters, Open(w) PROVE ListenerHasPath'
  BY <1>14 DEF Open, Enter, Goto, ListenerHasPath
<1>15. ASSUME NEW w \in Waiters, Down(w) PROVE ListenerHasPath'
  BY <1>15 DEF Down, Enter, Goto, ListenerHasPath
<1>16. ASSUME NEW w \in Waiters, Up(w) PROVE ListenerHasPath'
  BY <1>16 DEF Up, Enter, Goto, ListenerHasPath
<1>17. ASSUME NEW w \in Waiters, Finalize(w) PROVE ListenerHasPath'
  BY <1>17 DEF Finalize, Enter, Goto, ListenerHasPath
<1>18. ASSUME NEW w \in Waiters, TimeOut(w) PROVE ListenerHasPath'
  BY <1>18 DEF TimeOut, Enter, Goto, ListenerHasPath
<1>19. CASE UNCHANGED vars
  BY <1>19 DEF vars, ListenerHasPath
<1> QED
  BY <1>1, <1>2, <1>3, <1>4, <1>5, <1>6, <1>7, <1>8, <1>9, <1>10, <1>11,
     <1>12, <1>13, <1>14, <1>15, <1>16, <1>17, <1>18, <1>19 DEF Next,
     ServerStep, WaiterStep

\* The number of semaphores there have been is that of the servers that have
\* exited.
LEMMA CountStep ==
  ASSUME Types, GenCounts, [Next]_vars
  PROVE  GenCounts'
<1>1. ASSUME NEW s \in Servers, Initialize(s) PROVE GenCounts'
  <2>1. Exited' = Exited
    BY <1>1 DEF Initialize, Enter, Exited, Types, Listening
  <2> QED  BY <1>1, <2>1 DEF Initialize, GenCounts, sems
<1>2. ASSUME NEW s \in Servers, SemOpen(s) PROVE GenCounts'
  <2>1. Exited' = Exited
    BY <1>2 DEF SemOpen, Enter, Exited, Types, Listening
  <2> QED  BY <1>2, <2>1 DEF SemOpen, GenCounts, sems
<1>3. ASSUME NEW s \in Servers, SemPost(s) PROVE GenCounts'
  <2>1. Exited' = Exited
    BY <1>3 DEF SemPost, Enter, Exited, Types, Listening
  <2> QED  BY <1>3, <2>1 DEF SemPost, GenCounts, sems
<1>4. ASSUME NEW s \in Servers, ShmStartServer(s) PROVE GenCounts'
  <2>1. Exited' = Exited
    BY <1>4 DEF ShmStartServer, Enter, Exited, Types, Listening
  <2> QED  BY <1>4, <2>1 DEF ShmStartServer, GenCounts, sems
<1>5. ASSUME NEW s \in Servers, SemUnlink(s) PROVE GenCounts'
  <2>1. phase[s] # "exited"
    BY <1>5 DEF SemUnlink
  <2>2. Exited' = Exited \cup {s}
    BY <1>5 DEF SemUnlink, Enter, Exited, Types
  <2>3. gen' = gen + 1
    BY <1>5 DEF SemUnlink
  <2> QED  BY <2>1, <2>2, <2>3, RoomForNext DEF GenCounts
<1>6. ASSUME NEW s \in Servers, KillServer(s) PROVE GenCounts'
  <2>1. Exited' = Exited
    BY <1>6 DEF KillServer, Enter, Exited, Types, Listening
  <2> QED  BY <1>6, <2>1 DEF KillServer, GenCounts, sems
<1>7. ASSUME NEW s \in Servers, Crash(s) PROVE GenCounts'
  <2>1. Exited' = Exited
    BY <1>7 DEF Crash, Enter, Exited, Types, Listening
  <2> QED  BY <1>7, <2>1 DEF Crash, GenCounts, sems
<1>8. CASE RemoveSocket
  BY <1>8 DEF RemoveSocket, GenCounts, Exited, sems
<1>9. ASSUME NEW w \in Waiters, Begin(w) PROVE GenCounts'
  BY <1>9 DEF Begin, GenCounts, Exited, sems
<1>10. ASSUME NEW w \in Waiters, Connect(w) PROVE GenCounts'
  BY <1>10 DEF Connect, GenCounts, Exited, sems
<1>11. ASSUME NEW w \in Waiters, Answered(w) PROVE GenCounts'
  BY <1>11 DEF Answered, GenCounts, Exited, sems
<1>12. ASSUME NEW w \in Waiters, HungUp(w) PROVE GenCounts'
  BY <1>12 DEF HungUp, GenCounts, Exited, sems
<1>13. ASSUME NEW w \in Waiters, ShmStartClient(w) PROVE GenCounts'
  BY <1>13 DEF ShmStartClient, GenCounts, Exited, sems
<1>14. ASSUME NEW w \in Waiters, Open(w) PROVE GenCounts'
  BY <1>14 DEF Open, GenCounts, Exited, sems
<1>15. ASSUME NEW w \in Waiters, Down(w) PROVE GenCounts'
  BY <1>15 DEF Down, GenCounts, Exited, sems
<1>16. ASSUME NEW w \in Waiters, Up(w) PROVE GenCounts'
  BY <1>16 DEF Up, GenCounts, Exited, sems
<1>17. ASSUME NEW w \in Waiters, Finalize(w) PROVE GenCounts'
  BY <1>17 DEF Finalize, GenCounts, Exited, sems
<1>18. ASSUME NEW w \in Waiters, TimeOut(w) PROVE GenCounts'
  BY <1>18 DEF TimeOut, GenCounts, Exited, sems
<1>19. CASE UNCHANGED vars
  BY <1>19 DEF vars, sems, GenCounts, Exited
<1> QED
  BY <1>1, <1>2, <1>3, <1>4, <1>5, <1>6, <1>7, <1>8, <1>9, <1>10, <1>11,
     <1>12, <1>13, <1>14, <1>15, <1>16, <1>17, <1>18, <1>19 DEF Next,
     ServerStep, WaiterStep

\* Semaphores that the name has not reached stay unused.
LEMMA FutureStep ==
  ASSUME Types, GenCounts, FutureUnused, [Next]_vars
  PROVE  FutureUnused'
<1>types. gen \in Nat /\ Gens \subseteq Nat
  BY DEF Types, Gens
<1>1. ASSUME NEW s \in Servers, Initialize(s) PROVE FutureUnused'
  BY <1>1 DEF Initialize, Enter, Goto, FutureUnused, sems
<1>2. ASSUME NEW s \in Servers, SemOpen(s) PROVE FutureUnused'
  BY <1>2, <1>types DEF SemOpen, Types, FutureUnused
<1>3. ASSUME NEW s \in Servers, SemPost(s) PROVE FutureUnused'
  BY <1>3, <1>types DEF SemPost, Types, FutureUnused
<1>4. ASSUME NEW s \in Servers, ShmStartServer(s) PROVE FutureUnused'
  BY <1>4 DEF ShmStartServer, Enter, Goto, FutureUnused, sems
<1>5. ASSUME NEW s \in Servers, SemUnlink(s) PROVE FutureUnused'
  <2>1. gen' = gen + 1 /\ sem' = sem /\ value' = value
    BY <1>5 DEF SemUnlink
  <2>2. \A p \in Servers \cup Waiters : sem[p] <= gen + 1
    <3> TAKE p \in Servers \cup Waiters
    <3>1. sem[p] \in Nat
      BY <1>types DEF Types
    <3>2. sem[p] <= gen
      BY DEF FutureUnused
    <3> QED  BY <1>types, <3>1, <3>2
  <2>3. \A g \in Gens : g > gen + 1 => value[g] = 0
    BY <1>types DEF FutureUnused
  <2> QED  BY <2>1, <2>2, <2>3 DEF FutureUnused, Gens
<1>6. ASSUME NEW s \in Servers, KillServer(s) PROVE FutureUnused'
  BY <1>6 DEF KillServer, Enter, Goto, FutureUnused, sems
<1>7. ASSUME NEW s \in Servers, Crash(s) PROVE FutureUnused'
  BY <1>7 DEF Crash, Enter, Goto, FutureUnused, sems
<1>8. CASE RemoveSocket
  BY <1>8 DEF RemoveSocket, FutureUnused, sems
<1>9. ASSUME NEW w \in Waiters, Begin(w) PROVE FutureUnused'
  BY <1>9 DEF Begin, Enter, Goto, FutureUnused, sems
<1>10. ASSUME NEW w \in Waiters, Connect(w) PROVE FutureUnused'
  BY <1>10 DEF Connect, Enter, Goto, FutureUnused, sems
<1>11. ASSUME NEW w \in Waiters, Answered(w) PROVE FutureUnused'
  BY <1>11 DEF Answered, Enter, Goto, FutureUnused, sems
<1>12. ASSUME NEW w \in Waiters, HungUp(w) PROVE FutureUnused'
  BY <1>12 DEF HungUp, Enter, Goto, FutureUnused, sems
<1>13. ASSUME NEW w \in Waiters, ShmStartClient(w) PROVE FutureUnused'
  BY <1>13 DEF ShmStartClient, Enter, Goto, FutureUnused, sems
<1>14. ASSUME NEW w \in Waiters, Open(w) PROVE FutureUnused'
  BY <1>14, <1>types DEF Open, Types, FutureUnused
<1>15. ASSUME NEW w \in Waiters, Down(w) PROVE FutureUnused'
  BY <1>15, <1>types DEF Down, Types, FutureUnused
<1>16. ASSUME NEW w \in Waiters, Up(w) PROVE FutureUnused'
  BY <1>16, <1>types DEF Up, Types, FutureUnused
<1>17. ASSUME NEW w \in Waiters, Finalize(w) PROVE FutureUnused'
  BY <1>17 DEF Finalize, Enter, Goto, FutureUnused, sems
<1>18. ASSUME NEW w \in Waiters, TimeOut(w) PROVE FutureUnused'
  BY <1>18 DEF TimeOut, Enter, Goto, FutureUnused, sems
<1>19. CASE UNCHANGED vars
  BY <1>19 DEF vars, sems, FutureUnused
<1> QED
  BY <1>1, <1>2, <1>3, <1>4, <1>5, <1>6, <1>7, <1>8, <1>9, <1>10, <1>11,
     <1>12, <1>13, <1>14, <1>15, <1>16, <1>17, <1>18, <1>19 DEF Next,
     ServerStep, WaiterStep

\* Tokens follow the servers.  A post makes its server one that is alive; a
\* waiter that takes a token has it, and one that puts a token back had it;
\* the last server's exit leaves the name to a semaphore without tokens.
LEMMA TokensStep ==
  ASSUME Types, GenCounts, FutureUnused, TokensFollow, [Next]_vars
  PROVE  TokensFollow'
<1> SUFFICES ASSUME NoCrash', Token' PROVE Alive'
  BY DEF TokensFollow
<1>old. /\ NoCrash /\ Token => Alive
        /\ gen \in Nat /\ Gens \subseteq Nat
  BY DEF TokensFollow, Types, Gens
<1>now. \A s \in Servers : phase'[s] # "crashed"
  BY DEF NoCrash
<1>1. ASSUME NEW s \in Servers, Initialize(s) PROVE Alive'
  <2>1. NoCrash /\ (Alive => Alive')
    BY <1>1, <1>now DEF Initialize, MakeSocket, Enter, Types, NoCrash, Alive
  <2>2. Token
    BY <1>1 DEF Initialize, Token, Held, sems, waits
  <2> QED  BY <2>1, <2>2, <1>old
<1>2. ASSUME NEW s \in Servers, SemOpen(s) PROVE Alive'
  <2>1. NoCrash /\ (Alive => Alive')
    BY <1>2, <1>now DEF SemOpen, Enter, Types, NoCrash, Alive
  <2>2. \A w \in Waiters : sem'[w] = sem[w]
    BY <1>2, ServersDoNotWait DEF SemOpen, Types
  <2>3. Token
    BY <1>2, <2>2 DEF SemOpen, Token, Held, waits
  <2> QED  BY <2>1, <2>3, <1>old
<1>3. ASSUME NEW s \in Servers, SemPost(s) PROVE Alive'
  BY <1>3 DEF SemPost, Enter, Types, Alive
<1>4. ASSUME NEW s \in Servers, ShmStartServer(s) PROVE Alive'
  BY <1>4 DEF ShmStartServer, Enter, Types, Alive
<1>5. ASSUME NEW s \in Servers, SemUnlink(s) PROVE Alive'
  <2>1. gen' = gen + 1 /\ sem' = sem /\ value' = value /\ pc' = pc
    BY <1>5 DEF SemUnlink, waits
  <2>2. gen + 1 \in Gens
    BY <1>5, RoomForNext DEF SemUnlink
  <2>3. value[gen + 1] = 0
    BY <2>2, <1>old DEF FutureUnused
  <2>4. \A w \in Waiters : sem[w] <= gen /\ sem[w] \in Nat
    BY <1>old DEF FutureUnused, Types
  <2>5. ~Token'
    BY <1>old, <2>1, <2>3, <2>4 DEF Token, Held
  <2> QED  BY <2>5
<1>6. ASSUME NEW s \in Servers, KillServer(s) PROVE Alive'
  BY <1>6 DEF KillServer, Enter, Types, Alive
<1>7. ASSUME NEW s \in Servers, Crash(s) PROVE Alive'
  BY <1>7, <1>now DEF Crash, Enter, Types
<1>8. CASE RemoveSocket
  <2>1. NoCrash /\ (Alive => Alive')
    BY <1>8, <1>now DEF RemoveSocket, NoCrash, Alive
  <2>2. Token
    BY <1>8 DEF RemoveSocket, Token, Held, sems, waits
  <2> QED  BY <2>1, <2>2, <1>old
<1>9. ASSUME NEW w \in Waiters, Begin(w) PROVE Alive'
  <2>1. NoCrash /\ (Alive => Alive')
    BY <1>9, <1>now DEF Begin, NoCrash, Alive
  <2>2. Token
    BY <1>9 DEF Begin, Goto, Types, Token, Held, sems
  <2> QED  BY <2>1, <2>2, <1>old
<1>10. ASSUME NEW w \in Waiters, Connect(w) PROVE Alive'
  <2>1. NoCrash /\ (Alive => Alive')
    BY <1>10, <1>now DEF Connect, NoCrash, Alive
  <2>2. Token
    BY <1>10 DEF Connect, Goto, Types, Token, Held, sems
  <2> QED  BY <2>1, <2>2, <1>old
<1>11. ASSUME NEW w \in Waiters, Answered(w) PROVE Alive'
  <2>1. NoCrash /\ (Alive => Alive')
    BY <1>11, <1>now DEF Answered, NoCrash, Alive
  <2>2. Token
    BY <1>11 DEF Answered, Goto, Types, Token, Held, sems
  <2> QED  BY <2>1, <2>2, <1>old
<1>12. ASSUME NEW w \in Waiters, HungUp(w) PROVE Alive'
  <2>1. NoCrash /\ (Alive => Alive')
    BY <1>12, <1>now DEF HungUp, NoCrash, Alive
  <2>2. Token
    BY <1>12 DEF HungUp, Goto, Types, Token, Held, sems
  <2> QED  BY <2>1, <2>2, <1>old
<1>13. ASSUME NEW w \in Waiters, ShmStartClient(w) PROVE Alive'
  <2>1. NoCrash /\ (Alive => Alive')
    BY <1>13, <1>now DEF ShmStartClient, NoCrash, Alive
  <2>2. Token
    BY <1>13 DEF ShmStartClient, AfterRefusal, Goto, Types, Token, Held, sems
  <2> QED  BY <2>1, <2>2, <1>old
<1>14. ASSUME NEW w \in Waiters, Open(w) PROVE Alive'
  <2>1. NoCrash /\ (Alive => Alive')
    BY <1>14, <1>now DEF Open, NoCrash, Alive
  <2>2. Token
    BY <1>14, <1>old DEF Open, Goto, Types, Token, Held
  <2> QED  BY <2>1, <2>2, <1>old
<1>15. ASSUME NEW w \in Waiters, Down(w) PROVE Alive'
  <2>1. NoCrash /\ (Alive => Alive')
    BY <1>15, <1>now DEF Down, NoCrash, Alive
  <2>2. Token
    BY <1>15, <1>old DEF Down, Goto, Types, Token, Held
  <2> QED  BY <2>1, <2>2, <1>old
<1>16. ASSUME NEW w \in Waiters, Up(w) PROVE Alive'
  <2>1. NoCrash /\ (Alive => Alive')
    BY <1>16, <1>now DEF Up, NoCrash, Alive
  <2>2. Token
    BY <1>16, <1>old DEF Up, Goto, Types, Token, Held
  <2> QED  BY <2>1, <2>2, <1>old
<1>17. ASSUME NEW w \in Waiters, Finalize(w) PROVE Alive'
  <2>1. NoCrash /\ (Alive => Alive')
    BY <1>17, <1>now DEF Finalize, NoCrash, Alive
  <2>2. Token
    BY <1>17 DEF Finalize, Goto, Types, Token, Held, sems
  <2> QED  BY <2>1, <2>2, <1>old
<1>18. ASSUME NEW w \in Waiters, TimeOut(w) PROVE Alive'
  <2>1. NoCrash /\ (Alive => Alive')
    BY <1>18, <1>now DEF TimeOut, NoCrash, Alive
  <2>2. Token
    BY <1>18 DEF TimeOut, Goto, Types, Token, Held, sems
  <2> QED  BY <2>1, <2>2, <1>old
<1>19. CASE UNCHANGED vars
  BY <1>19, <1>old DEF vars, sems, waits, NoCrash, Token, Held, Alive
<1> QED
  BY <1>1, <1>2, <1>3, <1>4, <1>5, <1>6, <1>7, <1>8, <1>9, <1>10, <1>11,
     <1>12, <1>13, <1>14, <1>15, <1>16, <1>17, <1>18, <1>19 DEF Next,
     ServerStep, WaiterStep

---------------------------------------------------------------------------

\* Every reachable state satisfies the invariant.
THEOREM Invariant == Spec => []IInv
<1>1. IInv /\ [Next]_vars => IInv'
  <2> SUFFICES ASSUME IInv, [Next]_vars PROVE IInv'
    OBVIOUS
  <2>1. Types' /\ GenCounts'
    BY TypesStep, CountStep DEF IInv
  <2>2. ListenerHasPath'
    BY ListenerStep DEF IInv
  <2>3. FutureUnused' /\ TokensFollow'
    BY FutureStep, TokensStep DEF IInv
  <2> QED  BY <2>1, <2>2, <2>3 DEF IInv
<1> QED  BY InitIInv, <1>1, PTL DEF Spec

\* A server that listens has the socket file, so there are never two, however
\* many start, stop and crash beside each other.
THEOREM OneListener == Spec => []ListenerHasPath
<1>1. IInv => ListenerHasPath
  BY DEF IInv
<1> QED  BY <1>1, Invariant, PTL

\* Without crashes a token that a newcomer may take means a server, however
\* many wait, time out, are ended by the signal or put tokens back.
THEOREM NoStaleToken == Spec => []TokenMeansServer
<1>1. IInv => TokenMeansServer
  BY DEF IInv, TokensFollow, TokenMeansServer, NoCrash, Token, Alive
<1> QED  BY <1>1, Invariant, PTL

---------------------------------------------------------------------------
(* Waiting without a limit.  A waiter that fails has been refused three     *)
(* times.  Before the third it held two tokens at once, the one it was      *)
(* woken with and the one it waited for in after_wait, so two servers have  *)
(* posted; of these at most one is lost, and the other one listens.         *)

\* The servers that may have posted.
Past == {s \in Servers : phase[s] \in {"posted", "serving"}} \cup Lost

\* How many tokens a waiter has taken and not put back: after_wait takes a
\* second one and puts back only one.
InHand(w) == CASE pc[w] = "again" -> 1
               [] pc[w] = "post" -> try[w]
               [] OTHER -> 0

NoToken == /\ \A g \in Gens : value[g] = 0
           /\ \A w \in Waiters : InHand(w) = 0
OneToken == /\ \A g \in Gens : value[g] <= 1
            /\ \A w \in Waiters : InHand(w) <= 1
            /\ \A g, h \in Gens : g # h => value[g] = 0 \/ value[h] = 0
            /\ \A w, v \in Waiters : w # v => InHand(w) = 0 \/ InHand(v) = 0
            /\ \A g \in Gens, w \in Waiters : value[g] = 0 \/ InHand(w) = 0

Alone(S) == \A s, t \in S : s = t

\* There are not more tokens, of whatever semaphore, than servers that posted;
\* whether there are none, one or more is all that matters.
TokensCounted == /\ Past = {} => NoToken
                 /\ Alone(Past) => OneToken

\* Which of the three calls a waiter makes shows in where it is.
Tries == /\ try \in [Waiters -> 1 .. 3]
         /\ peer \in [Waiters -> Servers \cup {None}]
         /\ \A w \in Waiters :
               /\ pc[w] \in {"idle", "open", "wait"} => try[w] = 1
               /\ pc[w] \in {"own", "again"} => try[w] = 2
               /\ pc[w] = "post" => try[w] \in {1, 2}
               /\ pc[w] = "asking" => peer[w] # None

ThirdTry == \A w \in Waiters : try[w] = 3 => ~Alone(Past)

\* UntimedNeverFails, and why: the third call finds the server that is left.
ThirdFinds == Alone(Lost) =>
    \A w \in Waiters : /\ pc[w] = "failed" => w \in Timed
                       /\ try[w] = 3 /\ pc[w] = "asking" => phase[peer[w]] \in Listening
                       /\ try[w] = 3 /\ pc[w] = "asked" => peer[w] # None

WaitInv == TokensCounted /\ Tries /\ ThirdTry /\ ThirdFinds

\* The waiters' invariant holds at the start.
LEMMA InitWaitInv == Init => WaitInv
<1> SUFFICES ASSUME Init PROVE WaitInv
  OBVIOUS
<1>1. NoToken
  BY DEF Init, NoToken, InHand
<1>2. OneToken
  BY DEF Init, OneToken, InHand
<1>3. Tries
  BY DEF Init, Tries
<1>4. ThirdTry
  BY DEF Init, ThirdTry
<1>5. ThirdFinds
  BY DEF Init, ThirdFinds
<1> QED  BY <1>1, <1>2, <1>3, <1>4, <1>5 DEF WaitInv, TokensCounted

\* A server that may have posted, or is lost, remains so; and only a post adds
\* to the first.
LEMMA PastGrows ==
  ASSUME Types, [Next]_vars
  PROVE  /\ Past \subseteq Past' /\ Lost \subseteq Lost'
         /\ Alone(Past)' => Alone(Past)
         /\ Alone(Lost)' => Alone(Lost)
         /\ Past' = {} => Past = {}
<1>1. ASSUME NEW s \in Servers, Initialize(s) \/ ServerStep(s) \/ KillServer(s) \/ Crash(s)
      PROVE  Past \subseteq Past' /\ Lost \subseteq Lost'
  <2>1. PICK p \in Phases : /\ phase' = [phase EXCEPT ![s] = p]
                            /\ phase[s] \in {"posted", "serving"} =>
                                  p \in {"serving", "killed", "crashed"}
                            /\ phase[s] \in {"killed", "exited", "crashed"} =>
                                  p \in {"exited", "crashed"}
    BY <1>1 DEF Initialize, ServerStep, KillServer, Crash, SemOpen, SemPost, ShmStartServer,
                SemUnlink, Enter, MakeSocket, Phases, Listening, Types
  <2> QED  BY <2>1 DEF Past, Lost, Types
<1>2. CASE ~ \E s \in Servers : Initialize(s) \/ ServerStep(s) \/ KillServer(s) \/ Crash(s)
  <2>1. phase' = phase
    BY <1>2 DEF Next, RemoveSocket, Begin, WaiterStep, Connect, Answered, HungUp, ShmStartClient,
                Open, Down, Up, Finalize, TimeOut, vars
  <2> QED  BY <2>1 DEF Past, Lost
<1>3. Past \subseteq Past' /\ Lost \subseteq Lost'
  BY <1>1, <1>2
<1> QED  BY <1>3 DEF Alone

\* Where a waiter is tells its call.
LEMMA TriesStep ==
  ASSUME Types, Tries, [Next]_vars
  PROVE  Tries'
<1>1. ASSUME NEW s \in Servers, Initialize(s) PROVE Tries'
  BY <1>1 DEF Initialize, waits, Tries
<1>2. ASSUME NEW s \in Servers, SemOpen(s) PROVE Tries'
  BY <1>2 DEF SemOpen, waits, Tries
<1>3. ASSUME NEW s \in Servers, SemPost(s) PROVE Tries'
  BY <1>3 DEF SemPost, waits, Tries
<1>4. ASSUME NEW s \in Servers, ShmStartServer(s) PROVE Tries'
  BY <1>4 DEF ShmStartServer, Types, Running, Ends, Tries
<1>5. ASSUME NEW s \in Servers, SemUnlink(s) PROVE Tries'
  BY <1>5 DEF SemUnlink, waits, Tries
<1>6. ASSUME NEW s \in Servers, KillServer(s) PROVE Tries'
  BY <1>6 DEF KillServer, waits, Tries
<1>7. ASSUME NEW s \in Servers, Crash(s) PROVE Tries'
  BY <1>7 DEF Crash, waits, Tries
<1>8. CASE RemoveSocket
  BY <1>8 DEF RemoveSocket, waits, Tries
<1>9. ASSUME NEW w \in Waiters, Begin(w) PROVE Tries'
  BY <1>9 DEF Begin, Goto, Types, Tries
<1>10. ASSUME NEW w \in Waiters, Connect(w) PROVE Tries'
  BY <1>10 DEF Connect, Reachable, Goto, Types, Tries
<1>11. ASSUME NEW w \in Waiters, Answered(w) PROVE Tries'
  BY <1>11 DEF Answered, Goto, Types, Tries
<1>12. ASSUME NEW w \in Waiters, HungUp(w) PROVE Tries'
  BY <1>12 DEF HungUp, Goto, Types, Tries
<1>13. ASSUME NEW w \in Waiters, ShmStartClient(w) PROVE Tries'
  BY <1>13 DEF ShmStartClient, Goto, Types, Tries, AfterRefusal
<1>14. ASSUME NEW w \in Waiters, Open(w) PROVE Tries'
  BY <1>14 DEF Open, Goto, Types, Tries
<1>15. ASSUME NEW w \in Waiters, Down(w) PROVE Tries'
  BY <1>15 DEF Down, Goto, Types, Tries
<1>16. ASSUME NEW w \in Waiters, Up(w) PROVE Tries'
  BY <1>16 DEF Up, Goto, Types, Tries
<1>17. ASSUME NEW w \in Waiters, Finalize(w) PROVE Tries'
  BY <1>17 DEF Finalize, Goto, Types, Tries
<1>18. ASSUME NEW w \in Waiters, TimeOut(w) PROVE Tries'
  BY <1>18 DEF TimeOut, Goto, Types, Tries
<1>19. CASE UNCHANGED vars
  BY <1>19 DEF vars, waits, Tries
<1> QED
  BY <1>1, <1>2, <1>3, <1>4, <1>5, <1>6, <1>7, <1>8, <1>9, <1>10, <1>11,
     <1>12, <1>13, <1>14, <1>15, <1>16, <1>17, <1>18, <1>19 DEF Next,
     ServerStep, WaiterStep

\* A waiter has none, one or two tokens.
LEMMA InHandType ==
  ASSUME Types, Tries, NEW w \in Waiters
  PROVE  InHand(w) \in 0 .. 2
<1>1. pc[w] = "post" => try[w] \in {1, 2}
  BY DEF Tries
<1> QED  BY <1>1 DEF InHand

\* A step that puts no token in a semaphore, and none in a hand, does not make
\* them more.
LEMMA NoMoreTokens ==
  ASSUME Types, Tries, \A g \in Gens : value'[g] = value[g],
         \A w \in Waiters : InHand(w)' \in {0, InHand(w)}
  PROVE  (NoToken => NoToken') /\ (OneToken => OneToken')
<1>1. \A w \in Waiters : InHand(w) \in 0 .. 2
  BY InHandType
<1>2. ASSUME NoToken PROVE NoToken'
  BY <1>2 DEF NoToken
<1>3. ASSUME OneToken PROVE OneToken'
  <2>1. \A g \in Gens : value'[g] <= 1
    BY <1>3 DEF OneToken
  <2>2. \A w \in Waiters : InHand(w)' <= 1
    BY <1>3, <1>1 DEF OneToken
  <2>3. \A g, h \in Gens : g # h => value'[g] = 0 \/ value'[h] = 0
    BY <1>3 DEF OneToken
  <2>4. \A w, v \in Waiters : w # v => InHand(w)' = 0 \/ InHand(v)' = 0
    BY <1>3 DEF OneToken
  <2>5. \A g \in Gens, w \in Waiters : value'[g] = 0 \/ InHand(w)' = 0
    BY <1>3 DEF OneToken
  <2> QED  BY <2>1, <2>2, <2>3, <2>4, <2>5 DEF OneToken
<1> QED  BY <1>2, <1>3

\* A post adds a server; the waiters only pass tokens on.
LEMMA TokensCountedStep ==
  ASSUME Types, Tries, TokensCounted, [Next]_vars
  PROVE  TokensCounted'
<1>past. (Alone(Past)' => Alone(Past)) /\ (Past' = {} => Past = {})
  BY PastGrows
<1>1. ASSUME NEW s \in Servers, Initialize(s) PROVE TokensCounted'
  <2>1. /\ \A g \in Gens : value'[g] = value[g]
        /\ \A w1 \in Waiters : InHand(w1)' \in {0, InHand(w1)}
    BY <1>1 DEF Initialize, sems, waits, InHand
  <2> QED  BY <1>past, <2>1, NoMoreTokens DEF TokensCounted
<1>2. ASSUME NEW s \in Servers, SemOpen(s) PROVE TokensCounted'
  <2>1. /\ \A g \in Gens : value'[g] = value[g]
        /\ \A w1 \in Waiters : InHand(w1)' \in {0, InHand(w1)}
    BY <1>2 DEF SemOpen, waits, InHand
  <2> QED  BY <1>past, <2>1, NoMoreTokens DEF TokensCounted
<1>3. ASSUME NEW s \in Servers, SemPost(s) PROVE TokensCounted'
  <2>1. Past' = Past \cup {s} /\ s \notin Past
    BY <1>3 DEF SemPost, Enter, Types, Past, Lost
  <2>2. ASSUME Alone(Past)' PROVE OneToken'
    <3>1. Past = {} /\ NoToken
      BY <2>1, <2>2 DEF Alone, TokensCounted
    <3>2. \A w \in Waiters : InHand(w)' = InHand(w)
      BY <1>3 DEF SemPost, waits, InHand
    <3>3. \A g \in Gens : value'[g] = IF g = sem[s] THEN 1 ELSE 0
      BY <1>3, <3>1 DEF SemPost, Types, NoToken
    <3> QED  BY <3>1, <3>2, <3>3 DEF NoToken, OneToken
  <2> QED  BY <2>1, <2>2 DEF TokensCounted
<1>4. ASSUME NEW s \in Servers, ShmStartServer(s) PROVE TokensCounted'
  <2>1. /\ \A g \in Gens : value'[g] = value[g]
        /\ \A w1 \in Waiters : InHand(w1)' \in {0, InHand(w1)}
    BY <1>4 DEF ShmStartServer, sems, Types, InHand
  <2> QED  BY <1>past, <2>1, NoMoreTokens DEF TokensCounted
<1>5. ASSUME NEW s \in Servers, SemUnlink(s) PROVE TokensCounted'
  <2>1. /\ \A g \in Gens : value'[g] = value[g]
        /\ \A w1 \in Waiters : InHand(w1)' \in {0, InHand(w1)}
    BY <1>5 DEF SemUnlink, waits, InHand
  <2> QED  BY <1>past, <2>1, NoMoreTokens DEF TokensCounted
<1>6. ASSUME NEW s \in Servers, KillServer(s) PROVE TokensCounted'
  <2>1. /\ \A g \in Gens : value'[g] = value[g]
        /\ \A w1 \in Waiters : InHand(w1)' \in {0, InHand(w1)}
    BY <1>6 DEF KillServer, sems, waits, InHand
  <2> QED  BY <1>past, <2>1, NoMoreTokens DEF TokensCounted
<1>7. ASSUME NEW s \in Servers, Crash(s) PROVE TokensCounted'
  <2>1. /\ \A g \in Gens : value'[g] = value[g]
        /\ \A w1 \in Waiters : InHand(w1)' \in {0, InHand(w1)}
    BY <1>7 DEF Crash, sems, waits, InHand
  <2> QED  BY <1>past, <2>1, NoMoreTokens DEF TokensCounted
<1>8. CASE RemoveSocket
  <2>1. /\ \A g \in Gens : value'[g] = value[g]
        /\ \A w1 \in Waiters : InHand(w1)' \in {0, InHand(w1)}
    BY <1>8 DEF RemoveSocket, sems, waits, InHand
  <2> QED  BY <1>past, <2>1, NoMoreTokens DEF TokensCounted
<1>9. ASSUME NEW w \in Waiters, Begin(w) PROVE TokensCounted'
  <2>1. /\ \A g \in Gens : value'[g] = value[g]
        /\ \A w1 \in Waiters : InHand(w1)' \in {0, InHand(w1)}
    BY <1>9 DEF Begin, Goto, sems, Types, InHand
  <2> QED  BY <1>past, <2>1, NoMoreTokens DEF TokensCounted
<1>10. ASSUME NEW w \in Waiters, Connect(w) PROVE TokensCounted'
  <2>1. /\ \A g \in Gens : value'[g] = value[g]
        /\ \A w1 \in Waiters : InHand(w1)' \in {0, InHand(w1)}
    BY <1>10 DEF Connect, Goto, sems, Types, InHand
  <2> QED  BY <1>past, <2>1, NoMoreTokens DEF TokensCounted
<1>11. ASSUME NEW w \in Waiters, Answered(w) PROVE TokensCounted'
  <2>1. /\ \A g \in Gens : value'[g] = value[g]
        /\ \A w1 \in Waiters : InHand(w1)' \in {0, InHand(w1)}
    BY <1>11 DEF Answered, Goto, sems, Types, InHand
  <2> QED  BY <1>past, <2>1, NoMoreTokens DEF TokensCounted
<1>12. ASSUME NEW w \in Waiters, HungUp(w) PROVE TokensCounted'
  <2>1. /\ \A g \in Gens : value'[g] = value[g]
        /\ \A w1 \in Waiters : InHand(w1)' \in {0, InHand(w1)}
    BY <1>12 DEF HungUp, Goto, sems, Types, InHand
  <2> QED  BY <1>past, <2>1, NoMoreTokens DEF TokensCounted
<1>13. ASSUME NEW w \in Waiters, ShmStartClient(w) PROVE TokensCounted'
  <2>1. /\ \A g \in Gens : value'[g] = value[g]
        /\ \A w1 \in Waiters : InHand(w1)' \in {0, InHand(w1)}
    BY <1>13 DEF ShmStartClient, AfterRefusal, Goto, sems, Types, InHand
  <2> QED  BY <1>past, <2>1, NoMoreTokens DEF TokensCounted
<1>14. ASSUME NEW w \in Waiters, Open(w) PROVE TokensCounted'
  <2>1. /\ \A g \in Gens : value'[g] = value[g]
        /\ \A w1 \in Waiters : InHand(w1)' \in {0, InHand(w1)}
    BY <1>14 DEF Open, Goto, Types, InHand
  <2> QED  BY <1>past, <2>1, NoMoreTokens DEF TokensCounted
<1>15. ASSUME NEW w \in Waiters, Down(w) PROVE TokensCounted'
  <2>1. /\ Past' = Past /\ sem[w] \in Gens
        /\ value[sem[w]] > 0 /\ value' = [value EXCEPT ![sem[w]] = @ - 1]
    BY <1>15 DEF Down, Past, Lost, Types
  <2>2. /\ InHand(w)' = InHand(w) + 1
        /\ \A v \in Waiters : v # w => InHand(v)' = InHand(v)
    BY <1>15 DEF Down, Goto, Types, Tries, InHand
  <2>3. ~NoToken
    BY <2>1 DEF NoToken, Types
  <2>4. ASSUME OneToken PROVE OneToken'
    <3>1. \A g \in Gens : value'[g] = 0
      BY <2>1, <2>4 DEF OneToken, Types
    <3>2. \A v \in Waiters : InHand(v) = 0
      BY <2>1, <2>4 DEF OneToken, Types
    <3> QED  BY <2>2, <3>1, <3>2 DEF OneToken
  <2> QED  BY <2>1, <2>3, <2>4 DEF TokensCounted, Alone
<1>16. ASSUME NEW w \in Waiters, Up(w) PROVE TokensCounted'
  <2>1. /\ Past' = Past /\ sem[w] \in Gens
        /\ value' = [value EXCEPT ![sem[w]] = @ + 1]
    BY <1>16 DEF Up, Past, Lost, Types
  <2>2. /\ InHand(w)' = 0 /\ InHand(w) \in {1, 2}
        /\ \A v \in Waiters : v # w => InHand(v)' = InHand(v)
    BY <1>16 DEF Up, Goto, Types, Tries, InHand
  <2>3. ~NoToken
    BY <2>2 DEF NoToken
  <2>4. ASSUME OneToken PROVE OneToken'
    <3>1. \A g \in Gens : value[g] = 0
      BY <2>2, <2>4 DEF OneToken
    <3>2. \A v \in Waiters : InHand(v)' = 0
      BY <2>2, <2>4 DEF OneToken
    <3>3. \A g \in Gens : value'[g] = IF g = sem[w] THEN 1 ELSE 0
      BY <2>1, <3>1 DEF Types
    <3> QED  BY <3>2, <3>3 DEF OneToken
  <2> QED  BY <2>1, <2>3, <2>4 DEF TokensCounted, Alone
<1>17. ASSUME NEW w \in Waiters, Finalize(w) PROVE TokensCounted'
  <2>1. /\ \A g \in Gens : value'[g] = value[g]
        /\ \A w1 \in Waiters : InHand(w1)' \in {0, InHand(w1)}
    BY <1>17 DEF Finalize, Goto, sems, Types, InHand
  <2> QED  BY <1>past, <2>1, NoMoreTokens DEF TokensCounted
<1>18. ASSUME NEW w \in Waiters, TimeOut(w) PROVE TokensCounted'
  <2>1. /\ \A g \in Gens : value'[g] = value[g]
        /\ \A w1 \in Waiters : InHand(w1)' \in {0, InHand(w1)}
    BY <1>18 DEF TimeOut, Goto, sems, Types, InHand
  <2> QED  BY <1>past, <2>1, NoMoreTokens DEF TokensCounted
<1>19. CASE UNCHANGED vars
  <2>1. /\ \A g \in Gens : value'[g] = value[g]
        /\ \A w1 \in Waiters : InHand(w1)' \in {0, InHand(w1)}
    BY <1>19 DEF vars, sems, waits, InHand
  <2> QED  BY <1>past, <2>1, NoMoreTokens DEF TokensCounted
<1> QED
  BY <1>1, <1>2, <1>3, <1>4, <1>5, <1>6, <1>7, <1>8, <1>9, <1>10, <1>11,
     <1>12, <1>13, <1>14, <1>15, <1>16, <1>17, <1>18, <1>19 DEF Next,
     ServerStep, WaiterStep

\* A waiter that puts back a token and keeps another has seen two posts.
LEMMA ThirdTryStep ==
  ASSUME Types, Tries, TokensCounted, ThirdTry, [Next]_vars
  PROVE  ThirdTry'
<1>past. Alone(Past)' => Alone(Past)
  BY PastGrows
<1>1. ASSUME NEW s \in Servers, Initialize(s) PROVE ThirdTry'
  BY <1>1, <1>past DEF Initialize, waits, ThirdTry
<1>2. ASSUME NEW s \in Servers, SemOpen(s) PROVE ThirdTry'
  BY <1>2, <1>past DEF SemOpen, waits, ThirdTry
<1>3. ASSUME NEW s \in Servers, SemPost(s) PROVE ThirdTry'
  BY <1>3, <1>past DEF SemPost, waits, ThirdTry
<1>4. ASSUME NEW s \in Servers, ShmStartServer(s) PROVE ThirdTry'
  BY <1>4, <1>past DEF ShmStartServer, ThirdTry
<1>5. ASSUME NEW s \in Servers, SemUnlink(s) PROVE ThirdTry'
  BY <1>5, <1>past DEF SemUnlink, waits, ThirdTry
<1>6. ASSUME NEW s \in Servers, KillServer(s) PROVE ThirdTry'
  BY <1>6, <1>past DEF KillServer, waits, ThirdTry
<1>7. ASSUME NEW s \in Servers, Crash(s) PROVE ThirdTry'
  BY <1>7, <1>past DEF Crash, waits, ThirdTry
<1>8. CASE RemoveSocket
  BY <1>8, <1>past DEF RemoveSocket, waits, ThirdTry
<1>9. ASSUME NEW w \in Waiters, Begin(w) PROVE ThirdTry'
  BY <1>9, <1>past DEF Begin, ThirdTry
<1>10. ASSUME NEW w \in Waiters, Connect(w) PROVE ThirdTry'
  BY <1>10, <1>past DEF Connect, ThirdTry
<1>11. ASSUME NEW w \in Waiters, Answered(w) PROVE ThirdTry'
  BY <1>11, <1>past DEF Answered, ThirdTry
<1>12. ASSUME NEW w \in Waiters, HungUp(w) PROVE ThirdTry'
  BY <1>12, <1>past DEF HungUp, ThirdTry
<1>13. ASSUME NEW w \in Waiters, ShmStartClient(w) PROVE ThirdTry'
  BY <1>13, <1>past DEF ShmStartClient, ThirdTry
<1>14. ASSUME NEW w \in Waiters, Open(w) PROVE ThirdTry'
  BY <1>14, <1>past DEF Open, ThirdTry
<1>15. ASSUME NEW w \in Waiters, Down(w) PROVE ThirdTry'
  BY <1>15, <1>past DEF Down, ThirdTry
<1>16. ASSUME NEW w \in Waiters, Up(w) PROVE ThirdTry'
  <2>1. ASSUME try[w] = 2 PROVE ~Alone(Past)
    <3>1. InHand(w) = 2
      BY <1>16, <2>1 DEF Up, InHand
    <3> QED  BY <3>1 DEF TokensCounted, OneToken
  <2>2. try[w] \in {1, 2}
    BY <1>16 DEF Up, Tries
  <2> QED  BY <1>16, <1>past, <2>1, <2>2 DEF Up, Tries, ThirdTry
<1>17. ASSUME NEW w \in Waiters, Finalize(w) PROVE ThirdTry'
  BY <1>17, <1>past DEF Finalize, ThirdTry
<1>18. ASSUME NEW w \in Waiters, TimeOut(w) PROVE ThirdTry'
  BY <1>18, <1>past DEF TimeOut, ThirdTry
<1>19. CASE UNCHANGED vars
  BY <1>19, <1>past DEF vars, waits, ThirdTry
<1> QED
  BY <1>1, <1>2, <1>3, <1>4, <1>5, <1>6, <1>7, <1>8, <1>9, <1>10, <1>11,
     <1>12, <1>13, <1>14, <1>15, <1>16, <1>17, <1>18, <1>19 DEF Next,
     ServerStep, WaiterStep

\* When two servers have posted and at most one is lost, one is lost, and the
\* other one can be reached.
LEMMA LeftServes ==
  ASSUME Types, ListenerHasPath, Alone(Lost), ~Alone(Past)
  PROVE  Lost # {} /\ Reachable
<1>1. PICK s \in Past, t \in Past : s # t
  BY DEF Alone
<1>2. \A r \in Past : r \in Lost \/ (phase[r] \in Listening /\ file = r)
  BY DEF Past, ListenerHasPath, Listening, Lost
<1>3. Lost # {}
  BY <1>1, <1>2
<1>4. PICK r \in Past : r \notin Lost
  BY <1>1 DEF Alone
<1>5. r \in Servers /\ r # None
  BY <1>4, NoServer DEF Past, Lost
<1> QED  BY <1>2, <1>3, <1>4, <1>5 DEF Reachable

\* The third call of a waiter finds the server that is left, and it answers.
LEMMA ThirdFindsStep ==
  ASSUME Types, ListenerHasPath, Tries, ThirdTry, ThirdFinds, [Next]_vars
  PROVE  ThirdFinds'
<1> DEFINE Finds(w) == /\ pc[w] = "failed" => w \in Timed
                       /\ try[w] = 3 /\ pc[w] = "asking" => phase[peer[w]] \in Listening
                       /\ try[w] = 3 /\ pc[w] = "asked" => peer[w] # None
<1> SUFFICES ASSUME Alone(Lost)' PROVE \A w \in Waiters : Finds(w)'
  BY DEF ThirdFinds
<1>alone. Alone(Lost)'
  OBVIOUS
<1>body. \A w \in Waiters : Finds(w)
  BY PastGrows DEF ThirdFinds
<1>peers. \A w \in Waiters : /\ Finds(w)
                             /\ try[w] = 3 /\ pc[w] = "asking" => peer[w] \in Servers
  <2>1. \A w \in Waiters : pc[w] = "asking" => peer[w] \in Servers
    BY DEF Tries
  <2> QED  BY <1>body, <2>1
<1>left. ~Alone(Past) => Lost # {} /\ Reachable
  BY LeftServes, PastGrows
<1>1. ASSUME NEW s \in Servers, Initialize(s) PROVE \A w1 \in Waiters : Finds(w1)'
  <2>1. \A t \in Servers : phase[t] \in Listening => phase'[t] \in Listening
    BY <1>1 DEF Initialize, Enter, Types, Listening
  <2> QED  BY <1>1, <1>peers, <2>1 DEF Initialize, waits
<1>2. ASSUME NEW s \in Servers, SemOpen(s) PROVE \A w1 \in Waiters : Finds(w1)'
  <2>1. \A t \in Servers : phase[t] \in Listening => phase'[t] \in Listening
    BY <1>2 DEF SemOpen, Enter, Types, Listening
  <2> QED  BY <1>2, <1>peers, <2>1 DEF SemOpen, waits
<1>3. ASSUME NEW s \in Servers, SemPost(s) PROVE \A w1 \in Waiters : Finds(w1)'
  <2>1. \A t \in Servers : phase[t] \in Listening => phase'[t] \in Listening
    BY <1>3 DEF SemPost, Enter, Types, Listening
  <2> QED  BY <1>3, <1>peers, <2>1 DEF SemPost, waits
<1>4. ASSUME NEW s \in Servers, ShmStartServer(s) PROVE \A w1 \in Waiters : Finds(w1)'
  <2>1. \A t \in Servers : phase[t] \in Listening => phase'[t] \in Listening
    BY <1>4 DEF ShmStartServer, Enter, Types, Listening
  <2>2. \A w \in Waiters : pc'[w] \in {"terminated", pc[w]}
    BY <1>4 DEF ShmStartServer
  <2> QED  BY <1>4, <1>peers, <2>1, <2>2 DEF ShmStartServer
<1>5. ASSUME NEW s \in Servers, SemUnlink(s) PROVE \A w1 \in Waiters : Finds(w1)'
  <2>1. \A t \in Servers : phase[t] \in Listening => phase'[t] \in Listening
    BY <1>5 DEF SemUnlink, Enter, Types, Listening
  <2> QED  BY <1>5, <1>peers, <2>1 DEF SemUnlink, waits
<1>6. ASSUME NEW s \in Servers, KillServer(s) PROVE \A w1 \in Waiters : Finds(w1)'
  <2>1. ASSUME NEW w \in Waiters, try[w] = 3, pc[w] = "asking", peer[w] = s PROVE FALSE
    <3>1. s \notin Lost /\ s \in Lost'
      BY <1>6 DEF KillServer, Enter, Types, Lost
    <3>2. PICK t \in Lost : TRUE
      BY <1>left, <2>1 DEF ThirdTry
    <3>3. t \in Lost'
      BY PastGrows
    <3> QED  BY <1>alone, <3>1, <3>2, <3>3 DEF Alone
  <2>2. \A t \in Servers \ {s} : phase'[t] = phase[t]
    BY <1>6 DEF KillServer, Enter, Types
  <2> QED  BY <1>6, <1>peers, <2>1, <2>2 DEF KillServer, waits
<1>7. ASSUME NEW s \in Servers, Crash(s) PROVE \A w1 \in Waiters : Finds(w1)'
  <2>1. ASSUME NEW w \in Waiters, try[w] = 3, pc[w] = "asking", peer[w] = s PROVE FALSE
    <3>1. phase[s] \in Listening
      BY <2>1, <1>body
    <3>2. s \notin Lost /\ s \in Lost'
      BY <1>7, <3>1 DEF Crash, Enter, Types, Lost, Listening
    <3>3. PICK t \in Lost : TRUE
      BY <1>left, <2>1 DEF ThirdTry
    <3>4. t \in Lost'
      BY PastGrows
    <3> QED  BY <1>alone, <3>2, <3>3, <3>4 DEF Alone
  <2>2. \A t \in Servers \ {s} : phase'[t] = phase[t]
    BY <1>7 DEF Crash, Enter, Types
  <2> QED  BY <1>7, <1>peers, <2>1, <2>2 DEF Crash, waits
<1>8. CASE RemoveSocket
  BY <1>8, <1>body DEF RemoveSocket, waits
<1>9. ASSUME NEW w \in Waiters, Begin(w) PROVE \A w1 \in Waiters : Finds(w1)'
  BY <1>9, <1>body DEF Begin, Goto, Types
<1>10. ASSUME NEW w \in Waiters, Connect(w) PROVE \A w1 \in Waiters : Finds(w1)'
  <2>1. CASE Reachable
    BY <1>10, <1>body, <2>1 DEF Connect, Goto, Types, Tries, Reachable
  <2>2. CASE ~Reachable
    <3>1. try[w] # 3
      BY <1>left, <2>2 DEF ThirdTry
    <3> QED  BY <1>10, <1>body, <2>2, <3>1 DEF Connect, Goto, Types
  <2> QED  BY <2>1, <2>2
<1>11. ASSUME NEW w \in Waiters, Answered(w) PROVE \A w1 \in Waiters : Finds(w1)'
  <2>1. try[w] = 3 => peer[w] # None
    BY <1>11, <1>peers DEF Answered, Tries
  <2> QED  BY <1>11, <1>body, <2>1 DEF Answered, Goto, Types
<1>12. ASSUME NEW w \in Waiters, HungUp(w) PROVE \A w1 \in Waiters : Finds(w1)'
  <2>1. try[w] # 3
    BY <1>12, <1>body DEF HungUp
  <2> QED  BY <1>12, <1>body, <2>1 DEF HungUp, Goto, Types, Tries
<1>13. ASSUME NEW w \in Waiters, ShmStartClient(w) PROVE \A w1 \in Waiters : Finds(w1)'
  <2>1. peer[w] = None => try[w] \in {1, 2}
    BY <1>13, <1>body DEF ShmStartClient, Tries
  <2> QED  BY <1>13, <1>body, <2>1 DEF ShmStartClient, AfterRefusal, Goto, Types
<1>14. ASSUME NEW w \in Waiters, Open(w) PROVE \A w1 \in Waiters : Finds(w1)'
  BY <1>14, <1>body DEF Open, Goto, Types
<1>15. ASSUME NEW w \in Waiters, Down(w) PROVE \A w1 \in Waiters : Finds(w1)'
  BY <1>15, <1>body DEF Down, Goto, Types
<1>16. ASSUME NEW w \in Waiters, Up(w) PROVE \A w1 \in Waiters : Finds(w1)'
  BY <1>16, <1>body DEF Up, Goto, Types, Tries
<1>17. ASSUME NEW w \in Waiters, Finalize(w) PROVE \A w1 \in Waiters : Finds(w1)'
  BY <1>17, <1>body DEF Finalize, Goto, Types
<1>18. ASSUME NEW w \in Waiters, TimeOut(w) PROVE \A w1 \in Waiters : Finds(w1)'
  BY <1>18, <1>body DEF TimeOut, Goto, Types
<1>19. CASE UNCHANGED vars
  BY <1>19, <1>body DEF vars, waits
<1> QED
  BY <1>1, <1>2, <1>3, <1>4, <1>5, <1>6, <1>7, <1>8, <1>9, <1>10, <1>11,
     <1>12, <1>13, <1>14, <1>15, <1>16, <1>17, <1>18, <1>19 DEF Next,
     ServerStep, WaiterStep

\* A set of servers with at most one element has no two.
LEMMA AtMostOne ==
  ASSUME NEW S \in SUBSET Servers, Cardinality(S) <= 1
  PROVE  Alone(S)
<1> SUFFICES ASSUME NEW s \in S, NEW t \in S, s # t PROVE FALSE
  BY DEF Alone
<1>1. IsFiniteSet(S) /\ Cardinality(S) \in Nat
  BY ServersFinite, FS_Subset, FS_CardinalityType
<1>2. IsFiniteSet({t}) /\ Cardinality({t}) = 1
  BY FS_Singleton
<1>3. Cardinality({t} \cup {s}) = 2 /\ IsFiniteSet({t} \cup {s})
  <2> DEFINE T == {t}
  <2>1. IsFiniteSet(T) /\ Cardinality(T) = 1 /\ s \notin T
    BY <1>2
  <2> HIDE DEF T
  <2>2. IsFiniteSet(T \cup {s}) /\ Cardinality(T \cup {s}) = Cardinality(T) + 1
    BY <2>1, FS_AddElement
  <2> QED  BY <2>1, <2>2 DEF T
<1>4. {t} \cup {s} \subseteq S
  OBVIOUS
<1>5. Cardinality({t} \cup {s}) <= Cardinality(S)
  BY <1>1, <1>4, FS_Subset
<1> QED  BY <1>1, <1>3, <1>5

\* A `wimectrl -t` without a number gives up only when two servers have been
\* lost, however many servers start, stop and crash beside it, and however
\* many others wait, pass tokens on, run out of time or are ended by a signal.
THEOREM NeverGivesUp == Spec => []UntimedNeverFails
<1>1. Init => WaitInv
  BY InitWaitInv
<1>2. IInv /\ WaitInv /\ [Next]_vars => WaitInv'
  <2> SUFFICES ASSUME IInv, WaitInv, [Next]_vars PROVE WaitInv'
    OBVIOUS
  <2> USE DEF IInv, WaitInv
  <2>1. Tries'
    BY TriesStep
  <2>2. TokensCounted'
    BY TokensCountedStep
  <2>3. ThirdTry'
    BY ThirdTryStep
  <2>4. ThirdFinds'
    BY ThirdFindsStep
  <2> QED  BY <2>1, <2>2, <2>3, <2>4
<1>3. WaitInv => UntimedNeverFails
  <2> SUFFICES ASSUME WaitInv, Cardinality(Lost) <= 1, NEW w \in Waiters \ Timed
               PROVE  pc[w] # "failed"
    BY DEF UntimedNeverFails
  <2>1. Alone(Lost)
    BY AtMostOne DEF Lost
  <2> QED  BY <2>1 DEF WaitInv, ThirdFinds
<1> QED  BY <1>1, <1>2, <1>3, Invariant, PTL DEF Spec
=============================================================================
