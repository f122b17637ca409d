------------------------------- MODULE PidLock -------------------------------
(***************************************************************************)
(* The table of process ids that the clients of the conversion server keep *)
(* in shared memory, and the named semaphore that is meant to protect it   *)
(* (lib/wimeconn.c).  Every call locks the table, works on it and unlocks  *)
(* it; unlocking also unlinks the semaphore's name, so that the next       *)
(* sem_open makes a new semaphore while processes may still wait on, or    *)
(* have just been let in by, the old one.                                  *)
(*                                                                         *)
(* A server that starts signals the processes in the table.  A client's    *)
(* handler (restart_server of so/wimeapi.c) makes two of these calls, on   *)
(* top of whatever its process was doing, another call on the table        *)
(* included: the flow of execution that it interrupts stands still until   *)
(* the handler is done.                                                    *)
(*                                                                         *)
(* One step is one system call, or the work between two of them.           *)
(***************************************************************************)
EXTENDS Naturals, FiniteSets

CONSTANTS Clients,     \* client processes, by pid; they have the handler
          Server,      \* the server process, which only announces its start
          TableSize,   \* cells of the table; PIDTABLE_MAX in the code
          Ids,         \* identities of semaphores and shared memory objects
          None,        \* no object, no cell's owner (pid 0)
          Together,    \* bound: sets of processes that may be in calls at once
          MaxStarts    \* bound: starts of the server

CallNames == {"ShmStartServer", "ShmStartClient", "ShmGetPidData", "ShmEndClient"}

\* The flows of execution: of each process the main one, of a client also its
\* handler, which is not interrupted by the same signal again.
Main(c) == <<c, "main">>
Handler(c) == <<c, "handler">>
Mains == {Main(c) : c \in Clients \cup {Server}}
Handlers == {Handler(c) : c \in Clients}
Flows == Mains \cup Handlers
Pid(p) == p[1]

ASSUME NoneAssumption == None \notin Ids \cup Clients \cup {Server} \cup CallNames
ASSUME ServerAssumption == Server \notin Clients
ASSUME TableAssumption == TableSize \in Nat \ {0}
ASSUME IdsAssumption == /\ IsFiniteSet(Clients) /\ IsFiniteSet(Ids)
                        /\ Cardinality(Ids) > Cardinality(Flows)

Cells == 0 .. TableSize - 1

VARIABLES
    call,      \* the call each flow is in, None outside of one
    pc,        \* where in that call it is
    lockName,  \* the semaphore that SEM_LOCK names, None after sem_unlink
    count,     \* the value of each semaphore
    lock,      \* the semaphore each flow has open
    shmName,   \* the memory object that SHMNAME names, None after shm_unlink
    table,     \* the contents of each memory object: a pid or None per cell
    map,       \* the object each flow has mapped; None is MAP_FAILED
    cell,      \* the cell that a flow is about to write or to look at
    started,   \* clients between ShmStartClient and ShmEndClient
    member,    \* those of them that found or wrote their pid in the table
    dead,      \* processes that ended
    signals,   \* clients for which a restart signal is pending
    starts,    \* how often the server has started
    extra,     \* history: posts to each semaphore by interrupted waiters
    contended  \* history: two main flows have been in a call at once

sem == <<lockName, count, lock>>
shm == <<shmName, table, map, cell>>
who == <<started, member, dead>>
news == <<signals, starts>>
vars == <<call, pc, sem, shm, who, news, extra, contended>>

Empty == [c \in Cells |-> None]

Init == /\ call = [p \in Flows |-> None]
        /\ pc = [p \in Flows |-> "idle"]
        /\ lockName = None
        /\ count = [k \in Ids |-> 0]
        /\ lock = [p \in Flows |-> None]
        /\ shmName = None
        /\ table = [m \in Ids |-> Empty]
        /\ map = [p \in Flows |-> None]
        /\ cell = [p \in Flows |-> None]
        /\ started = {}
        /\ member = {}
        /\ dead = {}
        /\ signals = {}
        /\ starts = 0
        /\ extra = [k \in Ids |-> 0]
        /\ contended = FALSE

Goto(p, label) == pc' = [pc EXCEPT ![p] = label]
Busy == {p \in Mains : pc[p] # "idle"}
Pids(m) == {table[m][c] : c \in Cells} \ {None}

\* An object without a name and without a user is gone; its identity, with
\* the contents of Init, serves for the next object.
NewSem == CHOOSE k \in Ids : k # lockName /\ \A p \in Flows : lock[p] # k
NewShm == CHOOSE m \in Ids : m # shmName /\ \A p \in Flows : map[p] # m
OnlyUser(p, used, x) == \A q \in Flows \ {p} : used[q] # x

\* A main flow stands still from the moment that a restart signal is pending,
\* which is delivered before anything else, until the handler is done.
HandlerIdle(p) == p \in Mains /\ Pid(p) # Server => pc[Handler(Pid(p))] = "idle"
Runs(p) == HandlerIdle(p) /\ (p \in Mains => Pid(p) \notin signals)

---------------------------------------------------------------------------
\* The calls: a client registers in WimeInitialize and unregisters in
\* WimeFinalize; its handler looks it up and registers it; the server
\* announces its start.
Calls(p) == IF p \in Handlers THEN {"ShmGetPidData", "ShmStartClient"}
            ELSE IF Pid(p) = Server THEN {"ShmStartServer"}
            ELSE {"ShmStartClient"}
                    \cup IF Pid(p) \in started THEN {"ShmEndClient"} ELSE {}

\* Faulty variants, named for the fault, stand before what they vary.
EnterShut(p, name) == /\ call' = [call EXCEPT ![p] = name]
                      /\ lockName' = IF lockName = None THEN NewSem ELSE lockName
                      /\ lock' = [lock EXCEPT ![p] = lockName']
                      /\ Goto(p, "sem_wait")
                      /\ UNCHANGED <<count, shm, who, extra>>

\* sem_open(SEM_LOCK, O_CREAT, 1): the named semaphore, or a new one.
Enter(p, name) == /\ call' = [call EXCEPT ![p] = name]
                  /\ \/ /\ lockName # None
                        /\ lock' = [lock EXCEPT ![p] = lockName]
                        /\ UNCHANGED <<lockName, count>>
                     \/ /\ lockName = None
                        /\ lockName' = NewSem
                        /\ count' = [count EXCEPT ![NewSem] = 1]
                        /\ lock' = [lock EXCEPT ![p] = NewSem]
                  /\ Goto(p, "sem_wait")
                  /\ UNCHANGED <<shm, who, extra>>

SemOpen(p) == /\ pc[p] = "idle"
              /\ Runs(p)
              /\ Pid(p) \notin dead
              /\ {Pid(q) : q \in Busy} \cup {Pid(p)} \in Together
              /\ \E c \in Calls(p) : Enter(p, c)
              /\ \/ Pid(p) # Server /\ UNCHANGED starts
                 \/ Pid(p) = Server /\ starts < MaxStarts /\ starts' = starts + 1
              /\ contended' = (contended \/ Busy # {})
              /\ UNCHANGED signals

\* The signal is delivered; until the handler returns it is blocked.  The
\* handler first looks up the number of the socket, ...
Handle(c) == /\ c \in signals
             /\ pc[Handler(c)] = "idle"
             /\ signals' = signals \ {c}
             /\ Enter(Handler(c), "ShmGetPidData")
             /\ UNCHANGED <<starts, contended>>

\* ... then WimeInitialize registers the process, connected or not.
Reconnect(c) == /\ pc[Handler(c)] = "between"
                /\ Enter(Handler(c), "ShmStartClient")
                /\ UNCHANGED <<news, contended>>

SemWait(p) == /\ pc[p] = "sem_wait"
              /\ Runs(p)
              /\ count[lock[p]] > 0
              /\ count' = [count EXCEPT ![lock[p]] = @ - 1]
              /\ Goto(p, "shm_open")
              /\ UNCHANGED <<call, lockName, lock, shm, who, news, extra, contended>>

SemWaitUnchecked(p) == /\ pc[p] = "sem_wait"
                       /\ HandlerIdle(p)
                       /\ count[lock[p]] = 0
                       /\ Goto(p, "shm_open")
                       /\ UNCHANGED <<call, sem, shm, who, news, extra, contended>>

\* A signal, for the restart handler or another, came while sem_wait was
\* blocked: it fails with EINTR, the table is not mapped and its size is 0,
\* but unlock_pid_table still posts.
SemInterrupted(p) == /\ pc[p] = "sem_wait"
                     /\ HandlerIdle(p)
                     /\ count[lock[p]] = 0
                     /\ extra' = [extra EXCEPT ![lock[p]] = @ + 1]
                     /\ Goto(p, "sem_post")
                     /\ UNCHANGED <<call, sem, shm, who, news, contended>>

\* shm_open(SHMNAME, O_CREAT) and mmap; a new object is all zero.
ShmOpen(p) == /\ pc[p] = "shm_open"
              /\ Runs(p)
              /\ \/ /\ shmName # None
                    /\ map' = [map EXCEPT ![p] = shmName]
                    /\ UNCHANGED shmName
                 \/ /\ shmName = None
                    /\ shmName' = NewShm
                    /\ map' = [map EXCEPT ![p] = NewShm]
              /\ cell' = [cell EXCEPT ![p] = IF call[p] = "ShmStartServer" THEN 0 ELSE None]
              /\ Goto(p, "work")
              /\ UNCHANGED <<call, sem, table, who, news, extra, contended>>

Works(p, name) == pc[p] = "work" /\ call[p] = name /\ Runs(p)

\* ShmStartClient looks for its own pid and then for a free cell; with no
\* free cell in the largest table it only logs that the table is full.
FindCell(p) ==
    /\ Works(p, "ShmStartClient")
    /\ \/ /\ Pid(p) \in Pids(map[p])
          /\ member' = member \cup {Pid(p)}
          /\ Goto(p, "sem_post")
          /\ UNCHANGED cell
       \/ /\ Pid(p) \notin Pids(map[p])
          /\ \E c \in Cells :
                /\ table[map[p]][c] = None
                /\ \A d \in Cells : d < c => table[map[p]][d] # None
                /\ cell' = [cell EXCEPT ![p] = c]
          /\ Goto(p, "write")
          /\ UNCHANGED member
       \/ /\ {Pid(p), None} \cap {table[map[p]][c] : c \in Cells} = {}
          /\ Goto(p, "sem_post")
          /\ UNCHANGED <<cell, member>>
    /\ UNCHANGED <<call, sem, shmName, table, map, started, dead, news, extra, contended>>

WriteCell(p) == /\ pc[p] = "write"
                /\ Runs(p)
                /\ table' = [table EXCEPT ![map[p]][cell[p]] = Pid(p)]
                /\ cell' = [cell EXCEPT ![p] = None]
                /\ member' = member \cup {Pid(p)}
                /\ Goto(p, "sem_post")
                /\ UNCHANGED <<call, sem, shmName, map, started, dead, news, extra, contended>>

\* ShmEndClient clears its cell, ...
ClearCell(p) == /\ Works(p, "ShmEndClient")
                /\ table' = [table EXCEPT ![map[p]] =
                      [c \in Cells |-> IF @[c] = Pid(p) THEN None ELSE @[c]]]
                /\ Goto(p, "scan")
                /\ UNCHANGED <<call, sem, shmName, map, cell, who, news, extra, contended>>

UnlinkWithoutScan(p) == /\ pc[p] = "scan"
                        /\ Runs(p)
                        /\ shmName' = None
                        /\ Goto(p, "sem_post")
                        /\ UNCHANGED <<call, sem, table, map, cell, who, news, extra, contended>>

\* ... and removes the name of the memory when no pid is left in the table.
ScanAndUnlink(p) == /\ pc[p] = "scan"
                    /\ Runs(p)
                    /\ shmName' = IF Pids(map[p]) = {} THEN None ELSE shmName
                    /\ Goto(p, "sem_post")
                    /\ UNCHANGED <<call, sem, table, map, cell, who, news, extra, contended>>

\* ShmStartServer looks at one cell after the other: it signals the process
\* and clears the cell of one that kill() does not find.
Announce(p) ==
    /\ Works(p, "ShmStartServer")
    /\ LET pid == table[map[p]][cell[p]]
       IN  /\ signals' = signals \cup ({pid} \ (dead \cup {None}))
           /\ table' = [table EXCEPT ![map[p]][cell[p]] = IF pid \in dead THEN None ELSE pid]
    /\ \/ /\ cell[p] + 1 \in Cells
          /\ cell' = [cell EXCEPT ![p] = @ + 1]
          /\ UNCHANGED pc
       \/ /\ cell[p] + 1 \notin Cells
          /\ cell' = [cell EXCEPT ![p] = None]
          /\ Goto(p, "sem_post")
    /\ UNCHANGED <<call, sem, shmName, map, who, starts, extra, contended>>

LookUp(p) == /\ Works(p, "ShmGetPidData")
             /\ Goto(p, "sem_post")
             /\ UNCHANGED <<call, sem, shm, who, news, extra, contended>>

\* unlock_pid_table: munmap, which ends a memory object that has lost its
\* name and its last user, ...
Unmap(p) == /\ map' = [map EXCEPT ![p] = None]
            /\ table' = [m \in Ids |-> IF m # shmName /\ OnlyUser(p, map, m)
                                       THEN Empty ELSE table[m]]

SemNotPosted(p) == /\ pc[p] = "sem_post"
                   /\ Runs(p)
                   /\ Unmap(p)
                   /\ Goto(p, "sem_unlink")
                   /\ UNCHANGED <<call, sem, shmName, cell, who, news, extra, contended>>

\* ... and sem_post, ...
SemPost(p) == /\ pc[p] = "sem_post"
              /\ Runs(p)
              /\ Unmap(p)
              /\ count' = [count EXCEPT ![lock[p]] = @ + 1]
              /\ Goto(p, "sem_unlink")
              /\ UNCHANGED <<call, lockName, lock, shmName, cell, who, news, extra, contended>>

\* ... then sem_close and sem_unlink, which removes the name of whatever
\* semaphore has it now; the call returns.
SemUnlink(p) ==
    /\ pc[p] = "sem_unlink"
    /\ Runs(p)
    /\ lock' = [lock EXCEPT ![p] = None]
    /\ lockName' = None
    /\ LET gone == {k \in Ids : OnlyUser(p, lock, k)}
       IN  /\ count' = [k \in Ids |-> IF k \in gone THEN 0 ELSE count[k]]
           /\ extra' = [k \in Ids |-> IF k \in gone THEN 0 ELSE extra[k]]
    /\ call' = [call EXCEPT ![p] = None]
    /\ started' = IF call[p] = "ShmStartClient" THEN started \cup {Pid(p)}
                  ELSE IF call[p] = "ShmEndClient" THEN started \ {Pid(p)} ELSE started
    /\ member' = IF call[p] = "ShmEndClient" THEN member \ {Pid(p)} ELSE member
    /\ Goto(p, IF call[p] = "ShmGetPidData" THEN "between" ELSE "idle")
    /\ UNCHANGED <<shm, dead, news, contended>>

\* A client ends outside of these calls, with or without WimeFinalize.
Die(c) == /\ c \in started
          /\ pc[Main(c)] = "idle" /\ pc[Handler(c)] = "idle"
          /\ dead' = dead \cup {c}
          /\ started' = started \ {c}
          /\ member' = member \ {c}
          /\ signals' = signals \ {c}
          /\ UNCHANGED <<call, pc, sem, shm, starts, extra, contended>>

Progress(p) == \/ SemWait(p) \/ ShmOpen(p)
               \/ FindCell(p) \/ WriteCell(p)
               \/ ClearCell(p) \/ ScanAndUnlink(p)
               \/ Announce(p) \/ LookUp(p)
               \/ SemPost(p) \/ SemUnlink(p)

Next == \/ \E p \in Mains : SemOpen(p)
        \/ \E p \in Flows : SemInterrupted(p) \/ Progress(p)
        \/ \E c \in Clients : Handle(c) \/ Reconnect(c) \/ Die(c)

\* What a process does in its calls: its handler comes before its main flow.
Goes(c) == \/ \E p \in Flows : Pid(p) = c /\ Progress(p)
           \/ c \in Clients /\ (Handle(c) \/ Reconnect(c))

\* A process in a call is scheduled and is not stopped in it, and a signal is
\* delivered.  A wait ends only while the semaphore is available; no signal
\* need come to cut it short.
Fairness == \A c \in Clients \cup {Server} : WF_vars(Goes(c))

Spec == Init /\ [][Next]_vars
FairSpec == Spec /\ Fairness

---------------------------------------------------------------------------
Labels == {"idle", "sem_wait", "shm_open", "work", "write", "scan", "sem_post",
           "sem_unlink", "between"}

TypeOK == /\ call \in [Flows -> CallNames \cup {None}]
          /\ \A p \in Flows : call[p] \in Calls(p) \cup {None}
          /\ pc \in [Flows -> Labels]
          /\ lockName \in Ids \cup {None}
          /\ count \in [Ids -> Nat]
          /\ lock \in [Flows -> Ids \cup {None}]
          /\ shmName \in Ids \cup {None}
          /\ table \in [Ids -> [Cells -> Clients \cup {None}]]
          /\ map \in [Flows -> Ids \cup {None}]
          /\ cell \in [Flows -> Cells \cup {None}]
          /\ started \in SUBSET Clients
          /\ member \in SUBSET Clients
          /\ dead \in SUBSET Clients
          /\ signals \in SUBSET Clients
          /\ dead \cap (started \cup member \cup signals) = {}
          /\ starts \in Nat
          /\ extra \in [Ids -> Nat]
          /\ contended \in BOOLEAN

Inside(p) == pc[p] \in {"shm_open", "work", "write", "scan"}
InUse(k) == k = lockName \/ \E p \in Flows : lock[p] = k
Posting(p) == pc[p] = "sem_post"
Holders(k) == {p \in Flows : lock[p] = k /\ (Inside(p) \/ Posting(p))}

\* Each semaphore, linked or not, keeps its one token: its value and the
\* flows that hold or are about to return the token add up to one, and to one
\* more for each wait on it that a signal cut short.  So without signals each
\* semaphore admits one process at a time, handlers that run on top of a
\* call included (lock_pid_table, unlock_pid_table).
TokenKept ==
    \A k \in Ids : InUse(k) => count[k] + Cardinality(Holders(k)) = 1 + extra[k]

\* What the lock is for: a client that has registered and lives finds itself
\* in the table that the name leads to (wimeconn.c:234 removes the memory
\* only when no process uses it).
RegisteredIsRecorded ==
    \A c \in member : pc[Main(c)] = "idle" => shmName # None /\ c \in Pids(shmName)

\* As long as no two processes have been in a call at once, it does, whatever
\* the handlers of a restart do meanwhile.
RecordedIfSerial == ~contended => RegisteredIsRecorded

\* Every call on the table returns, though no signal comes to cut its wait
\* short.  (Not so, because of the handler: PidLockNested.cfg.)
EveryCallReturns == \A p \in Flows : pc[p] # "idle" ~> pc[p] = "idle"

Blocked(p) == pc[p] = "sem_wait" /\ count[lock[p]] = 0

\* A ring of clients: the handler of each waits for a token that only main
\* flows of the ring have, which stand still until their handlers are done.
Ring(S) == \A c \in S : /\ Blocked(Handler(c))
                        /\ Holders(lock[Handler(c)]) \subseteq {Main(d) : d \in S}

\* Processes that wait only for each other.
WaitInside(S) ==
    \A c \in S : \E p \in Flows : /\ Pid(p) = c /\ Runs(p) /\ Blocked(p)
                                  /\ {Pid(q) : q \in Holders(lock[p])} \subseteq S

\* Nobody waits on a semaphore that has lost its name without somebody to post
\* it, and calls of several processes do not wait for each other in a circle,
\* with one exception: handlers that wait for what their own main flows hold
\* (restart_server on top of lock_pid_table).
StuckOnlyInRing ==
    \A S \in (SUBSET (Clients \cup {Server})) \ {{}} :
        WaitInside(S) => \E R \in (SUBSET (S \cap Clients)) \ {{}} : Ring(R)

\* So every call on the table returns, and every handler, unless there is such
\* a ring.
CallsReturnUnlessRing ==
    \A p \in Flows : pc[p] # "idle" ~>
        pc[p] = "idle" \/ \E R \in (SUBSET Clients) \ {{}} : Ring(R)
===========================================================================
