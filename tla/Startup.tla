------------------------------- MODULE Startup -------------------------------
(***************************************************************************)
(* How the conversion server starts and stops, and how `wimectrl -t` waits *)
(* for it (wimectrl/main.c, lib/wimeconn.c, io/wimeio.c, exe/main.c).      *)
(*                                                                         *)
(* Servers and waiting programs meet in three places: the socket file,     *)
(* which a server that crashes leaves behind; a named semaphore, which a   *)
(* starting server posts and a stopping one unlinks; and the table of      *)
(* process ids, through which a starting server signals its clients.  One  *)
(* step is one system call, or the work of one call into a library.        *)
(* The lock of the table is PidLock's; here its calls are atomic.          *)
(***************************************************************************)
EXTENDS Naturals, FiniteSets

CONSTANTS Servers,    \* server processes; each starts once
          Waiters,    \* processes that run `wimectrl -t`
          Timed,      \* those of them that gave -t a number of milliseconds
          None,       \* no socket file, no connection
          MaxCrashes  \* bound: servers that end without KillServer

ASSUME NoServer == None \notin Servers
ASSUME SomeTimed == Timed \subseteq Waiters
ASSUME ServersFinite == IsFiniteSet(Servers)
ASSUME ServersDoNotWait == Servers \cap Waiters = {}

VARIABLES
    phase,       \* how far each server is
    file,        \* the server whose bind made the socket file
    gen,         \* the semaphore that /wimerun names now; unlinking it makes
                 \*   the next sem_open create another one
    value,       \* the value of each semaphore
    sem,         \* the semaphore each process has open
    pc,          \* where each waiter is in wait_usable
    try,         \* which of its three calls of ini_wime it makes
    peer,        \* the server it is connected to
    registered   \* waiters in the table of process ids

sems == <<gen, value, sem>>
waits == <<pc, try, peer>>
vars == <<phase, file, sems, waits, registered>>

Gens == 0 .. Cardinality(Servers)

Init == /\ phase = [s \in Servers |-> "new"]
        /\ file = None
        /\ gen = 0
        /\ value = [g \in Gens |-> 0]
        /\ sem = [p \in Servers \cup Waiters |-> 0]
        /\ pc = [w \in Waiters |-> "idle"]
        /\ try = [w \in Waiters |-> 1]
        /\ peer = [w \in Waiters |-> None]
        /\ registered = {}

Listening == {"listening", "opened", "posted", "serving"}
Ends == {"done", "failed", "terminated"}
Reachable == file # None /\ phase[file] \in Listening
Running == {w \in Waiters : pc[w] \notin Ends \cup {"idle"}}

Enter(s, p) == phase' = [phase EXCEPT ![s] = p]
Goto(w, label) == pc' = [pc EXCEPT ![w] = label]

-----------------------------------------------------------------------------
(* The server. *)

\* As MakeSocket, but it takes the path whoever has it.
MakeSocketTakesOver(s) == file' = s

\* ImInit and make_socket: bind fails when there is such a file, whoever left
\* it; then the process listens.
MakeSocket(s) == file = None /\ file' = s

\* initialize; a server that has no socket exits.
Initialize(s) == /\ phase[s] = "new"
                 /\ \/ MakeSocket(s) /\ Enter(s, "listening")
                    \/ file # None /\ Enter(s, "failed") /\ UNCHANGED file
                 /\ UNCHANGED <<sems, waits, registered>>

\* ImSemStart is SemPost: sem_open first ...
SemOpen(s) == /\ phase[s] = "listening"
              /\ Enter(s, "opened")
              /\ sem' = [sem EXCEPT ![s] = gen]
              /\ UNCHANGED <<file, gen, value, waits, registered>>

\* ... then sem_post.
SemPost(s) == /\ phase[s] = "opened"
              /\ Enter(s, "posted")
              /\ value' = [value EXCEPT ![sem[s]] = @ + 1]
              /\ UNCHANGED <<file, gen, sem, waits, registered>>

\* The server sends every registered process SIGUSR1 and forgets those that
\* are gone.  wimectrl has no handler for it, so the signal ends a waiter.
\* The message loop, which answers requests, only starts afterwards.
ShmStartServer(s) ==
    /\ phase[s] = "posted"
    /\ Enter(s, "serving")
    /\ pc' = [w \in Waiters |-> IF w \in registered \cap Running
                                THEN "terminated" ELSE pc[w]]
    /\ registered' = registered \cap Running
    /\ UNCHANGED <<file, sems, try, peer>>

\* ImCloseAll shuts the sockets down and unlinks the path.
ImCloseAll == file' = None

\* A client's request ends the server; the message loop is asked to end.
KillServer(s) == /\ phase[s] = "serving"
                 /\ Enter(s, "killed")
                 /\ ImCloseAll
                 /\ UNCHANGED <<sems, waits, registered>>

\* As SemUnlink, but the process exits without it.
ExitOnly(s) == /\ phase[s] = "killed"
               /\ Enter(s, "exited")
               /\ UNCHANGED <<file, sems, waits, registered>>

\* The end of main: whatever semaphore the name has by now loses it.
SemUnlink(s) == /\ phase[s] = "killed"
                /\ Enter(s, "exited")
                /\ gen' = gen + 1
                /\ UNCHANGED <<file, value, sem, waits, registered>>

Crash(s) == /\ phase[s] \in Listening \cup {"killed"}
            /\ Cardinality({t \in Servers : phase[t] = "crashed"}) < MaxCrashes
            /\ Enter(s, "crashed")
            /\ UNCHANGED <<file, sems, waits, registered>>

\* The user removes the socket of a crashed server, as the Readme asks.
RemoveSocket == /\ file # None /\ phase[file] = "crashed"
                /\ file' = None
                /\ UNCHANGED <<phase, sems, waits, registered>>

-----------------------------------------------------------------------------
(* wimectrl -t.  Each call of ini_wime is Connect, perhaps Answered or     *)
(* HungUp, and ShmStartClient.                                             *)

Begin(w) == /\ pc[w] = "idle"
            /\ Goto(w, "connect")
            /\ UNCHANGED <<phase, file, sems, try, peer, registered>>

\* ConnectServer: the kernel accepts for a server that listens, whether or
\* not it serves yet, and Snd0 sends the request.
Connect(w) == /\ pc[w] = "connect"
              /\ \/ /\ Reachable
                    /\ Goto(w, "asking")
                    /\ peer' = [peer EXCEPT ![w] = file]
                 \/ /\ ~Reachable
                    /\ Goto(w, "asked")
                    /\ UNCHANGED peer
              /\ UNCHANGED <<phase, file, sems, try, registered>>

Answered(w) == /\ pc[w] = "asking" /\ phase[peer[w]] = "serving"
               /\ Goto(w, "asked")
               /\ UNCHANGED <<phase, file, sems, try, peer, registered>>

\* Rcv0 fails when the server has gone; the library disconnects.
HungUp(w) == /\ pc[w] = "asking" /\ phase[peer[w]] \notin Listening
             /\ Goto(w, "asked")
             /\ peer' = [peer EXCEPT ![w] = None]
             /\ UNCHANGED <<phase, file, sems, try, registered>>

\* As AfterRefusal, but after_wait does not take back its own token.
AfterRefusalDirectly(n) == CASE n = 1 -> "open" [] n = 2 -> "again" [] OTHER -> "failed"

\* What follows the n-th ini_wime that found no server: SemWait, the two
\* further waits of after_wait, END_FAIL.
AfterRefusal(n) == CASE n = 1 -> "open" [] n = 2 -> "own" [] OTHER -> "failed"

\* WimeInitialize registers the process whether or not there is a server.
ShmStartClient(w) == /\ pc[w] = "asked"
                     /\ registered' = registered \cup {w}
                     /\ Goto(w, IF peer[w] # None THEN "usable" ELSE AfterRefusal(try[w]))
                     /\ UNCHANGED <<phase, file, sems, try, peer>>

Open(w) == /\ pc[w] = "open"
           /\ Goto(w, "wait")
           /\ sem' = [sem EXCEPT ![w] = gen]
           /\ UNCHANGED <<phase, file, gen, value, try, peer, registered>>

\* sem_wait: SemWait's own (sem_timedwait for some), and after_wait's two.
Down(w) == /\ \/ pc[w] = "wait" /\ Goto(w, "post")
              \/ pc[w] = "own" /\ Goto(w, "again")
              \/ pc[w] = "again" /\ Goto(w, "post")
           /\ value[sem[w]] > 0
           /\ value' = [value EXCEPT ![sem[w]] = @ - 1]
           /\ UNCHANGED <<phase, file, gen, sem, try, peer, registered>>

\* As Up, but the waiter keeps the token it was woken with.
UpNothing(w) == /\ pc[w] = "post"
                /\ Goto(w, "connect")
                /\ try' = [try EXCEPT ![w] = @ + 1]
                /\ UNCHANGED <<phase, file, sems, peer, registered>>

\* sem_post, in SemWait and at the end of after_wait; then ini_wime again.
Up(w) == /\ pc[w] = "post"
         /\ Goto(w, "connect")
         /\ value' = [value EXCEPT ![sem[w]] = @ + 1]
         /\ try' = [try EXCEPT ![w] = @ + 1]
         /\ UNCHANGED <<phase, file, gen, sem, peer, registered>>

\* sem_timedwait gives up; only the first wait of the three is timed.
TimeOut(w) == /\ w \in Timed /\ pc[w] = "wait"
              /\ Goto(w, "failed")
              /\ UNCHANGED <<phase, file, sems, try, peer, registered>>

\* main's WimeFinalize, with ShmEndClient.
Finalize(w) == /\ pc[w] = "usable"
               /\ Goto(w, "done")
               /\ registered' = registered \ {w}
               /\ UNCHANGED <<phase, file, sems, try, peer>>

-----------------------------------------------------------------------------

ServerStep(s) == SemOpen(s) \/ SemPost(s) \/ ShmStartServer(s) \/ SemUnlink(s)

WaiterStep(w) == \/ Connect(w) \/ Answered(w) \/ HungUp(w) \/ ShmStartClient(w)
                 \/ Open(w) \/ Down(w) \/ Up(w) \/ Finalize(w)

Next == \/ \E s \in Servers : Initialize(s) \/ ServerStep(s) \/ KillServer(s) \/ Crash(s)
        \/ RemoveSocket
        \/ \E w \in Waiters : Begin(w) \/ WaiterStep(w) \/ TimeOut(w)

\* A process that can run does run; nobody has to start, kill or crash a
\* server, remove its socket, or let a time limit pass.
Fairness == /\ \A s \in Servers : WF_vars(ServerStep(s))
            /\ \A w \in Waiters : WF_vars(WaiterStep(w))

Spec == Init /\ [][Next]_vars /\ Fairness

-----------------------------------------------------------------------------
(* Properties *)

\* Every variable has its type, and the path belongs to no server that has
\* stopped in order.
STypeOK == /\ \A s \in Servers :
                phase[s] \in Listening \cup {"new", "failed", "killed", "exited", "crashed"}
           /\ file \in {None} \cup {s \in Servers : phase[s] \in Listening \cup {"crashed"}}
           /\ gen \in Gens
           /\ value \in [Gens -> 0 .. Cardinality(Servers)]
           /\ sem \in [Servers \cup Waiters -> Gens]
           /\ \A w \in Waiters :
                pc[w] \in Ends \cup {"idle", "connect", "asking", "asked", "open", "wait",
                                     "own", "again", "post", "usable"}
           /\ try \in [Waiters -> 1 .. 3]
           /\ peer \in [Waiters -> Servers \cup {None}]
           /\ registered \subseteq Waiters

\* A server that listens can be reached: the socket file is its own, although
\* servers start, stop and crash beside each other (make_socket's bind,
\* ImCloseAll's unlink).  So there are never two.
ListenerHasPath == \A s \in Servers : phase[s] \in Listening => file = s

\* As long as nothing has crashed, the semaphore that newcomers open holds a
\* token only while a server that posted one has not exited: the SemUnlink of
\* main leaves nothing that would release a later `wimectrl -t` too early.
TokenMeansServer ==
    (\A s \in Servers : phase[s] # "crashed")
    => (value[gen] > 0 => \E s \in Servers : phase[s] \in {"posted", "serving", "killed"})

Lost == {s \in Servers : phase[s] \in {"crashed", "killed", "exited"}}

\* "-1: without limit": a `wimectrl -t` without a number never gives up, not
\* even after it was released by what one lost server left behind; that is
\* what after_wait is for.
UntimedNeverFails == Cardinality(Lost) <= 1
                     => \A w \in Waiters \ Timed : pc[w] # "failed"

Started(w) == pc[w] # "idle" /\ \E s \in Servers : phase[s] = "serving"

\* If no server is lost, each process that waits is let go once there is one,
\* however its steps and the server's bind, post and signal are ordered, and
\* however many wait: every one that SemWait lets in posts for the next.
\* That no signal has ended one before its post is a condition: see
\* WaitersLetGo.
UnsignalledLetGo == [](Lost = {} /\ \A w \in Waiters : pc[w] # "terminated")
                    => \A w \in Waiters : Started(w) ~> pc[w] \in Ends

\* What `-t` is for, without that condition: a process that waits stops
\* waiting when there is a server.
WaitersLetGo == [](Lost = {}) => \A w \in Waiters : Started(w) ~> pc[w] \in Ends
==============================================================================
