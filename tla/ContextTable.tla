--------------------------- MODULE ContextTable ---------------------------
(***************************************************************************)
(* The tables of the conversion server wime.exe: which connections have    *)
(* initialised a Canna session, which conversion contexts they hold, and   *)
(* which input window each context uses (exe/apisup.c and the session      *)
(* requests of exe/canna.c).                                               *)
(*                                                                         *)
(* A request is handled to its end before the next one is read: recv_xim   *)
(* reads a packet and hands it to the window thread with SendMessageW,     *)
(* which returns when the handler has returned; a disconnection is handled *)
(* by recv_xim itself before it reads on.  So one request is one action.   *)
(*                                                                         *)
(* The window, its IME window and its default input context travel         *)
(* together through the stock (InputWinData); one handle stands for them.  *)
(***************************************************************************)
EXTENDS Naturals, Sequences, FiniteSets, Functions

CONSTANTS Fds,          \* descriptors that accept() may return (never 0)
          Handles,      \* values of HWND; a destroyed window's may come back
          MaxContexts,  \* bound: the array Context grows without limit
          NoFd,         \* the Connection of a context never opened (0)
          NoWin         \* the Win of a context that is closed (NULL)

ASSUME MaxContextsAssumption == MaxContexts \in Nat \ {0}
ASSUME NoFdAssumption == NoFd \notin Fds
ASSUME NoWinAssumption == NoWin \notin Handles

Slots == 0 .. MaxContexts - 1     \* context numbers

VARIABLES server,   \* "up", "killed" (KillServer) or "crashed"
          open,     \* descriptors of accepted, still open connections
          clients,  \* descriptors with an entry in Clients
          win,      \* Context[n].Win; cells past the array's end are NoWin
          owner,    \* Context[n].Connection, left stale by a close
          stock,    \* InputWins, used from its end
          wins      \* input windows that exist

table == <<clients, win, owner, stock, wins>>
vars == <<server, open, table>>

Live(n) == win[n] # NoWin
Owned(fd) == {n \in Slots : Live(n) /\ owner[n] = fd}

---------------------------------------------------------------------------
\* The tables as InitClientData leaves them.
Init == /\ server = "up"
        /\ open = {}
        /\ clients = {}
        /\ win = [n \in Slots |-> NoWin]
        /\ owner = [n \in Slots |-> NoFd]
        /\ stock = <<>>
        /\ wins = {}

\* The process ends, and with it its windows, sockets and memory.
Stop(how) == /\ server' = how
             /\ open' = {}
             /\ clients' = {}
             /\ win' = [n \in Slots |-> NoWin]
             /\ owner' = [n \in Slots |-> NoFd]
             /\ stock' = <<>>
             /\ wins' = {}

---------------------------------------------------------------------------
\* Faulty variants, named for the fault, stand before what they vary; each
\* shows that some property can fail (README, "Mutants").
PopWinKept(w) == \/ /\ stock = <<>>
                    /\ w \in Handles \ wins
                    /\ wins' = wins \cup {w}
                    /\ stock' = stock
                 \/ /\ stock # <<>>
                    /\ w = stock[Len(stock)]
                    /\ UNCHANGED <<stock, wins>>

\* pop_win: the last window of the stock or, when it is empty, a new one.
PopWin(w) == \/ /\ stock = <<>>
                /\ w \in Handles \ wins
                /\ wins' = wins \cup {w}
                /\ stock' = stock
             \/ /\ stock # <<>>
                /\ w = stock[Len(stock)]
                /\ stock' = SubSeq(stock, 1, Len(stock) - 1)
                /\ wins' = wins

FirstFreeOrLast(n) == \/ ~Live(n) /\ \A m \in Slots : m < n => Live(m)
                      \/ n = MaxContexts - 1 /\ \A m \in Slots : Live(m)

\* ArFindElemIf(&Context, 0, eq_wnd, NULL): the first cell with no window.
FirstFree(n) == ~Live(n) /\ \A m \in Slots : m < n => Live(m)

\* OpenCannaContext for a descriptor that has an entry in Clients.
OpenCannaContext(fd) ==
    \E n \in Slots, w \in Handles :
        /\ FirstFree(n)
        /\ PopWin(w)
        /\ win' = [win EXCEPT ![n] = w]
        /\ owner' = [owner EXCEPT ![n] = fd]

\* The members of S in the order ArForEach visits them.
Visits(S) == {v \in Bijection(1 .. Cardinality(S), S) :
                 \A i, j \in DOMAIN v : i < j => v[i] < v[j]}

\* CloseCannaContext on each context of S: push_win, then Win = NULL.
CloseCannaContexts(S) ==
    /\ \E v \in Visits(S) : stock' = stock \o [i \in DOMAIN v |-> win[v[i]]]
    /\ win' = [n \in Slots |-> IF n \in S THEN NoWin ELSE win[n]]
    /\ UNCHANGED <<owner, wins>>

CloseConnectionOnly(fd) == /\ clients' = clients \ {fd}
                           /\ UNCHANGED <<win, owner, stock, wins>>

CloseEveryContext(fd) ==
    \/ /\ fd \in clients
       /\ clients' = clients \ {fd}
       /\ CloseCannaContexts({n \in Slots : Live(n)})
    \/ /\ fd \notin clients
       /\ UNCHANGED table

\* CloseConnection: false, and nothing done, when there is no such client.
CloseConnection(fd) ==
    \/ /\ fd \in clients
       /\ clients' = clients \ {fd}
       /\ CloseCannaContexts(Owned(fd))
    \/ /\ fd \notin clients
       /\ UNCHANGED table

---------------------------------------------------------------------------
Accept(fd) == /\ fd \notin open
              /\ open' = open \cup {fd}
              /\ UNCHANGED <<server, table>>

\* Request 01; the version error and a second Initialize change nothing.
Initialize(fd) == /\ fd \in open \ clients
                  /\ clients' = clients \cup {fd}
                  /\ OpenCannaContext(fd)
                  /\ UNCHANGED <<server, open>>

\* Request 02.
Finalize(fd) == /\ fd \in open
                /\ CloseConnection(fd)
                /\ UNCHANGED <<server, open>>

\* recv_xim after a read of the header that returned 0 or an error.
Disconnect(fd) == /\ fd \in open
                  /\ open' = open \ {fd}
                  /\ CloseConnection(fd)
                  /\ UNCHANGED server

\* Request 03; the reply is -1, and nothing is done, without FindClient(fd).
CreateContext(fd) == /\ fd \in open \cap clients
                     /\ OpenCannaContext(fd)
                     /\ UNCHANGED <<server, open, clients>>

\* Request 04 for a valid source context src, by any connection.  The result
\* of OpenCannaContext is used without a test, and it is NULL when the caller
\* has no entry in Clients.
DupContext(fd, src) == /\ fd \in open
                       /\ Live(src)
                       /\ \/ /\ fd \in clients
                             /\ OpenCannaContext(fd)
                             /\ UNCHANGED <<server, open, clients>>
                          \/ /\ fd \notin clients
                             /\ Stop("crashed")

\* Request 05: ValidContext does not ask whose context it is.
CloseContext(fd, n) == /\ fd \in open
                       /\ Live(n)
                       /\ CloseCannaContexts({n})
                       /\ UNCHANGED <<server, open, clients>>

\* Requests 21 (SetAppName) and 22 (NoticeGroup): FindClient's result is used
\* without a test.  With an entry only the client's names change, which no
\* other operation reads.
NameClient(fd) == /\ fd \in open \ clients
                  /\ Stop("crashed")

\* ReloadConf ends with ReplaceWindow: every context in use gives its window
\* to the stock, the stock is destroyed, and pop_win, with the stock empty,
\* makes a new window for each of them.
ReplaceWindow ==
    /\ \E new \in Injection({n \in Slots : Live(n)}, Handles) :
          /\ win' = [n \in Slots |-> IF Live(n) THEN new[n] ELSE NoWin]
          /\ wins' = Range(new)
    /\ stock' = <<>>
    /\ UNCHANGED <<clients, owner>>

ReloadConf(fd) == /\ fd \in open
                  /\ ReplaceWindow
                  /\ UNCHANGED <<server, open>>

KillServer(fd) == /\ fd \in open
                  /\ Stop("killed")

\* main: a new process starts from InitClientData.
Restart == /\ server # "up"
           /\ server' = "up"
           /\ UNCHANGED <<open, table>>

Request(fd) == \/ Accept(fd)
               \/ Initialize(fd)
               \/ Finalize(fd)
               \/ Disconnect(fd)
               \/ CreateContext(fd)
               \/ \E n \in Slots : DupContext(fd, n)
               \/ \E n \in Slots : CloseContext(fd, n)
               \/ NameClient(fd)
               \/ ReloadConf(fd)
               \/ KillServer(fd)

Next == \/ server = "up" /\ \E fd \in Fds : Request(fd)
        \/ Restart

Spec == Init /\ [][Next]_vars

---------------------------------------------------------------------------
TypeOK == /\ server \in {"up", "killed", "crashed"}
          /\ open \in SUBSET Fds
          /\ clients \in SUBSET Fds
          /\ win \in [Slots -> Handles \cup {NoWin}]
          /\ owner \in [Slots -> Fds \cup {NoFd}]
          /\ stock \in Seq(Handles)
          /\ wins \in SUBSET Handles

\* No two contexts share an input window.
ContextsApart ==
    \A m, n \in Slots : Live(m) /\ win[m] = win[n] => m = n

\* No window is twice in the stock, and none of the stock is in use.
StockApart == /\ IsInjective(stock)
              /\ \A n \in Slots : win[n] \notin Range(stock)

\* Every window that exists is in use or in the stock, and those are the
\* windows that exist: none is lost, none is used after it was destroyed.
InUse == {win[n] : n \in {m \in Slots : Live(m)}}
NoneLost == wins = Range(stock) \cup InUse

\* Each input window belongs to exactly one context or once to the stock,
\* whatever the order of opens, closes, disconnections and reloads: pop_win,
\* push_win and ReplaceWindow never lose or share one.
WindowsExclusive == ContextsApart /\ StockApart /\ NoneLost

\* A context in use belongs to a connection that is open and initialised:
\* CloseConnection leaves none behind for the next user of the descriptor.
OwnersConnected ==
    /\ clients \subseteq open
    /\ \A n \in Slots : Live(n) => owner[n] \in clients

\* What one connection does to the table leaves the contexts of the others
\* alone, except an explicit close of one context and a reload, which
\* changes windows but never who owns what.
Ends(fd) == Finalize(fd) \/ Disconnect(fd)
Opens(fd) == /\ server' = "up"
             /\ \/ Initialize(fd)
                \/ CreateContext(fd)
                \/ \E n \in Slots : DupContext(fd, n)

Separate(fd) ==
    /\ Ends(fd) => \A n \in Slots : Live(n) =>
                      IF owner[n] = fd THEN ~Live(n)' ELSE win'[n] = win[n]
    /\ Opens(fd) => /\ Cardinality(Owned(fd)') = Cardinality(Owned(fd)) + 1
                    /\ \A n \in Slots : Live(n) =>
                          win'[n] = win[n] /\ owner'[n] = owner[n]
    /\ ReloadConf(fd) => \A n \in Slots : Live(n)' <=> Live(n)

Isolation == [][\A fd \in Fds : Separate(fd)]_vars

\* A connection that has not initialised, or has finalised, gets an error for
\* a request that needs a session, and the server goes on (the replies to 04
\* in canna.c:130 and to 21 in canna.c:1943 have an error value).
StrangersGetErrors ==
    [][\A fd \in Fds : NameClient(fd) \/ (\E n \in Slots : DupContext(fd, n))
                          => server' = "up"]_vars

---------------------------------------------------------------------------
\* The promise of the tables, see Sessions.
S == INSTANCE Sessions WITH
        Ids <- Slots,
        up <- (server = "up"),
        members <- clients,
        sessions <- [fd \in Fds |-> Owned(fd)]

\* Every behaviour of the tables is one of Sessions.
ImplementsSessions == S!Spec
===========================================================================
