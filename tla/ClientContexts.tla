---------------------------- MODULE ClientContexts ----------------------------
(***************************************************************************)
(* The conversion contexts of one application process: the table LibCxn of *)
(* the client library (so/wimeapi.c), which gives an application an index  *)
(* for every context number of the server, and the input widgets of the    *)
(* GTK and Qt modules (gtk3/gim.c, qt5/qim.cc) that keep such an index     *)
(* across restarts of the server.                                          *)
(*                                                                         *)
(* A widget operation is a sequence of steps, one request to the server or *)
(* one assignment each, and the handler of the restart signal may run      *)
(* between any two of them.  A request and its reply are one step.  The    *)
(* server appears by what it does for this process's connection.           *)
(***************************************************************************)
EXTENDS Integers, Sequences, FiniteSets

CONSTANTS Widgets,    \* input contexts of the toolkit
          Numbers,    \* context numbers of the server
          Toolkits,   \* the modules considered, of "gtk" and "qt"
          MaxStarts,  \* bound: starts of the server
          Global,     \* the user of the context that Initialize opens
          None        \* no user, no widget, an empty cell (-1)

ASSUME ToolkitsAssumption == Toolkits \subseteq {"gtk", "qt"}
ASSUME StartsAssumption == MaxStarts \in Nat
ASSUME NoneAssumption == Global # None /\ {Global, None} \cap Widgets = {}
                           /\ None \notin Numbers

VARIABLES
    toolkit,    \* which module this process has loaded
    server,     \* starts of the server so far
    up,         \* the server runs
    held,       \* user of each context the server has for this connection
    fd,         \* the start the socket Fd was connected to; 0 when Fd is -1
    libcxn,     \* LibCxn; index n of the code is position n + 1
    registered, \* the process is in the pid table
    signalled,  \* a restart signal is pending
    count,      \* RestartServerCount
    alive,      \* widgets that exist
    cxn,        \* WimeCxn of each widget, an index or -1
    level,      \* ServerLevel of each widget
    op,         \* the operation in progress and the widget it is for
    at,         \* its next step
    reached,    \* history: whose context the operation's requests named
    present     \* history: widgets whose index is from the present LibCxn

link == <<server, up, held, fd, libcxn, registered, signalled, count>>
widgets == <<alive, cxn, level>>
vars == <<toolkit, link, widgets, op, at, reached, present>>

Connected == up /\ fd = server
Nobody == [k \in Numbers |-> None]
Free == {k \in Numbers : held[k] = None}

\* translate_cx: the server's number of index i, None when there is none.
Number(i) == IF i + 1 \in DOMAIN libcxn THEN libcxn[i + 1] ELSE None

\* WimeOpenedContext.
Opened == Cardinality({p \in DOMAIN libcxn : libcxn[p] # None})

Init == /\ toolkit \in Toolkits
        /\ server = 0 /\ up = FALSE
        /\ held = Nobody
        /\ fd = 0
        /\ libcxn = <<>>
        /\ registered = TRUE      \* WimeInitialize of the module's load
        /\ signalled = FALSE
        /\ count = 0
        /\ alive = {}
        /\ cxn = [w \in Widgets |-> -1]
        /\ level = [w \in Widgets |-> 0]
        /\ op = <<"none", None>> /\ at = "idle"
        /\ reached = None
        /\ present = {}

---------------------------------------------------------------------------
\* The server.
Start == /\ ~up /\ server < MaxStarts
         /\ server' = server + 1
         /\ up' = TRUE
         /\ signalled' = (signalled \/ registered)
         /\ UNCHANGED <<toolkit, held, fd, libcxn, registered, count, widgets,
                        op, at, reached, present>>

Die == /\ up
       /\ up' = FALSE
       /\ held' = Nobody
       /\ UNCHANGED <<toolkit, server, fd, libcxn, registered, signalled, count,
                      widgets, op, at, reached, present>>

\* WimeInitialize with Fd closed: with a server there is a new LibCxn that
\* holds the global context; without one LibCxn keeps what it had.  The pid
\* is registered in both cases.
WimeInitialize ==
    /\ \/ /\ up
          /\ fd' = server
          /\ \E k \in Numbers : /\ libcxn' = <<k>>
                                /\ held' = [Nobody EXCEPT ![k] = Global]
          /\ present' = {}
       \/ /\ ~up
          /\ fd' = 0
          /\ UNCHANGED <<libcxn, held, present>>
    /\ registered' = TRUE

\* Faulty variants, named for the fault, stand before what they vary.
CatchSignalUncounted ==
    /\ signalled
    /\ signalled' = FALSE
    /\ WimeInitialize
    /\ count' = count
    /\ UNCHANGED <<toolkit, server, up, widgets, op, at, reached>>

CatchSignalOldSocket ==
    /\ signalled
    /\ signalled' = FALSE
    /\ \/ fd = 0 /\ WimeInitialize
       \/ fd # 0 /\ fd' = 0 /\ UNCHANGED <<libcxn, held, registered, present>>
    /\ count' = count + 2
    /\ UNCHANGED <<toolkit, server, up, widgets, op, at, reached>>

\* restart_server, then the module's catch_restart_signal, which counts the
\* same restart again.
CatchSignal == /\ signalled
               /\ signalled' = FALSE
               /\ WimeInitialize
               /\ count' = count + 2
               /\ UNCHANGED <<toolkit, server, up, widgets, op, at, reached>>

---------------------------------------------------------------------------
CannaCreateContextFromZero(w) ==
    /\ Connected
    /\ \E k \in Free : /\ libcxn' = Append(libcxn, k)
                      /\ held' = [held EXCEPT ![k] = w]
    /\ cxn' = [cxn EXCEPT ![w] = Len(libcxn) - 1]

\* CannaCreateContext for widget w: the number goes to the first empty cell
\* after the global context's, or to a new one; -1 when the request fails.
CannaCreateContext(w) ==
    \/ /\ Connected
       /\ \E k \in Free, p \in 2 .. Len(libcxn) + 1 :
             /\ p \in DOMAIN libcxn => libcxn[p] = None
             /\ \A q \in 2 .. p - 1 : libcxn[q] # None
             /\ libcxn' = IF p \in DOMAIN libcxn THEN [libcxn EXCEPT ![p] = k]
                          ELSE Append(libcxn, k)
             /\ held' = [held EXCEPT ![k] = w]
             /\ cxn' = [cxn EXCEPT ![w] = p - 1]
    \/ /\ ~Connected
       /\ cxn' = [cxn EXCEPT ![w] = -1]
       /\ UNCHANGED <<libcxn, held>>

CannaCloseContextKept(i) ==
    /\ held' = IF Number(i) # None /\ Connected THEN [held EXCEPT ![Number(i)] = None]
               ELSE held
    /\ UNCHANGED libcxn

\* CannaCloseContext(i): the cell is emptied when the server has answered 0,
\* which it does for every number in use, whoever opened it.
CannaCloseContext(i) ==
    \/ /\ Number(i) # None /\ Connected
       /\ held' = [held EXCEPT ![Number(i)] = None]
       /\ libcxn' = [libcxn EXCEPT ![i + 1] = None]
    \/ /\ Number(i) = None \/ ~Connected
       /\ UNCHANGED <<held, libcxn>>

\* WimeFinalize: a pid without a socket stays registered.
WimeFinalize == /\ libcxn' = <<>>
                /\ present' = {}
                /\ \/ /\ fd # 0
                      /\ fd' = 0
                      /\ held' = Nobody
                      /\ registered' = FALSE
                   \/ /\ fd = 0
                      /\ UNCHANGED <<fd, held, registered>>

---------------------------------------------------------------------------
Idle == at = "idle"
Begin(name, w) == Idle /\ op' = <<name, w>> /\ reached' = None
Done == at' = "idle" /\ op' = <<"none", None>>

\* The test of replace_context: a widget that is not up to date.
Stale(w) == level[w] # count \/ cxn[w] < 0

\* ServerLevel is written before CannaCreateContext in qim.cc, ...
LevelFirst(w) == IF toolkit = "qt" THEN [level EXCEPT ![w] = count] ELSE level

\* replace_context up to its first request.
Check(w) == \/ /\ Stale(w)
               /\ level' = LevelFirst(w)
               /\ at' = "create"
            \/ /\ ~Stale(w)
               /\ at' = "ask"
               /\ UNCHANGED level

\* imwime_init connects again when nothing is connected; QWime() does not.
New(w) == /\ w \notin alive
          /\ Begin("new", w)
          /\ alive' = alive \cup {w}
          /\ level' = LevelFirst(w)
          /\ at' = "create"
          /\ \/ /\ toolkit = "gtk" /\ fd = 0
                /\ WimeInitialize
             \/ /\ toolkit = "qt" \/ fd # 0
                /\ UNCHANGED <<fd, libcxn, held, registered, present>>
          /\ UNCHANGED <<toolkit, server, up, signalled, count, cxn>>

\* A key, a focus change, a new cursor position or client window.
Use(w) == /\ w \in alive
          /\ Begin("use", w)
          /\ Check(w)
          /\ UNCHANGED <<toolkit, link, alive, cxn, present>>

\* imwime_focus_in shows the tool bar before it looks for a restart.
FocusIn(w) == /\ toolkit = "gtk" /\ w \in alive
              /\ Begin("focus_in", w)
              /\ at' = "show"
              /\ UNCHANGED <<toolkit, link, widgets, present>>

\* imwime_reset uses WimeCxn as it is; QWime::reset does nothing.
Reset(w) == /\ toolkit = "gtk" /\ w \in alive
            /\ Begin("reset", w)
            /\ at' = "ask"
            /\ UNCHANGED <<toolkit, link, widgets, present>>

\* Qt tells that the cursor has moved: QWime::update places the windows of
\* WimeCxn as it is.
Update(w) == /\ toolkit = "qt" /\ w \in alive
             /\ Begin("update", w)
             /\ at' = "ask"
             /\ UNCHANGED <<toolkit, link, widgets, present>>

\* imwime_finalize replaces a stale context first, ~QWime does not.
Delete(w) == /\ w \in alive
             /\ Begin("delete", w)
             /\ \/ /\ toolkit = "gtk"
                   /\ Check(w)
                \/ /\ toolkit = "qt"
                   /\ at' = "ask"
                   /\ UNCHANGED level
             /\ UNCHANGED <<toolkit, link, alive, cxn, present>>

---------------------------------------------------------------------------
\* Whose context a request for index i reaches.
User(i) == IF Connected /\ Number(i) # None THEN held[Number(i)] ELSE None

Show(w) == /\ at = "show"
           /\ reached' = User(cxn[w])
           /\ Check(w)
           /\ UNCHANGED <<toolkit, link, alive, cxn, op, present>>

Create(w) == /\ at = "create"
             /\ CannaCreateContext(w)
             /\ present' = present \cup {w}
             /\ at' = IF toolkit = "gtk" THEN "mark" ELSE "ask"
             /\ UNCHANGED <<toolkit, server, up, fd, registered, signalled, count,
                            alive, level, op, reached>>

\* ... and after it in gim.c.
Mark(w) == /\ at = "mark"
           /\ level' = [level EXCEPT ![w] = count]
           /\ at' = "ask"
           /\ UNCHANGED <<toolkit, link, alive, cxn, op, reached, present>>

\* The requests of the operation proper, all for the widget's index.
Ask(w) == /\ at = "ask"
          /\ reached' = User(cxn[w])
          /\ \/ op[1] = "delete" /\ at' = "close" /\ UNCHANGED op
             \/ op[1] # "delete" /\ Done
          /\ UNCHANGED <<toolkit, link, widgets, present>>

\* Faulty variant: the destructor forgets the server.
CloseNot(w) == /\ at = "close"
               /\ alive' = alive \ {w}
               /\ cxn' = [cxn EXCEPT ![w] = -1]
               /\ Done
               /\ UNCHANGED <<toolkit, link, level, reached, present>>

\* CannaCloseContext; gim.c then ends the connection when one context, the
\* global one, is left in LibCxn.
Close(w) == /\ at = "close"
            /\ CannaCloseContext(cxn[w])
            /\ alive' = alive \ {w}
            /\ cxn' = [cxn EXCEPT ![w] = -1]
            /\ level' = [level EXCEPT ![w] = 0]
            /\ present' = present \ {w}
            /\ \/ toolkit = "gtk" /\ Opened' = 1 /\ at' = "bye" /\ UNCHANGED op
               \/ ~(toolkit = "gtk" /\ Opened' = 1) /\ Done
            /\ UNCHANGED <<toolkit, server, up, fd, registered, signalled, count,
                           reached>>

Bye == /\ at = "bye"
       /\ WimeFinalize
       /\ Done
       /\ UNCHANGED <<toolkit, server, up, signalled, count, widgets, reached>>

Step(w) == op[2] = w /\ (Show(w) \/ Create(w) \/ Mark(w) \/ Ask(w) \/ Close(w))

Next == \/ Start \/ Die \/ CatchSignal
        \/ \E w \in Widgets : \/ New(w) \/ Use(w) \/ FocusIn(w) \/ Reset(w)
                              \/ Update(w) \/ Delete(w) \/ Step(w)
        \/ Bye

Spec == Init /\ [][Next]_vars

---------------------------------------------------------------------------
TypeOK == /\ toolkit \in Toolkits
          /\ server \in 0 .. MaxStarts /\ fd \in 0 .. server
          /\ up \in BOOLEAN /\ registered \in BOOLEAN /\ signalled \in BOOLEAN
          /\ held \in [Numbers -> Widgets \cup {Global, None}]
          /\ libcxn \in Seq(Numbers \cup {None})
          /\ count \in Nat
          /\ alive \in SUBSET Widgets
          /\ cxn \in [Widgets -> {-1} \cup (Nat \ {0})]
          /\ level \in [Widgets -> 0 .. count]
          /\ present \in SUBSET Widgets
          /\ op \in {"none", "new", "use", "focus_in", "reset", "update", "delete"}
                      \X (Widgets \cup {None})
          /\ at \in {"idle", "show", "create", "mark", "ask", "close", "bye"}
          /\ reached \in Widgets \cup {Global, None}

\* While the connection stands, LibCxn is an exact copy of what the server
\* holds for it: each number once, the global context first, nothing that was
\* closed and nothing missing, through failed requests, restarts, closes by
\* the wrong widget and WimeFinalize.
LibraryMatchesServer ==
    Connected => /\ {libcxn[p] : p \in DOMAIN libcxn} \ {None} = Numbers \ Free
                 /\ \A p, q \in DOMAIN libcxn :
                       libcxn[p] = libcxn[q] /\ libcxn[p] # None => p = q
                 /\ held[libcxn[1]] = Global

\* In the GTK module a deleted widget leaves no context behind in the server,
\* and a widget has at most one there, though it may have been replaced on the
\* way: ServerLevel is written when the context is known.
GtkLeavesNothing ==
    toolkit = "gtk" =>
        \A w \in Widgets : /\ w \notin alive => \A k \in Numbers : held[k] # w
                           /\ Cardinality({k \in Numbers : held[k] = w}) <= 1

\* In the Qt module a widget that passes for up to date has its index from
\* the present connection, wherever the signal falls: ServerLevel is written
\* before the context is made.
QtNoticesRestart ==
    toolkit = "qt" => \A w \in alive : ~Stale(w) /\ op[2] # w => w \in present

\* A live widget is connected: when the server runs and its signal has been
\* handled, no restart, failed attempt or deletion of another widget has
\* left the process without a connection (gim.c:318 ends it only when all
\* contexts are closed).
StaysConnected == up /\ ~signalled /\ Idle /\ alive # {} => fd = server

\* Qt processes keep it, through restarts that come in the middle of others.
QtStaysConnected == toolkit = "qt" => StaysConnected

\* What a widget resets is its own context: a composition is committed to the
\* widget it was typed in (gim.c:29 takes an index from before a restart for
\* what it is).
ResetReachesOwn ==
    [][\A w \in Widgets : op = <<"reset", w>> /\ Ask(w) => reached' \in {None, w}]_vars
===========================================================================
