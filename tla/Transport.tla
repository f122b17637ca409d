------------------------------ MODULE Transport ------------------------------
(***************************************************************************)
(* How a call of the client library (so/wimeapi.c, so/corr.c) becomes a     *)
(* request that the server handles (exe/main.c, io/wimeio.c).               *)
(*                                                                         *)
(* A call writes its packet, in one write or, by SndN, in two, and reads   *)
(* its reply, unless it has none.  The receiving thread of the server takes *)
(* the first connection that has something to read, reads a header and     *)
(* waits for the rest, and sends the packet to the window thread, which     *)
(* answers it on ActiveFd.  The handler of the restart signal may run       *)
(* between any two steps of a call; it closes Fd and connects again.        *)
(*                                                                         *)
(* A packet is its name, a reply the name of what it replies to.  What the  *)
(* requests do is in the other modules.  The listening sockets are not in   *)
(* CannaFds here: those that wait at them are `backlog`.                    *)
(***************************************************************************)
EXTENDS Integers, SequencesExt

CONSTANTS Clients,   \* processes that use the library
          Conns,     \* connections, numbers; a bound on those there are at once
          Handlers,  \* those of them that catch the restart signal; it ends
                     \*   the others (wimectrl)
          Calls,     \* the calls each makes, beside those that connect
          Cap,       \* bound: what a socket takes before a write must wait
          Events,    \* bound: starts and crashes of the server, ends of clients
          None

ASSUME ConnsAssumption == Conns \subseteq Nat /\ None \notin Conns
ASSUME CallsAssumption ==
    \A p \in Clients : Calls[p] \cap {"Init", "Restart", "refused"} = {}
ASSUME BoundsAssumption == Cap \in Nat \ {0} /\ Events \in Nat

TwoWrites == {"SendKey", "RegXWin"}       \* sent by SndN
Silent == {"RegXWin", "ShowToolbar", "Illegal"}   \* without a reply
Opening == {"Init", "Restart"}   \* WimeInitialize of the program, of the handler

VARIABLES
    server,      \* "down", "starting" (sockets and receiving thread), "serving"
    backlog,     \* connections that wait to be accepted
    fds,         \* CannaFds without the listening sockets
    sessions,    \* the descriptors of Clients
    reader,      \* the receiving thread: in "select", waits for the "body", has "read"
    active,      \* ActiveFd
    hand,        \* the packet in chbuf, and whether its body is another's
    in, out,     \* bytes on their way to the server and to the client
    fd,          \* Fd of each client
    calls,       \* calls in progress: that of the program, and the handler's
    registered,  \* clients in the table of process ids
    signalled,   \* those that have a signal to take
    torn,        \* history: clients that took a signal with a packet half
                 \*   written or a reply still to be asked for
    spent        \* of the bound Events

table == <<backlog, fds, sessions>>
threads == <<reader, active, hand>>
links == <<in, out>>
library == <<fd, calls, registered>>
vars == <<server, table, threads, links, library, signalled, torn, spent>>

Nothing == [call |-> "none", stale |-> FALSE]
Empty == [k \in Conns |-> <<>>]

Init == /\ server = "down"
        /\ backlog = <<>> /\ fds = <<>> /\ sessions = {}
        /\ reader = "select" /\ active = None /\ hand = Nothing
        /\ in = Empty /\ out = Empty
        /\ fd = [p \in Clients |-> None] /\ calls = [p \in Clients |-> <<>>]
        /\ registered = {} /\ signalled = {} /\ torn = {} /\ spent = 0

HasServer(k) == k \in ToSet(fds) \cup ToSet(backlog)
HasClient(k) == \E p \in Clients : fd[p] = k
Unused == {k \in Conns : ~HasServer(k) /\ ~HasClient(k)}
Cut(p) == fd[p] = None \/ ~HasServer(fd[p])    \* writes fail, reads find the end

Spend == spent < Events /\ spent' = spent + 1

---------------------------------------------------------------------------
\* Clients.

Busy(p) == calls[p] # <<>>
Top(p) == Last(calls[p])
At(p, where) == Busy(p) /\ Top(p).at = where
Goto(p, where) == calls' = [calls EXCEPT ![p] = Append(Front(@), [Last(@) EXCEPT !.at = where])]
Push(p, call, where) == Append(calls[p], [call |-> call, at |-> where])

Piece(call, part) == [call |-> call, part |-> part]
CanWrite(p) == ~Cut(p) /\ Len(in[fd[p]]) < Cap
Write(p, piece) == in' = [in EXCEPT ![fd[p]] = Append(@, piece)]

\* The end of a call, with what is left to read: WimeInitialize closes Fd if
\* it has failed and registers the process in any case; WimeFinalize closes
\* it and takes the process off the table.
Finish(p, ok, left) ==
    LET call == Top(p).call
        closes == call = "Finalize" \/ (call \in Opening /\ ~ok)
    IN  /\ calls' = [calls EXCEPT ![p] = Front(@)]
        /\ fd' = IF closes THEN [fd EXCEPT ![p] = None] ELSE fd
        /\ out' = IF fd[p] = None THEN out
                  ELSE [out EXCEPT ![fd[p]] = IF closes THEN <<>> ELSE left]
        /\ registered' = IF call \in Opening THEN registered \cup {p}
                         ELSE IF call = "Finalize" THEN registered \ {p} ELSE registered

\* WimeInitialize of a program that is not connected.
Begin(p) == /\ ~Busy(p) /\ fd[p] = None
            /\ calls' = [calls EXCEPT ![p] = Push(p, "Init", "connect")]
            /\ torn' = torn \ {p}
            /\ UNCHANGED <<server, table, threads, links, fd, registered, signalled, spent>>

\* ConnectServer and Snd0.
Connect(p) ==
    /\ At(p, "connect")
    /\ \/ /\ fd[p] # None /\ CanWrite(p)
          /\ Write(p, Piece("Init", "whole"))
          /\ Goto(p, "waiting")
          /\ UNCHANGED <<backlog, out, fd, registered>>
       \/ /\ fd[p] = None /\ server # "down"
          /\ \E k \in Unused :
                /\ \A j \in Unused : k <= j
                /\ fd' = [fd EXCEPT ![p] = k]
                /\ backlog' = Append(backlog, k)
                /\ in' = [in EXCEPT ![k] = <<Piece("Init", "whole")>>]
          /\ Goto(p, "waiting")
          /\ UNCHANGED <<out, registered>>
       \/ /\ IF fd[p] = None THEN server = "down" ELSE Cut(p)
          /\ Finish(p, FALSE, <<>>)
          /\ UNCHANGED <<backlog, in>>
    /\ UNCHANGED <<server, fds, sessions, threads, signalled, torn, spent>>

\* A call and its first write; a silent call of one write is over with it.
\* On a connection that is cut it fails at once, which matters to
\* WimeFinalize alone.
Call(p, call) ==
    /\ ~Busy(p)
    /\ \/ /\ CanWrite(p)
          /\ Write(p, Piece(call, IF call \in TwoWrites THEN "head" ELSE "whole"))
          /\ calls' = [calls EXCEPT ![p] = IF call \in TwoWrites THEN Push(p, call, "half")
                                          ELSE IF call \in Silent THEN @ ELSE Push(p, call, "waiting")]
       \/ /\ fd[p] # None /\ Cut(p) /\ call = "Finalize"
          /\ calls' = [calls EXCEPT ![p] = Push(p, call, "failed")]
          /\ UNCHANGED in
    /\ IF call = "Finalize" THEN Spend ELSE UNCHANGED spent
    /\ UNCHANGED <<server, table, threads, out, fd, registered, signalled, torn>>

\* The second write of SndN, to what Fd is by now.
WriteBody(p) ==
    /\ At(p, "half")
    /\ \/ /\ CanWrite(p)
          /\ Write(p, Piece(Top(p).call, "body"))
          /\ IF Top(p).call \in Silent THEN calls' = [calls EXCEPT ![p] = Front(@)]
             ELSE Goto(p, "waiting")
          /\ UNCHANGED <<out, fd, registered>>
       \/ /\ Cut(p)
          /\ Finish(p, FALSE, <<>>)
          /\ UNCHANGED in
    /\ UNCHANGED <<server, table, threads, signalled, torn, spent>>

TakeReply(p) ==
    /\ At(p, "waiting") /\ fd[p] # None
    /\ out[fd[p]] # <<>>
    /\ Finish(p, Head(out[fd[p]]) # "refused", Tail(out[fd[p]]))
    /\ UNCHANGED <<server, table, threads, in, signalled, torn, spent>>

\* The end of the stream, or the interruption of a read.
CallFails(p) ==
    /\ \/ At(p, "waiting") /\ Cut(p) /\ (fd[p] # None => out[fd[p]] = <<>>)
       \/ At(p, "failed")
    /\ Finish(p, FALSE, IF fd[p] = None THEN <<>> ELSE out[fd[p]])
    /\ UNCHANGED <<server, table, threads, in, signalled, torn, spent>>

\* restart_server: DisconnectServer, then WimeInitialize as a call of its
\* own.  The signal is blocked meanwhile.  A call that waits for its reply
\* has entered its read, which then fails, or has not and will read what Fd
\* is after the handler.
TakeSignal(p) ==
    /\ p \in signalled \cap Handlers
    /\ Busy(p) => Top(p).call # "Restart"
    /\ signalled' = signalled \ {p}
    /\ \E fails \in {At(p, "failed"), At(p, "failed") \/ At(p, "waiting")} :
          /\ calls' = [calls EXCEPT ![p] =
                         Append(IF fails THEN <<[Top(p) EXCEPT !.at = "failed"]>> ELSE @,
                                [call |-> "Restart", at |-> "connect"])]
          /\ torn' = IF Busy(p) /\ ~fails THEN torn \cup {p} ELSE torn \ {p}
    /\ fd' = [fd EXCEPT ![p] = None]
    /\ out' = IF fd[p] = None THEN out ELSE [out EXCEPT ![fd[p]] = <<>>]
    /\ UNCHANGED <<server, table, threads, in, registered, spent>>

\* The process ends, by the signal or otherwise; another of this name may begin.
Die(p) ==
    /\ IF p \in signalled \ Handlers THEN UNCHANGED spent ELSE Spend /\ (Busy(p) \/ fd[p] # None)
    /\ calls' = [calls EXCEPT ![p] = <<>>]
    /\ fd' = [fd EXCEPT ![p] = None]
    /\ out' = IF fd[p] = None THEN out ELSE [out EXCEPT ![fd[p]] = <<>>]
    /\ registered' = registered \ {p}
    /\ signalled' = signalled \ {p}
    /\ torn' = torn \ {p}
    /\ UNCHANGED <<server, table, threads, in>>

---------------------------------------------------------------------------
\* The server.

\* ImWrite on ActiveFd; a client that has gone does not get it.
Reply(what) == out' = IF HasClient(active) THEN [out EXCEPT ![active] = Append(@, what)]
                      ELSE out

Listen == /\ server = "down" /\ server' = "starting"
          /\ Spend
          /\ UNCHANGED <<table, threads, links, library, signalled, torn>>

\* ShmStartServer, after which main begins to take messages.
Announce == /\ server = "starting" /\ server' = "serving"
            /\ signalled' = signalled \cup registered
            /\ UNCHANGED <<table, threads, links, library, torn, spent>>

\* ImSelect: the listening sockets come first.
Accept == /\ server # "down" /\ reader = "select" /\ backlog # <<>>
          /\ backlog' = Tail(backlog)
          /\ fds' = Append(fds, Head(backlog))
          /\ UNCHANGED <<server, sessions, threads, links, library, signalled, torn, spent>>

Readable(k) == in[k] # <<>> \/ ~HasClient(k)
FirstReadable(i) == Readable(fds[i]) /\ \A j \in 1 .. i - 1 : ~Readable(fds[j])
Selects(i) == reader = "select" /\ backlog = <<>> /\ FirstReadable(i) /\ active' = fds[i]

DisconnectKept == \E i \in DOMAIN fds :
    /\ Selects(i) /\ in[fds[i]] = <<>>
    /\ fds' = RemoveAt(fds, i)
    /\ UNCHANGED <<server, backlog, sessions, reader, hand, links, library, signalled, torn, spent>>

\* recv_xim at the end of a stream: ImDisconnect and CloseConnection.
Disconnect == \E i \in DOMAIN fds :
    /\ Selects(i) /\ in[fds[i]] = <<>>
    /\ fds' = RemoveAt(fds, i)
    /\ sessions' = sessions \ {fds[i]}
    /\ UNCHANGED <<server, backlog, reader, hand, links, library, signalled, torn, spent>>

\* What a body is taken for where a header is due: its first word, a context
\* number, is then the number of some request, as are its others.  One of
\* them is taken here.  Init, which would read on, is left out.
Meanings == {"Illegal", "Query", "Finalize", "KillServer"}

\* recv_xim at a header.  A packet that came in one write has its body here.
ReadHeader == \E i \in DOMAIN fds : LET k == fds[i] IN
    /\ Selects(i) /\ in[k] # <<>>
    /\ in' = [in EXCEPT ![k] = Tail(@)]
    /\ \E call \in IF Head(in[k]).part = "body" THEN Meanings ELSE {Head(in[k]).call} :
          /\ hand' = [call |-> call, stale |-> FALSE]
          /\ reader' = IF Head(in[k]).part = "head" THEN "body" ELSE "read"
    /\ UNCHANGED <<server, table, out, library, signalled, torn, spent>>

ReadBodyWhole ==
    /\ reader = "body" /\ in[active] # <<>>
    /\ in' = [in EXCEPT ![active] = Tail(@)]
    /\ reader' = "read"
    /\ UNCHANGED <<server, table, active, hand, out, library, signalled, torn, spent>>

\* The body of a packet, whatever read returns: at the end of the stream
\* chbuf keeps what the packet before has left there.
ReadBody ==
    /\ reader = "body" /\ Readable(active)
    /\ IF in[active] # <<>>
       THEN in' = [in EXCEPT ![active] = Tail(@)] /\ UNCHANGED hand
       ELSE hand' = [hand EXCEPT !.stale = TRUE] /\ UNCHANGED in
    /\ reader' = "read"
    /\ UNCHANGED <<server, table, active, out, library, signalled, torn, spent>>

\* log_req, in the receiving thread.
LogRequest == /\ reader = "read" /\ hand.call = "Log"
              /\ Reply("Log")
              /\ reader' = "select" /\ hand' = Nothing
              /\ UNCHANGED <<server, table, active, in, library, signalled, torn, spent>>

\* The end of the process: of all that it holds, only replies stay.
ServerEnds == /\ server' = "down"
              /\ backlog' = <<>> /\ fds' = <<>> /\ sessions' = {}
              /\ reader' = "select" /\ active' = None /\ hand' = Nothing
              /\ in' = Empty

\* Init refuses a descriptor that has a session; Finalize ends one.
Answer == IF hand.call = "Init" /\ active \in sessions THEN "refused" ELSE hand.call
SessionsAfter == CASE hand.call = "Init" -> sessions \cup {active}
                   [] hand.call = "Finalize" -> sessions \ {active}
                   [] OTHER -> sessions

Stays == /\ sessions' = SessionsAfter
         /\ reader' = "select" /\ hand' = Nothing
         /\ UNCHANGED <<server, backlog, fds, active, in>>

HandleAnswering ==
    /\ server = "serving" /\ reader = "read" /\ hand.call # "Log"
    /\ Reply(Answer)
    /\ IF hand.call = "KillServer" THEN ServerEnds ELSE Stays
    /\ UNCHANGED <<library, signalled, torn, spent>>

\* The window thread handles a packet while the receiving thread waits in
\* SendMessage.  It takes none before main takes messages.
Handle ==
    /\ server = "serving" /\ reader = "read" /\ hand.call # "Log"
    /\ IF hand.call \in Silent THEN UNCHANGED out ELSE Reply(Answer)
    /\ IF hand.call = "KillServer" THEN ServerEnds ELSE Stays
    /\ UNCHANGED <<library, signalled, torn, spent>>

Crash == /\ server # "down" /\ ServerEnds
         /\ Spend
         /\ UNCHANGED <<out, library, signalled, torn>>

---------------------------------------------------------------------------
Within(p) == \/ Connect(p) \/ WriteBody(p) \/ TakeReply(p) \/ CallFails(p)
             \/ TakeSignal(p)
ReaderStep == Accept \/ Disconnect \/ ReadHeader \/ ReadBody \/ LogRequest \/ Handle
Next == \/ \E p \in Clients : \/ Begin(p) \/ Within(p) \/ Die(p)
                              \/ \E call \in Calls[p] : Call(p, call)
        \/ Listen \/ Announce \/ ReaderStep \/ Crash

\* Something goes on while a thread of the server or a process within a call
\* can; nobody has to call, to begin or to die.
Runs == Announce \/ ReaderStep \/ \E p \in Clients : Within(p)
Fairness == WF_vars(Runs)
Spec == Init /\ [][Next]_vars /\ Fairness

---------------------------------------------------------------------------
Names == {"none"} \cup Opening \cup Meanings \cup UNION {Calls[p] : p \in Clients}
Ats == {"connect", "half", "waiting", "failed"}
TypeOK == /\ server \in {"down", "starting", "serving"}
          /\ fds \in Seq(Conns) /\ backlog \in Seq(Conns)
          /\ sessions \subseteq Conns
          /\ reader \in {"select", "body", "read"}
          /\ active \in Conns \cup {None}
          /\ hand \in [call : Names, stale : BOOLEAN]
          /\ in \in [Conns -> Seq([call : Names, part : {"whole", "head", "body"}])]
          /\ out \in [Conns -> Seq(Names \cup {"refused"})]
          /\ fd \in [Clients -> Conns \cup {None}]
          /\ calls \in [Clients -> Seq([call : Names, at : Ats])]
          /\ registered \subseteq Clients /\ signalled \subseteq Clients /\ torn \subseteq Handlers
          /\ spent \in 0 .. Events

\* A client that no signal has torn is owed one answer while it waits for one
\* and none otherwise: its replies are to what it has just asked, whatever
\* others send half of, leave unread or tear (so/corr.c, exe/main.c:423).
Questions(pieces) == Cardinality({i \in DOMAIN pieces :
                                     pieces[i].part # "body" /\ pieces[i].call \notin Silent})
InHand(k) == reader # "select" /\ active = k /\ hand.call \notin Silent
Asks(p) == Busy(p) /\ Top(p).at \in {"half", "waiting"} /\ Top(p).call \notin Silent
OneAnswer == \A p \in Clients \ torn : ~Cut(p) =>
    Questions(in[fd[p]]) + (IF InHand(fd[p]) THEN 1 ELSE 0) + Len(out[fd[p]])
        = IF Asks(p) THEN 1 ELSE 0

\* Init is refused (canna.c:72) to no client that no signal has torn: a
\* descriptor that is used again has no session of its last user.
NeverRefused == \A p \in Clients \ torn :
                   fd[p] # None => "refused" \notin ToSet(out[fd[p]])

\* The call of a client that no signal has torn returns once the others have
\* fallen quiet, even if they have died within a packet: the only receiving
\* thread waits for no one for ever (exe/main.c:435, io/wimeio.c:240).
Quiet(p) == /\ ~Busy(p) \/ At(p, "waiting")
            /\ fd[p] # None => in[fd[p]] = <<>>
OthersQuiet(p) == <>[](\A q \in Clients \ {p} : Quiet(q))
Waits(p) == Busy(p) /\ p \notin torn
CallsReturn == \A p \in Clients : OthersQuiet(p) => (Waits(p) ~> ~Waits(p))

\* The same of all clients.  It fails: who takes the signal between the
\* request and the read waits on the new connection (wimeapi.c:321).
TornReturn == \A p \in Clients : OthersQuiet(p) => (Busy(p) ~> ~Busy(p))

\* The same however busy the others are.  It fails: the first connection
\* that is readable is always served first (wimeio.c:240).
BusyReturn == \A p \in Clients : Waits(p) ~> ~Waits(p)

\* A request is handled with its own body.  It fails: one whose sender dies
\* before it is handled with what the buffer holds (main.c:435).
OwnBody == reader = "read" => ~hand.stale
==============================================================================
