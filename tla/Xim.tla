-------------------------------- MODULE Xim --------------------------------
(***************************************************************************)
(* The XIM server (xim/): one process that serves X clients over client     *)
(* messages, and is itself a client of wime.                               *)
(*                                                                         *)
(* A client message reaches the server's window or a proxy window made for  *)
(* its sender; the X server queues it with the notices of destroyed         *)
(* windows.  While the server waits for the answer to a PREEDIT_START it    *)
(* puts aside all else that comes from that client, and looks through what  *)
(* it has put aside after every message.                                    *)
(*                                                                         *)
(* External: X, the clients, and wime, whose contexts have an IME that is   *)
(* open or not and a composition of some length.  The key filter of         *)
(* so/wimeapi.c is modelled by its outcomes.  A client has one input        *)
(* context.  Left out: text from palettes, reconversion, whether a key that *)
(* wime does not take goes back to the client, fonts, places of windows.    *)
(***************************************************************************)
EXTENDS Integers, SequencesExt

CONSTANTS Clients,      \* communication windows, each of which connects once
          Styles,       \* preedit styles that clients ask for
          Budget,       \* bound on all that happens beyond connecting:
                        \* requests, deaths of clients, restarts of wime
          MaxLen        \* bound on the length of a composition

\* "self" is the server's own window, "other" stands for windows that are not
\* those a client connects with.
ASSUME XimAssumption == /\ Styles \subseteq {"over", "on", "off", "root"}
                        /\ Budget \in Nat /\ MaxLen \in Nat
                        /\ Clients \cap {"self", "other"} = {}

VARIABLES slots,     \* ContextList: the WxContexts, numbered from 1 (im-id)
          eventQ,    \* EventQ: messages put aside
          scan,      \* 0 in the event loop, else where in EventQ it looks
          held,      \* the message just read, if it is to be put aside
          up,        \* the process lives
          cxns,      \* wime's contexts, by the numbers the library gave them
          events,    \* X events on their way to the server
          errors,    \* X errors on their way: the communication window, or "other"
          client,    \* what each client knows
          spent,     \* of the budget
          early      \* a context was made between a restart and its notice

xVars == <<slots, eventQ, scan, held, up, cxns, events, errors, client, spent, early>>

NoClient == [phase |-> "new", awaits |-> "", imid |-> 0, ic |-> FALSE, style |-> "",
             owes |-> 0, shown |-> 0, window |-> "none"]

XInit == /\ slots = <<>> /\ eventQ = <<>> /\ scan = 0 /\ held = <<>> /\ up = TRUE
         /\ cxns = <<>>
         /\ events = <<>> /\ errors = {}
         /\ client = [c \in Clients |-> NoClient]
         /\ spent = 0 /\ early = FALSE

Event(t, c, major, arg) ==
    [t |-> t, from |-> c, major |-> major, imid |-> IF c = "self" THEN 0 ELSE client[c].imid, arg |-> arg]
Restarted == Event("RESTART", "self", "", "")

Gone(c) == client[c].phase = "gone"

\* A record with some of its fields changed.
Updated(r, changes) == [f \in DOMAIN r |-> IF f \in DOMAIN changes THEN changes[f] ELSE r[f]]

\* SendN to a client's communication window, or another call on its windows:
\* those of a client that has gone make X errors, as does a window that the
\* server has destroyed, and a window 0 always.
Becomes(c, k) == client' = IF Gone(c) THEN client ELSE [client EXCEPT ![c] = k]
Tell(c, changes) == Becomes(c, Updated(client[c], changes))
Fails(c, w) == Gone(c) \/ w = "null" \/ (w = "ic" /\ client[c].window = "destroyed")
Calls(c, windows) ==
    errors' = errors \cup {IF w = "comm" THEN c ELSE "other" : w \in {v \in windows : Fails(c, v)}}

Sender(s) == slots[s].client
Ic(s) == slots[s].ic

\* The WxContext's Sync becomes what the handler returns.
Settle(s, changes) == slots' = [slots EXCEPT ![s] = Updated([@ EXCEPT !.sync = ""], changes)]

\* so/wimeapi.c: numbers that the library does not have are refused.
Known(k) == k \in DOMAIN cxns
CompOf(k) == IF Known(k) THEN cxns[k].comp ELSE 0
FreeCxn(taken) == Min((1 .. Cardinality(taken) + 1) \ taken)
NewCxn == [open |-> FALSE, comp |-> 0, compWin |-> TRUE, focus |-> FALSE]
Changed(k, changes) == cxns' = IF Known(k) THEN [cxns EXCEPT ![k] = Updated(@, changes)] ELSE cxns
With(known, k, x) == [j \in DOMAIN known \cup {k} |-> IF j = k THEN x ELSE known[j]]

NoIc == [used |-> FALSE, valid |-> FALSE, cxn |-> 0, style |-> "", preedit |-> 0, focus |-> FALSE,
         window |-> "none", made |-> FALSE]

---------------------------------------------------------------------------
(* Requests; s is the slot that the message has been found to belong to.    *)

\* A request that is answered and changes nothing else but the WxContext.
Answered(s, told, changes) ==
    /\ Becomes(Sender(s), Updated([client[Sender(s)] EXCEPT !.awaits = ""], told))
    /\ Calls(Sender(s), {"comm"})
    /\ Settle(s, changes)
    /\ UNCHANGED <<cxns, early>>

Connect(s) == Answered(s, [phase |-> "connected"], <<>>)
Open(s) == Answered(s, [phase |-> "open", imid |-> s], <<>>)
Close(s) == Answered(s, [phase |-> "closed"], [closed |-> TRUE])
QueryExtension(s) == Answered(s, <<>>, <<>>)
GetImValues(s) == Answered(s, <<>>, <<>>)
GetIcValues(s) == Answered(s, <<>>, <<>>)

\* COMPOUND_TEXT is chosen if it is offered, or else the first encoding.
EncodingNego(s, first) == Answered(s, <<>>, [encoding |-> IF first = "ctext" THEN "" ELSE first])

\* SetIcValues with a focus window, the attribute that the server acts on.
SetIcValues(s) == Answered(s, [window |-> "own"], [ic |-> [Ic(s) EXCEPT !.window = "own"]])

\* The client takes the composition and shows it no more; wime keeps it.
ResetIc(s) == Answered(s, [shown |-> 0], <<>>)

\* set_input_style: the style chooses the callbacks of the IC.
SetInputStyle(ic, style) == [ic EXCEPT !.style = style]

\* CreateIc and SetWimeData.
CreateIc(s, style) ==
    LET k == FreeCxn(DOMAIN cxns)
    IN  /\ Tell(Sender(s), [awaits |-> "", ic |-> TRUE, style |-> style, shown |-> 0, window |-> "none"])
        /\ Calls(Sender(s), {"comm"})
        /\ Settle(s, [ic |-> SetInputStyle([NoIc EXCEPT !.used = TRUE, !.valid = TRUE, !.cxn = k], style)])
        /\ cxns' = With(cxns, k, NewCxn)
        /\ early' = (early \/ \E i \in DOMAIN events : events[i].t = "RESTART")

\* DestroyIcIf: Cleanup destroys the window of root-window input if the
\* server has made one, by what the IC says the window is now.
DestroysOwn(s) == Ic(s).style = "root" /\ Ic(s).made /\ Ic(s).window = "own"
CleanedUp(s, k) == IF DestroysOwn(s) THEN [k EXCEPT !.window = "destroyed"] ELSE k
CleanupCalls(s) == IF DestroysOwn(s) THEN {"ic"} ELSE {}
DestroyIcIf(s, told) ==
    /\ LET c == Sender(s)
       IN  Becomes(c, CleanedUp(s, Updated([client[c] EXCEPT !.ic = FALSE], told)))
    /\ cxns' = [k \in DOMAIN cxns \ {Ic(s).cxn} |-> cxns[k]]

DestroyIc(s) == /\ DestroyIcIf(s, [awaits |-> ""])
                /\ Calls(Sender(s), {"comm"} \cup CleanupCalls(s))
                /\ Settle(s, [ic |-> [Ic(s) EXCEPT !.valid = FALSE]])
                /\ UNCHANGED early

\* SetIcFocus and UnsetIcFocus.
SetIcFocus(s, in) == /\ Changed(Ic(s).cxn, [focus |-> in])
                     /\ Settle(s, [ic |-> [Ic(s) EXCEPT !.focus = in]])
                     /\ UNCHANGED <<client, errors, early>>

\* DisconnectClient: the WxContext may be used again.
DisconnectClient(s, told, windows) ==
    /\ IF Ic(s).valid THEN DestroyIcIf(s, told)
       ELSE Tell(Sender(s), told) /\ UNCHANGED cxns
    /\ Calls(Sender(s), windows \cup IF Ic(s).valid THEN CleanupCalls(s) ELSE {})
    /\ Settle(s, [valid |-> FALSE, ic |-> [Ic(s) EXCEPT !.valid = FALSE]])
    /\ UNCHANGED early
Disconnect(s) == DisconnectClient(s, [phase |-> "left", awaits |-> ""], {"comm"})

\* As PreeditStartReply, but the WxContext still waits.
PreeditStartReplyKept(s) == UNCHANGED <<slots, client, errors, cxns, early>>
\* The preedit has started.
PreeditStartReply(s) == Settle(s, <<>>) /\ UNCHANGED <<client, errors, cxns, early>>

---------------------------------------------------------------------------
(* Keys, by preedit style.  An outcome of a key is what becomes of the IC,  *)
(* of what the client knows, and of the context; the windows called on; and *)
(* the message to wait for.                                                *)

Outcome(ic, told, cxn, windows, sync) ==
    [ic |-> ic, told |-> told, cxn |-> cxn, windows |-> windows, sync |-> sync]
Nothing(s) == Outcome(Ic(s), <<>>, <<>>, {}, "")

\* Init of each style.
InitIc(s) == IF Ic(s).style = "root" /\ Ic(s).window = "none"
             THEN [Ic(s) EXCEPT !.window = "made", !.made = TRUE] ELSE Ic(s)
InitCalls(s) == IF Ic(s).style \in {"over", "off"} \/ (Ic(s).style = "root" /\ Ic(s).window = "own")
                THEN {"ic"} ELSE {}

\* With root-window input the window is mapped or unmapped, if there is one.
MapCalls(ic) == CASE ic.style # "root" -> {}
                  [] ic.window = "none" -> {"null"}
                  [] ic.window = "own" -> {"ic"}
                  [] OTHER -> {}

\* OpenIme: on the spot, the client is told to start or end its preedit, and
\* must answer the first.
OpenIme(s, ic, st) ==
    LET c == Sender(s)
    IN  Outcome(ic,
                IF ic.style = "on" /\ st THEN [owes |-> client[c].owes + 1] ELSE <<>>,
                [open |-> st],
                MapCalls(ic),
                IF ic.style = "on" /\ st THEN "START_REPLY" ELSE "")

\* wime_conv_start.
ConvStart(s, st) ==
    LET o == OpenIme(s, IF st THEN InitIc(s) ELSE Ic(s), st)
    IN  IF ~st THEN o
        ELSE [o EXCEPT !.windows = @ \cup InitCalls(s),
                       !.cxn = IF Ic(s).style = "on" THEN [open |-> st, compWin |-> FALSE] ELSE @]

\* Draw, on the spot: replace all that is shown.  An empty text clears it, but
\* leaves PreeditLen.
Drawn(s, n) ==
    IF Ic(s).style # "on" THEN [Nothing(s) EXCEPT !.cxn = [comp |-> n]]
    ELSE Outcome(IF n > 0 THEN [Ic(s) EXCEPT !.preedit = n] ELSE Ic(s),
                 IF n > 0 \/ Ic(s).preedit > 0 THEN [shown |-> n] ELSE <<>>,
                 [comp |-> n], {"ic"}, "")

\* As Done, but what is shown is cleared only before a rest is drawn.
DoneUncleared(s, rest) ==
    IF Ic(s).style # "on" \/ rest > 0 THEN Drawn(s, rest)
    ELSE Outcome([Ic(s) EXCEPT !.preedit = 0], [owes |-> client[Sender(s)].owes + 1],
                 [comp |-> 0], {}, "START_REPLY")

\* Done, after the commit: what is shown is cleared, and the rest, if there
\* is any, drawn; otherwise the preedit is ended and started again.
Done(s, rest) ==
    IF Ic(s).style # "on" \/ rest > 0 THEN Drawn(s, rest)
    ELSE Outcome([Ic(s) EXCEPT !.preedit = 0],
                 LET owes == client[Sender(s)].owes + 1
                 IN  IF Ic(s).preedit > 0 THEN [owes |-> owes, shown |-> 0] ELSE [owes |-> owes],
                 [comp |-> 0], {}, "START_REPLY")

\* What WimeFilterKey calls back: wime_preedit and wime_convert, which draw the
\* composition, and wime_commit, which sends the result before Done.
Preedited(s, n) == Drawn(s, n)
Committed(s, rest) == Done(s, rest)

\* WimeFilterKey: a key that opens the IME, one that closes it unless there
\* is a composition, one that is not for the IME, or one that types, converts
\* or erases, or that commits all or part of the composition.
KeyOutcomes(s) ==
    LET k == Ic(s).cxn
        isOpen == Known(k) /\ cxns[k].open
    IN  {ConvStart(s, TRUE), Nothing(s)}
        \cup (IF CompOf(k) = 0 THEN {ConvStart(s, FALSE)} ELSE {})
        \cup (IF isOpen THEN {Preedited(s, n) : n \in 0 .. MaxLen} \cup {Committed(s, n) : n \in 0 .. MaxLen - 1} ELSE {})

\* ForwardKey: whatever comes of the key, it is answered.
ForwardKey(s) ==
    \E o \in KeyOutcomes(s) :
        /\ Tell(Sender(s), o.told) /\ Calls(Sender(s), {"comm"} \cup o.windows)
        /\ Changed(Ic(s).cxn, o.cxn)
        /\ Settle(s, [ic |-> o.ic, sync |-> o.sync])
        /\ UNCHANGED early

---------------------------------------------------------------------------
(* The event loop (main.c).                                                *)

\* none_imic looks for the proxy window, the others take the im-id's word.
ByProxy == {"CONNECT", "DISCONNECT", "ERROR", "OPEN"}
Found(m) == IF m.major \in ByProxy
            THEN SelectInSeq(slots, LAMBDA sl : sl.client = m.from /\ sl.valid)
            ELSE IF m.imid \in DOMAIN slots /\ slots[m.imid].valid THEN m.imid ELSE 0

OfIc == {"DESTROY_IC", "SET_IC", "GET_IC", "FOCUS", "UNFOCUS", "KEY", "RESET_IC"}

\* The handler that the request tables name.
Handle(m, s) ==
    \/ m.major = "CONNECT" /\ Connect(s)
    \/ m.major = "DISCONNECT" /\ Disconnect(s)
    \/ m.major = "OPEN" /\ Open(s)
    \/ m.major = "CLOSE" /\ Close(s)
    \/ m.major = "QUERY_EXT" /\ QueryExtension(s)
    \/ m.major = "ENCODING" /\ EncodingNego(s, m.arg)
    \/ m.major = "GET_IM" /\ GetImValues(s)
    \/ m.major = "CREATE_IC" /\ CreateIc(s, m.arg)
    \/ m.major = "DESTROY_IC" /\ DestroyIc(s)
    \/ m.major = "SET_IC" /\ SetIcValues(s)
    \/ m.major = "GET_IC" /\ GetIcValues(s)
    \/ m.major = "RESET_IC" /\ ResetIc(s)
    \/ m.major = "FOCUS" /\ SetIcFocus(s, TRUE)
    \/ m.major = "UNFOCUS" /\ SetIcFocus(s, FALSE)
    \/ m.major = "KEY" /\ ForwardKey(s)
    \/ m.major = "START_REPLY" /\ PreeditStartReply(s)

\* As Waits, but only keys are put aside.
WaitsIfKey(m) == LET s == Found(m)
                 IN  s # 0 /\ slots[s].sync # "" /\ m.major = "KEY"
\* The answer to something else than the server waits for is put aside.
Waits(m) == LET s == Found(m)
            IN  s # 0 /\ slots[s].sync \notin {"", m.major} /\ m.major # "ERROR"

SelfError == Event("MESSAGE", "self", "ERROR", "")
WithError(q) == IF SelfError \in ToSet(q) THEN q ELSE Append(q, SelfError)

Crash == up' = FALSE /\ UNCHANGED <<slots, errors, cxns, client, early>>

\* proc_client_message on a message that need not wait; rest are the events
\* left.  An error about an unknown sender goes to the server's own window, and
\* so comes from an unknown sender: one in the queue stands for any number.
\* What is said of an IC that is not there is said of a null pointer.
Process(m, rest) ==
    LET s == Found(m)
    IN  /\ events' = IF s = 0 THEN WithError(rest) ELSE rest
        /\ \/ s = 0 /\ UNCHANGED <<slots, errors, cxns, client, early, up>>
           \/ s # 0 /\ m.major \in OfIc /\ ~Ic(s).used /\ Crash
           \/ s # 0 /\ (m.major \in OfIc => Ic(s).used) /\ Handle(m, s) /\ up' = up

Taking(t) == up /\ scan = 0 /\ events # <<>> /\ Head(events).t = t
TakenOnly == UNCHANGED <<eventQ, scan, held, up, spent>>

Slot(c) == [client |-> c, valid |-> TRUE, closed |-> FALSE, sync |-> "", encoding |-> "", ic |-> NoIc]
\* As Reusable, but one that is closed is taken as well.
ReusableIfClosed == SelectInSeq(slots, LAMBDA sl : ~sl.valid \/ sl.closed)
Reusable == SelectInSeq(slots, LAMBDA sl : ~sl.valid)

\* preconnect and add_proxy: the first WxContext that is not valid is reused.
TakeConnect ==
    /\ Taking("CONNECT")
    /\ LET c == Head(events).from
           s == Reusable
       IN  /\ slots' = IF s = 0 THEN Append(slots, Slot(c)) ELSE [slots EXCEPT ![s] = Slot(c)]
           /\ Tell(c, [phase |-> "met"]) /\ Calls(c, {"comm", "proxy"})
    /\ events' = Tail(events)
    /\ UNCHANGED <<cxns, early>> /\ TakenOnly

\* on_client_message: the message, and then the queue from its start.
TakeMessage ==
    /\ Taking("MESSAGE")
    /\ LET m == Head(events)
       IN  IF Waits(m)
           THEN /\ held' = <<m>> /\ events' = Tail(events)
                /\ UNCHANGED <<slots, errors, cxns, client, early, up>>
           ELSE held' = <<>> /\ Process(m, Tail(events))
    /\ scan' = 1
    /\ UNCHANGED <<eventQ, spent>>

\* Where to look after the i-th: at the next, or after a removal from the start.
ScanFrom(i, waits) == IF waits THEN i + 1 ELSE 1

ScanOne ==
    /\ up /\ scan \in DOMAIN eventQ
    /\ LET m == eventQ[scan]
       IN  /\ IF Waits(m)
              THEN UNCHANGED <<slots, errors, cxns, client, early, up, events, eventQ>>
              ELSE eventQ' = RemoveAt(eventQ, scan) /\ Process(m, events)
           /\ scan' = ScanFrom(scan, Waits(m))
    /\ UNCHANGED <<held, spent>>

ScanEnd ==
    /\ up /\ scan > Len(eventQ)
    /\ eventQ' = eventQ \o held /\ held' = <<>> /\ scan' = 0
    /\ UNCHANGED <<slots, up, cxns, events, errors, client, spent, early>>

\* destroy_client: the proxy window went with its client's.
TakeDestroyed ==
    /\ Taking("DESTROYED")
    /\ LET s == Found([Head(events) EXCEPT !.major = "DISCONNECT"])
       IN  IF s = 0 THEN UNCHANGED <<slots, errors, cxns, client, early>>
           ELSE DisconnectClient(s, <<>>, {})
    /\ events' = Tail(events) /\ TakenOnly

\* As Renewed, but an IC without the focus keeps its number.
RenewedFocused(x, s) ==
    LET k == FreeCxn(DOMAIN x.cxns)
    IN  IF ~x.slots[s].valid \/ ~x.slots[s].ic.valid \/ ~x.slots[s].ic.focus THEN x
        ELSE [slots |-> [x.slots EXCEPT ![s].ic.cxn = k],
              cxns |-> With(x.cxns, k, [NewCxn EXCEPT !.focus = TRUE])]
\* As Renewed, but wime is not told of the focus.
RenewedUnfocused(x, s) ==
    LET k == FreeCxn(DOMAIN x.cxns)
    IN  IF ~x.slots[s].valid \/ x.slots[s].closed \/ ~x.slots[s].ic.valid THEN x
        ELSE [slots |-> [x.slots EXCEPT ![s].ic.cxn = k], cxns |-> With(x.cxns, k, NewCxn)]
\* chk_im and chk_ic: every IC gets a new context, with the focus it had.
Renewed(x, s) ==
    LET k == FreeCxn(DOMAIN x.cxns)
    IN  IF ~x.slots[s].valid \/ x.slots[s].closed \/ ~x.slots[s].ic.valid THEN x
        ELSE [slots |-> [x.slots EXCEPT ![s].ic.cxn = k],
              cxns |-> With(x.cxns, k, [NewCxn EXCEPT !.focus = x.slots[s].ic.focus])]
TakeRestart ==
    /\ Taking("RESTART")
    /\ LET x[s \in 0 .. Len(slots)] ==
               IF s = 0 THEN [slots |-> slots, cxns |-> cxns] ELSE Renewed(x[s - 1], s)
       IN  slots' = x[Len(slots)].slots /\ cxns' = x[Len(slots)].cxns
    /\ events' = Tail(events)
    /\ UNCHANGED <<errors, client, early>> /\ TakenOnly

\* x_error: the first context that has the window, at any index but the first,
\* is marked as bad.  If none has it, the index is one past the last.
XError(e) ==
    LET s == SelectInSeq(slots, LAMBDA sl : sl.client = e)
    IN  /\ up
        /\ errors' = errors \ {e}
        /\ up' = (s # 0 \/ slots = <<>>)
        /\ slots' = IF s > 1 THEN [slots EXCEPT ![s].valid = FALSE] ELSE slots
        /\ UNCHANGED <<eventQ, scan, held, cxns, events, client, spent, early>>

Server == TakeConnect \/ TakeMessage \/ ScanOne \/ ScanEnd \/ TakeDestroyed \/ TakeRestart
          \/ \E e \in errors : XError(e)

---------------------------------------------------------------------------
(* X clients, and wime.                                                    *)

Send(c, t, major, arg) == events' = Append(events, Event(t, c, major, arg))
\* The server has no part in a client's step; what clients do when it has
\* stopped is left out.
Spend(n) == spent + n <= Budget /\ spent' = spent + n
Apart == up /\ UNCHANGED <<slots, eventQ, scan, held, up, errors, early>>

Preconnect(c) == /\ client[c].phase = "new"
                 /\ client' = [client EXCEPT ![c].phase = "asked"]
                 /\ Send(c, "CONNECT", "", "")
                 /\ UNCHANGED <<cxns, spent>> /\ Apart

\* What a client may ask, and with which argument.
Steps(c) ==
    LET k == client[c]
    IN  CASE k.phase = "met" -> {<<"CONNECT", "">>}
          [] k.phase = "connected" -> {<<"OPEN", "">>}
          [] k.phase = "open" /\ ~k.ic ->
                 {<<"ENCODING", "ctext">>, <<"ENCODING", "other">>, <<"QUERY_EXT", "">>,
                  <<"GET_IM", "">>, <<"CLOSE", "">>} \cup {<<"CREATE_IC", st>> : st \in Styles}
          [] k.phase = "open" /\ k.ic ->
                 {<<m, "">> : m \in {"KEY", "FOCUS", "UNFOCUS", "SET_IC", "GET_IC", "RESET_IC", "DESTROY_IC"}}
          [] k.phase = "closed" -> {<<"DISCONNECT", "">>}
          [] OTHER -> {}
Free == {"CONNECT", "CREATE_IC", "OPEN", "CLOSE", "DISCONNECT"}
Unanswered == {"KEY", "FOCUS", "UNFOCUS"}

Request(c) ==
    \E q \in Steps(c) :
        /\ client[c].awaits = ""
        /\ Spend(IF q[1] \in Free THEN 0 ELSE 1)
        /\ client' = IF q[1] \in Unanswered THEN client ELSE [client EXCEPT ![c].awaits = q[1]]
        /\ Send(c, "MESSAGE", q[1], q[2])
        /\ UNCHANGED cxns /\ Apart

ReplyStart(c) ==
    /\ client[c].owes > 0
    /\ client' = [client EXCEPT ![c].owes = @ - 1]
    /\ Send(c, "MESSAGE", "START_REPLY", "")
    /\ UNCHANGED <<cxns, spent>> /\ Apart

\* The connection to X is lost: its windows are destroyed, the proxy too.
Die(c) ==
    /\ client[c].phase \notin {"new", "gone"}
    /\ client' = [client EXCEPT ![c] = [NoClient EXCEPT !.phase = "gone", !.imid = client[c].imid]]
    /\ IF client[c].phase = "asked" THEN events' = events ELSE Send(c, "DESTROYED", "", "")
    /\ UNCHANGED cxns /\ Spend(1) /\ Apart

\* wime is started anew; the library's signal handler tells the event loop.
WimeRestart ==
    /\ Spend(1)
    /\ cxns' = <<>>
    /\ events' = Append(events, Restarted)
    /\ UNCHANGED client /\ Apart

XNext == \/ Server
         \/ \E c \in Clients : Preconnect(c) \/ Request(c) \/ ReplyStart(c) \/ Die(c)
         \/ WimeRestart

\* The event loop takes what X brings, and clients answer a PREEDIT_START.
XFairness == /\ WF_xVars(TakeConnect \/ TakeMessage \/ ScanOne \/ ScanEnd \/ TakeDestroyed \/ TakeRestart)
             /\ \A c \in Clients : WF_xVars(ReplyStart(c))

XSpec == XInit /\ [][XNext]_xVars /\ XFairness

---------------------------------------------------------------------------

XTypeOK ==
    /\ \A s \in DOMAIN slots :
           /\ slots[s].client \in Clients /\ slots[s].valid \in BOOLEAN
           /\ slots[s].sync \in {"", "START_REPLY"}
           /\ slots[s].encoding \in {"", "other"}
           /\ Ic(s).preedit \in 0 .. MaxLen /\ Ic(s).window \in {"none", "own", "made"}
    /\ scan \in 0 .. Len(eventQ) + 1 /\ Len(held) <= 1 /\ (scan = 0 => held = <<>>)
    /\ \A k \in DOMAIN cxns : cxns[k].comp \in 0 .. MaxLen
    /\ \A c \in Clients : client[c].imid \in 0 .. Len(slots) /\ client[c].shown \in 0 .. MaxLen

\* What a client has asked and has not been done, in order.
Asks(m, c) == m.t = "MESSAGE" /\ m.from = c /\ m.major # "START_REPLY"
Requests(q, c) ==
    LET asked[i \in 0 .. Len(q)] ==
            IF i = 0 THEN <<>>
            ELSE IF Asks(q[i], c) THEN Append(asked[i - 1], q[i]) ELSE asked[i - 1]
    IN  asked[Len(q)]
Queue == eventQ \o held \o events
Pending(c) == Requests(Queue, c)

\* What a client asks is done in the order it asked, though some of it is put
\* aside: its requests leave from the front and come in at the end
\* (on_client_message looks through the queue from its start after a removal).
InOrder == [][\A c \in Clients :
                 ~Gone(c)' => \/ Pending(c)' = Pending(c)
                              \/ Pending(c) # <<>> /\ Pending(c)' = Tail(Pending(c))
                              \/ Pending(c)' # <<>> /\ Front(Pending(c)') = Pending(c)]_xVars

\* A client that is connected finds the WxContext made for it, whatever other
\* clients have come, gone, and left theirs to be reused (add_proxy, have_im).
LiveFound == \A c \in Clients :
                 client[c].phase \in {"met", "connected", "open", "closed"} =>
                     \E s \in DOMAIN slots :
                         /\ slots[s].client = c /\ slots[s].valid
                         /\ client[c].imid \in {0, s}
                         /\ \A i \in DOMAIN Pending(c) : Found(Pending(c)[i]) = s

LiveIcs == {s \in DOMAIN slots : slots[s].valid /\ ~slots[s].closed /\ Ic(s).valid}
Settled == \A i \in DOMAIN events : events[i].t # "RESTART"

\* Each live IC has a context of wime to itself, also after restarts, once the
\* event loop has seen the notice (chk_ic).
OwnContext == Settled => \A s \in LiveIcs : /\ Known(Ic(s).cxn)
                                            /\ \A r \in LiveIcs \ {s} : Ic(r).cxn # Ic(s).cxn

\* wime's context has the focus that the client last gave its IC, also if that
\* was said between a restart and its notice (chk_ic, SetIcFocus).
FocusKept == Settled => \A s \in LiveIcs : Known(Ic(s).cxn) => cxns[Ic(s).cxn].focus = Ic(s).focus

\* On the spot, a client that shows wime's composition shows it again after
\* every key that changes it, commits and new preedits included (onthespot.c).
ShownStays ==
    [][\A s \in LiveIcs :
          LET k == Ic(s).cxn
              c == Sender(s)
          IN  /\ ~early /\ ~Gone(c)' /\ Ic(s).style = "on"
              /\ Known(k) /\ Known(k)' /\ s \in LiveIcs' /\ Ic(s)'.cxn = k
              /\ client[c].shown = CompOf(k) /\ cxns'[k].comp # CompOf(k)
              => client'[c].shown = cxns'[k].comp]_xVars

\* A client that waits for a reply gets it, if the server does not stop, though
\* keys before may have to wait for a preedit to start (WxContext.Sync).
Served == \A c \in Clients : client[c].awaits # "" ~> (client[c].awaits = "" \/ ~up)

\* x_error copes with a window that a client has closed (main.c:67-69).  Used
\* for the run that shows it does not.
BadWindowSurvived == [][(\E e \in errors : XError(e)) => up']_xVars

=============================================================================
