# WIME in TLA+

WIME runs a Windows input method (IME) under Wine and offers it to X clients as
a server of the Canna kana-kanji conversion protocol, with requests of its own
beside Canna's. This directory holds TLA+ modules of its parts, TLC models that
check them on small instances, and TLAPS proofs for the parts that processes,
requests and messages interleave in. Line numbers refer to the files under `src/`.

## The system

| part | source | state | operations |
|---|---|---|---|
| server: tables | `exe/apisup.c`, `exe/canna.c` | `Clients`, `Context` (cells of `CannaContext_t`), `InputWins` (stock of input windows) | initialise, finalise, create, duplicate, close, reload, kill; disconnections |
| server: dictionaries | `exe/canna.c`, `lib/list.c` | `Dics`, `DicMode` of a context | mount, unmount, remount |
| server: keys and messages | `exe/canna.c`, `exe/main.c`, `io/wimeio.c` | `Flags`, `XWin` of a context; the IME's input context and the message queue of Windows | SendKey, GetCandiList, EndConv, RegXWin, GetResultStr, FlushMsg, the window procedure, aux input |
| server: conversion | `exe/canna.c`, `exe/apisup.c` | fixed clauses and readings, candidate pages | begin and end a conversion, clauses, candidates, automatic conversion |
| server: transport | `exe/main.c`, `io/wimeio.c` | `CannaFds`, `ActiveFd`, the packet in `chbuf` | `ImSelect`, `recv_xim`, replies |
| process table | `lib/wimeconn.c` | shared memory with the pids of clients, a named semaphore for it, the start-up semaphore | register, unregister, look up, announce; wait for the start |
| client library | `so/wimeapi.c`, `so/corr.c` | `Fd`, `LibCxn` (context numbers by index), `RestartServerCount` | connect, create, close, one function per request, the handler of the restart signal |
| GTK and Qt input modules | `gtk3/`, `qt5/` (GTK 2/4 and Qt 4/6 are built from the same files) | `WimeCxn`, `ServerLevel` and preedit text of each widget | create, filter keys, focus, reset, delete; replacement of a context after a restart |
| XIM server | `xim/` | `ContextList` (a `WxContext` for each X client), `EventQ` (events put aside), input contexts, synchronisation flags | the event loop, the requests of the X input method protocol, X errors, restarts of wime |
| setting file and kana | `io/wimeio.c`, `lib/ut.c` | `HinshiTab` | read the table of parts of speech; half-width to full-width kana and back |
| tools | `wimectrl/`, `lib/`, `im-config/`, `hinshi`, `patch/` | none that lasts | command line, helpers, packaging |

How they interact. A client connects to a socket; the receiving thread
(`recv_xim`) reads one packet at a time and hands it to the window thread with
`SendMessageW`, which returns when the request has been answered. A disconnection
is handled in the receiving thread itself. The window thread also runs a message
loop, and some requests run it too, so messages of the IME are dispatched in the
middle of requests. Text from a palette reaches a client by a detour: the window
procedure sends an X key event to the window that the client registered, and the
client then asks for the result string. When the server starts it writes its pid
to the shared table and signals every client in it; the handler connects again
and counts the restart, and each widget replaces its context when it finds that
its level is not the count.

What is hard in it: contexts, windows and descriptors are reused; a request may
fall anywhere between the messages of the IME; a restart signal may fall between
any two requests of a widget; the lock of the shared table gives up its name at
every unlock; several arrays must be edited alike; a clause has one number while
the IME holds it and another once the server has fixed clauses before it, and one
length in half-width kana and another in full-width; the XIM server reads on from
other clients while it waits for one, and a client may die with requests still
queued; a starting server finds what a crashed one has left behind. `PROJECT.json`
lists these places under `hazards`, line by line.

## What makes each part correct

* Tables: each input window has one user at a time and none is lost; a context
  in use has a connected owner; one connection never changes another's contexts.
* Dictionaries: names and modes stay aligned; a new context starts clean; the
  arrays of bytes behind the lists say what the sequences of names say.
* Keys and messages: the text a key commits reaches its client; replies about
  candidate windows are about this key; palette text is announced.
* Conversion: an edit of one clause leaves the clauses before it alone; the client
  gets the candidate it has named; an edit of its buffer edits what it meant.
* Transport: a client gets the answer to what it has asked; a descriptor that is
  used again has no session; a call returns whatever others leave half done.
* Process table: the lock keeps its token, nobody waits for ever, a registered
  client is in the table.
* Start-up: a server that listens can be reached; a token of the start-up
  semaphore means a server; who waits is let go.
* Client library and widgets: the library's table is what the server holds; a
  widget uses its own context, leaves none behind and stays connected.
* XIM server: a client finds its own place in the tables, has a context of wime
  to itself, is served in the order it asked, and shows what wime composes.
* Text: a reading survives the way to the client and back, in either code; the
  setting file means what its lines say.

## Modules

| module | models | how state and actions correspond to the code |
|---|---|---|
| `Sessions` | what the tables promise: numbers are granted to members, nobody holds another's, the end of a member frees its own | abstract, no code |
| `ContextTable` | `Clients`, `Context`, `InputWins` | `win`, `owner` are the fields `Win`, `Connection` of the cells, `NoWin` is `NULL`; `stock` is `InputWins`; one action per request, `Disconnect` for the receiving thread, `Restart` for a new process |
| `ListBytes` | `lib/list.c` over `lib/array.c` | operators on sequences of bytes, with the NULs of members and the end mark |
| `Dictionaries` | requests 08 to 0a over `ContextTable` | `dics`, `dicMode` are the two arrays; a list index counts from 0 |
| `KeyMessages` | SendKey, `wnd_proc`, the flags, aux input, over `ContextTable` | `flags` is `Flags`, by the names of the bits; `queue` holds the messages posted and not dispatched; `aux` is a window in `aux_input` between its two lookups |
| `Transport` | `recv_xim`, `ImSelect`, the packets of `so/corr.c`, calls of the library and the restart signal within them | `in` and `out` are the bytes on their way, cut at the writes; `fds`, `active`, `hand` are `CannaFds`, `ActiveFd` and `chbuf`; `calls` is the stack of a process: its call and the handler's on top |
| `Clauses` | requests 0f to 18, 1a, 1d and 1f, with their helpers in `exe/apisup.c` | `fixedNum`, `fixedYomi`, `candInfo`, `bufStart`, `convertedCl`, `ferMode` are the fields of those names; `comp` and `result` are the IME's; `told`, `request`, `answer` record what the client has seen, and no action depends on the last two |
| `PidLock` | `lib/wimeconn.c`'s table and lock, with the restart handler's calls on them | one step per system call; a flow of execution is a process's own or its handler's; semaphores and memory objects have identities, names point to them |
| `Startup` | how servers and `wimectrl -t` meet: the socket file, the start-up semaphore, the restart signal | `phase` and `pc` name the next system call; `file` is the owner of the socket file; each unlinking of `/wimerun` begins a new `gen` |
| `ClientContexts` | `so/wimeapi.c` with the widgets of `gtk3/gim.c` and `qt5/qim.cc` | `libcxn` is `LibCxn`, `count` is `RestartServerCount`, `level` is `ServerLevel`; `at` is the next step of the operation in progress |
| `Xim` | the event loop, the queue and the contexts of `xim/` | `slots` is `ContextList`, `eventQ` is `EventQ`, `sync` is `Sync`; one step per X event, and one per message looked at in the queue; `cxns` are wime's contexts by the library's numbers |
| `Kana` | `U16CombineHan`, `U16HanToZen`, `U16ZenToHan` of `lib/ut.c`; `FromU16ToClient`, `FromClientToU16` of `exe/apisup.c` | recursive functions over strings of classes of characters; a string in EUC-JP is the characters that its converters give |
| `Hinshi` | `ImReadSetting`, `read_hinshi_def`, `get_line`, `canna_hinshi_to_win` | one step per line; `lb` is the line buffer, `table` is `HinshiTab` |
| `Lists_proofs` | lemmas on folded and flattened sequences, and what each operation of `ListBytes` does to the bytes of a list | used by the next two |
| `Contexts_proofs` | theorems about `ContextTable`, `Dictionaries`, `KeyMessages` | |
| `Conversion_proofs` | theorems about `Kana`, `Hinshi`, `Clauses` | |
| other `..._proofs` | theorems about `PidLock`, `Startup`, `ClientContexts`, `Transport`, `Xim` | |
| `MC...` | the instances that TLC checks | sets of model values and their symmetry; `MCText` puts `Kana` and `Hinshi` side by side |

`ContextTable` takes a request as one step. The code justifies it: the receiving
thread waits for the handler to end before it reads on or disconnects anyone.
`Dictionaries` and `KeyMessages` extend it: each of their steps is a step of the
tables, with what it does to the added state (`DicsFollow`, `Follow`), or a request that
leaves the tables alone.

`Transport` opens that step for the library's clients, one of whose calls at a time
is a packet on its way. A connection is known by a number, which stands for the
descriptors at both its ends and is used again. A packet of one write is read
whole; one of two may be parted by anything, and where its second half is taken
for a header, that stands for an unknown request, a query, Finalize or KillServer
(Init, which would read on, is left out). The end of the process after KillServer
and the handler's run before it connects are one step each; a signal within
`WimeFinalize` after its reply is not split from its end.

`KeyMessages` opens the one place where the two threads meet outside requests:
the window thread dispatches a message of its own loop while the receiving
thread handles a disconnection. Windows and the IME are external to it. A key may
be refused, change the mode, change, cancel or commit the composition, open the
candidate window or ask for reconversion; what it then posts is taken from the
conditions of `wnd_proc` and the notes beside SendKey. The content of texts is
left out: a result string is there or not.

What a client gets of a key depends on whether it has registered a window. GTK's
widgets do (`gim.c:35`, `264`), the XIM server does when it makes a context
(`ic.c:100`), Qt's never do. Result strings
that are not taken for a key's are announced to the window, if there is one
(`main.c:466`). So a key's text may be announced
instead of replied; to a client without a window it may be lost, in the one case
that `KeyTextReaches` excepts.

`Clauses` is one context and one client that keeps to the protocol: it edits
only between the begin and the end of a conversion and names clauses that it has
been told of. The IME is a choice: it cuts a reading into any clauses, except
before a sound mark, and refuses what would part a mark from its kana. A
candidate is a number, a converted text is left out. Readings are kept in
half-width kana because the code's arithmetic is on them; the lengths in the
client's full-width kana are counted where the code counts them
(`CombinedLen`).

`PidLock` has the restart signal as it falls. A process in the table is signalled by
`ShmStartServer`; from then on its own flow stands still, wherever it is, until the
handler has made its two calls on the table (`wimeapi.c:819`, `826`). A call that the
signal finds in `sem_wait` fails with `EINTR` and posts all the same. If it finds
the process with the token of the semaphore that the name leads to, which takes a
server in a semaphore that has lost its name, the handler waits for what its own
process holds. `Ring` is this case, with as many processes as it may have; the
properties say that there is no other to wait for ever.

`Kana` has the way to a client, too. One that asks for UTF-16, as the library does
(`wimeapi.c:67`), gets the string as it is; a big-endian one gets its bytes
swapped, both ways. Any other gets EUC-JP: `conv` (`ut.c:521`) tries EUC-JP-MS and, from
the first character that this lacks, EUC-JISX0213, which has the voiced u of
hiragana and the voiced wa and wo of katakana. `ut.c:1040` says of the first that it is
not in EUC; that is so where iconv lacks EUC-JISX0213 (`ut.c:61-69` allows for that
on FreeBSD), and for such a system, `X0213 = FALSE`, the property leaves those
characters out. EUC-JISX0213 holds back a kana that may combine with what follows
(`ut.c:607`): a string must be converted with its NUL, and `ClauseStr` adds
one to each.

`ClientContexts` takes a request and its reply as one step, gives a context any
free number, and takes the pid table to be right (`PidLock` says when it is);
`Transport` has the signal between a request and its reply.
The toolkits differ in one order, and the properties show it. Qt notes the
server's level before it creates the context: a signal in between makes it create
once more, so it never trusts an index of an earlier connection, but leaves a
context to nobody. GTK notes the level afterwards: it leaves nothing behind, but
a signal in between makes an old index pass for a new one.

`Xim` has X deliver, in one order, what clients send, the notices of their
deaths and the note of a restart; errors come at any later time. A client that
dies loses its windows at once, so calls that are made for it before its notice
is read raise errors, which the handler meets. `Startup` takes the calls on the
shared table as atomic, which `PidLock` opens.

## Runs

All runs go over all interleavings. `pid_lock`, `xim_order`, `startup` and `transport` also
check liveness. The run that expects a violation checks a statement of the
documentation that the code does not keep (`findings`).

| run | bounds | shows |
|---|---|---|
| `context_table` | 3 connections, 3 contexts, 4 windows, symmetric | windows are neither shared nor lost, owners are connected, connections are isolated, `Sessions` is implemented |
| `dictionaries` | 2 connections, 2 contexts, 2 names, 2 modes, 3 dictionaries in a context; 3 spellings of which one begins and one ends another | arrays stay aligned, lists of bytes agree with sequences, remount keeps modes |
| `key_messages` | 1 connection, 2 contexts, 2 windows, 1 message left over | committed text reaches its client, but for one case of those without a window; candidate replies are about this key and remembered; no message outlives its window |
| `clauses` | readings of up to 3 characters in a context, one of them voiced; 4 inputs, one with an extra form; the candidate window opens after 2 conversions and has pages of 2 | edits change what they name; picks are committed; edits of the buffer land where they were meant |
| `pid_lock` | 2 clients with their handlers and the server, of which a client and the server are in calls at once, 1 cell, 1 start of the server, 6 object identities | each semaphore keeps its token; a call returns unless a ring of handlers waits for its own processes, and nobody else waits for ever; without contention registered clients are in the table |
| `startup` | 2 servers, 2 waiters, of which 1 timed, 1 crash | no listening server without its path; no token without a server; an untimed wait does not fail; without a signal all are let go |
| `client_contexts` | both toolkits, 2 widgets, 4 numbers, 3 starts | the library's table is exact; GTK leaves nothing; Qt notices restarts and stays connected |
| `xim` | 2 clients, 3 events beyond connecting (requests, deaths, restarts), 2 styles, compositions of 1, symmetric | clients find their places, own their contexts, keep their focus and show what is composed |
| `xim_order` | 1 client, 4 events | requests are done in order; every reply comes |
| `transport` | 2 clients, one that catches the signal and calls with two writes, one that does not and calls with one; 2 connections, 2 writes in a socket, 3 starts, crashes, deaths or ends | one answer to one question; nobody is refused; calls return once the others are quiet |
| `text` | strings of 4 half-width characters, 10 of them, with every kind of kana and both marks; files of 2 lines of 5 kinds, read twice | readings come back, cuts are safe where the code cuts, a file of entries is read whole |
| `text_comments` | the same | violation: what follows a comment is ignored |

Why the bounds suffice. Two contexts can already share a window, three leave one
bystander while a window passes from one to another through the stock; the fourth
handle lets a reload make new windows while old ones exist. Three dictionaries
have a first, a middle and a last. A client and the server are enough for two semaphores
with one lock name, and with the handler on top of the client's call for three; one start
is enough for a signal that finds a process waiting, working or holding the other
token. That processes wait on the same nameless semaphore needs three in
calls at once and is beyond the run's time, as is a ring of two, but the proofs
cover them. Three starts
let a signal fall into the operation that the signal before has caused, and four
numbers let the numbers of one start be given to another widget in the next. One
message left over can be of a palette, of an earlier request or a late candidate
window; keys add up to two of their own. Three characters make three clauses, with
two of them fixed, or one with a mark and a neighbour on either side; two
conversions open the candidate window, and two pages have a first and a last. Two
servers are one that crashed and its successor, two waiters pass the token on. Two
clients of the transport are one that does harm and one that suffers it; of two
connections each can be left by one client and used again by the other; two writes
are a packet; three events are a start, a crash and the next start with its signal,
or two deaths. (An instance with three connections, so that nobody has to wait for
one, and two events holds too; it takes longer.) Two
X clients are one whose place is reused and one that is there already, and of the
three events beyond connecting one can be a death and one a restart with a key
between them. Four characters hold two voiced kana; a table that is read twice
shows what the first reading leaves behind.

A configuration without a deadlock check is one in which the system may stop: the
`dictionaries` runs end at the access through an item that does not exist, the
`pid_lock` runs when the clients have ended and the server has started, the
`xim` runs when the budget is spent or the process has died of an X error, the
`startup` runs when each server has started once and each waiter has ended, the
`transport` runs when nobody calls and the budget is spent, the
`text` runs when the string is full or the readings are done.

Properties of types are not among the runs' properties, except `KTypeOK`, which says
more; they hold on the same instances, and those of `ContextTable`, `Dictionaries`,
`KeyMessages`, `PidLock`, `Startup`, `ClientContexts` and `Transport` are proved.

Fairness. `PidLock!FairSpec`: a process inside a call is scheduled and a signal is
delivered (weak fairness of each process's steps, its handler's included).
Interruption of a wait is not among these steps, so waits end
because somebody posts. Nothing is assumed of clients between calls, nor that
processes call at all. `Startup`: a process that can take its next system call
does; nobody has to start, kill or crash a server, remove the socket file, or let
a time limit pass. `Xim`: the event loop takes what X brings, which it does
because it blocks only in `XNextEvent`, and a client answers a `PREEDIT_START`, as
the X input method protocol obliges it to; nothing is assumed of requests, deaths
or restarts. `Transport`: some thread of the server or process within a call goes
on while one can, the weakest there is; nobody has to call, begin, die or start a
server. It does not say which one goes on, so `CallsReturn` asks that the others
fall quiet.

## Proofs

Each proof module states, for every value of the constants, an inductive
invariant, has one step per action, and concludes the properties of the runs from
it. They use the assumptions that the modules state of their constants, and no
other. These say what kind of thing a constant is, with few exceptions that are
about the code: a name has a letter and no NUL within (`SpellingsAssumption`; an
empty name would be read as the end of its list); kana that take both marks
take the voiced one, and those that take it as katakana alone are others
(`ClassesNest`).

`Contexts_proofs`, the tables: `TypesCorrect`, `WindowsNeverShared`, `NoOrphanContext`,
`ConnectionsIsolated`, and `Refinement`, that `ContextTable` implements
`Sessions`. The invariant is `IInv == TypeOK /\ WindowsExclusive /\
OwnersConnected`. The three need each other: that a window taken from the stock
is nobody's needs that the stock has no duplicates and nothing in use, which a
close preserves only because no two contexts share a window, and a new handle is
fresh because the windows that exist are those in use or in the stock. That a
stale `Connection` does no harm needs that every context in use has a connected
owner: a descriptor that is accepted again owns nothing. The refinement maps a
member's sessions to the cells it owns and uses `OwnersConnected` for the end of a
connection.

`Contexts_proofs`, the dictionaries: `DTypesCorrect`, `ListsStayAligned`,
`RemountKeeps`, `BytesHoldTheNames`.
`DInv` adds to the invariant above, which the module reuses step by step, the types
of the arrays and that a context not in use has empty ones. That every edit keeps the
lengths equal follows from the lemmas on removing and inserting one element. That
a remount keeps the modes follows from naming the place to which each place of the
lists goes: the counts that the property compares are of sets that this map takes
onto each other. That the bytes hold the names (`BytesHoldTheNames`) is a fact about
every list and not about the ones that are reached: the lemmas of `Lists_proofs`
follow each operation of `list.c` and `array.c` through the bytes, `nul_pos` by
`nul_pos`. A member's place in the bytes is the length of what is before it
(`Offset`); a search (`ListFindIs`) can stop only where a member begins, because a
spelling has no NUL within, so that neither a name that ends another nor one that
begins another is taken for it.

`PidLock_proofs`: `TypesCorrect`, `TokenNeverLost`, `WaitsEndOrRing`,
`SerialCallsRecord`. The token
of a semaphore is kept although its name goes because an unlinked object stays
open in those that use it. To say so by induction, `LockInv` needs that a flow
has a semaphore exactly while it is inside a call (`CallShape`), and that an object
nobody names or holds is as new (`UnusedClean`), so that a fresh one has its one
token; counting the holders when one enters or leaves is `HoldersCount`, and
`FreeObject` finds an object for a new name by the pigeonhole principle. Rings
follow from the token: a semaphore without one has a holder (`SomebodyHolds`),
and a holder whose process waits at the same time is the main flow under a
handler (`HeldBelow`), so of processes that wait only for each other those whose
handlers wait are the ring.
`SerialInv` holds while the calls of two processes have not overlapped: one main
flow is busy at most (`OneBusy`), it works in the memory that the name leads to (`MapsNamed`),
at the cell it found free (`CellFree`), and the cells hold the members
(`MembersRecorded`). A handler then finds its process in the table, because only
those recorded are signalled and what is recorded stays so while the handler is due
(`CalledRecorded`): it looks and writes nothing (`HandlersRead`).

`Contexts_proofs`, the keys: `KeyTypesCorrect`, `OpenStaysRemembered`, `KeyTextNotLost`,
`CandidatesAreNew`. `KInv` adds to the invariant of the tables the types, that the
queue is a sequence of messages of windows that exist, and `OpenIsRemembered`. It
needs the tables' part because a window that two contexts used would set the flags
of the wrong one, and because a window that is destroyed takes its messages with it
(`LeftOfQueue`). The message loop of a request is a function along the queue, so
what it does is shown for a queue of any length by induction: `LeastNat`, that a
non-empty set of naturals has a least element, is the library's theorem on minimal
elements, and `Iterated` makes from it, for any step, the course of its
repetitions; `FlushGood` keeps the state good along it. That text is not lost rests
on the order of posting: the message that ends the composition is the last that
SendKey's own flush sees, so nothing after it takes the flag back. If the key posts
a result alone, the flag that SendKey has set decides, and only a reading message
before it takes that away; with a window registered the text is announced even then.

`Startup_proofs`: `OneListener`, `NoStaleToken`, `NeverGivesUp`. `IInv` has the types, that a
listening server owns the path, that no semaphore is made beyond the stops of
servers (`GenCounts`), that semaphores not yet made are empty (`FutureUnused`), and
that a token of the present semaphore is in its value or in a waiter's hand only
while its server is there (`TokensFollow`): waiters take it and hand it on, so the
value alone is not inductive. `NeverGivesUp` counts over the whole history:
tokens in semaphores and hands are never more than the servers that have posted. A
third try would mean two tokens were taken, so both servers have come, and the
one that has not stopped is there to be found.

`ClientContexts_proofs`: `LibraryExact`, `GtkLeavesNoContext`,
`QtNoticesEveryRestart`, `QtKeepsConnection`. `LinkInv` says when a connection of
the library is the server's; it does not need to know who asks. The rest differs
by the toolkit: for GTK (`GtkInv`) that an operation in progress belongs to a
widget that lives, that a context held for a widget is the one its index stands
for, with a level that is up to date or about to be, and that one is created only
where there is none; for Qt
(`QtInv`, `Fresh`) that a level equal to the count means an index of this
connection, which holds because the level is noted before the creation.

`Transport_proofs`: `TypesCorrect`, `AnswersMatch`, `NobodyRefused`. What `OneAnswer`
counts is not inductive: that a reply is to the right question depends on where a
packet begins. `Inv` has, for each client that no signal has torn and whose
connection stands (`Linked`), that its packets are whole but for the first, if its
header has been read, and the last, if the client is half through (`Aligned`);
that its question is in one of three places, on the way, in `chbuf` or answered,
and in none if it waits for nothing (`Owed`); and that there is no session while
an `Init` is on the way. A descriptor that is used again is clean because sessions
belong to connections that are served (`Served`), replies wait for clients that
are there (`Unread`) and no two clients share a connection (`Apart`). These three
are kept by all clients, torn or not, so that the others can do no harm: a torn
client may send half a packet and the server may take a body for a header without
a case of the proof about anyone else. After the end of a call nothing is asked,
because what lies below the top of a client's stack has failed (`Stacked`).

`Xim_proofs`: `ClientsFound`, `OwnContexts`, `FocusStays`, `DoneInOrder`,
`ShownAgain`. The proof sees every step from `Queue`, which is what has been put
aside, what is to be, and what X brings, in one sequence: putting a message aside
does not change it, reading one takes it out, and all else comes in at its end.
`XInv` is `Types`, `QInv`, `Owned` and `Drawing`. `QInv` has a part for each kind
of thing: of a client, that it has no place and has asked nothing until its
connection is taken (`Introduced`), that after its end nothing comes but errors
and the notice (`Departed`), that it has a place while it is connected (`Placed`),
and that of all it has asked only the last wants an answer (`InTurn`); of a place,
that what its client knows and what it has asked agree with it, and that what has
been looked at and left is waiting for a `START_REPLY` (`Fitting`). The last part
is about the messages of clients that have lost their place (`Cleared`):
`have_imic` takes the number in them at its word, so they would be done for the
next owner. They do its input context no harm because it has none yet: they lie
before all that it has asked, and since a removal starts the scan of `EventQ`
again, the scan that ends the answer to its `CONNECT` passes them all before its
`OPEN` is read. `Carried` says what a step leaves in order, and the lemmas on it
(`Faded`, `Handled`) reduce each action to what it does to one place and one
client. `Owned` is `OwnContext` and `FocusKept` in one; it needs `QInv` because a
focus, a key or a destruction for an input context that does not live would touch
another's context. `chk_ic`, slot after slot, is followed with `Through`.
`DoneInOrder` follows from `QInv` alone: a message that need not wait, from a client
that lives, is the first that client has asked (`ReadFirst`), because what lies
before it has been looked at and waits. What `Requests` gathers of a queue with one
message less is then compared with what it gathers of the whole one, place by place
(`GatherAlike`, `DropsGather`).
`ShownStays` says that after a step that changes a composition its client shows
the new one. For that the IC must know of what its client shows (`Shows`): a
preedit that was not started is not cleared. And no key of another input context
may draw in the same context of wime. `Drawing` has both. The second (`Alone`) is
not `OwnContext`: it holds before a restart has been noticed too. The restart
leaves no context, so that old numbers, equal to others or not, stand for none;
only a context made between the restart and its notice (`early`) could be taken
for another's. The ways a key can end are compared with what the client shows in
`OutcomesOnTheSpot`: composition and client stay as they were, the client shows
what is composed now, or a composition ends of which no preedit was started, and
then nothing was shown.

`Conversion_proofs`, kana: `Reconversion`, `CutAnywhereWhole`. Both are facts about every
string, by induction from its end to its beginning, because `HanToZenFrom` decides
at each character whether the next is used up with it. What makes the way back
right is that a converted character names the kana it came from and its mark, so
the piece that `FromWide` gives is what was read, and that nothing happens to it in
between (`ThereAndBack`): the converters change no character that one of them has,
and hold nothing back when the last one is the NUL. What makes a cut safe is that the
conversion of a suffix depends on the suffix alone, and that the one before the
cut ends exactly there.

`Conversion_proofs`, word classes: `FilesOfEntriesRead`. The invariant `HInv` says, while
a file of entries is being read, that the table has what the lines read so far say
and the line buffer is empty, so that each line is parsed by itself. That the first
line that names a word decides is then a fact about the concatenation of what the
lines say (`FirstHit`).

`Conversion_proofs`, clauses: `ConversionInvariant`, `OneClauseEdited`, `LeftAsCut`,
`OthersAsCut`, `ListedPicked`, `BufferEdited`, for any bound on the length of readings,
any cut of them that the IME may make, pages of any size and lists of any number of
them up to the four that the server turns. `ConvInv` has
three parts. `Sound`: no clause is empty or begins with a sound mark, and none that
is converted comes after one that is not. Without the first the IME might refuse
the boundaries that the server restores; in automatic mode, where the model has the
client type no marks, there are none (`CharsIn`). `Held`:
result strings and fixed clauses are left by automatic conversion only, and
`FixedNum` is the number of readings kept. `Known`: of a clause whose list the
client holds, `CandInfo` has that list or nothing, which is what `page_index` and
`update_cand` rely on when they turn pages (`PageHolds`).
The properties say what becomes of the clauses that were not edited, so the proofs
follow two cuts of one reading: the readings of the clauses and the pieces the
server wants. `Agrees` says that both begin alike. A round of `adj_clause` adds one
piece to what agrees, whatever the IME makes of the rest: if the cut is another
one, the length asked for puts the boundary where the piece ends, and since the
next piece begins whole the IME moves it no further (`AdjustOneIs`, `RecutsIs`).
That the rounds add up is an induction over them (`AdjustIs`), and the boundaries
themselves are known from the positions kept before the edit, shifted behind it by
what the clause has grown (`TextShifted`). After StoreYomi the last piece before
the edited one is not asked for, hence the `- 1` in `LeftKept`; StoreRange asks for
all of them. `BufferEdited` rests on `BufferIs`: the converted readings come first,
so the reading is `ConvertedReading` followed by `Unconverted`, and an edit behind
the one is an edit of the other.

`Lists_proofs` has what these need of the community modules: `FlattenSeq` is a
recursive function within its definition, and `FlattenIs` shows that there is one.
The library's induction theorems take an operator as a parameter and cannot be
used; `Induct`, `SeqInduct` and the like do their work with a set, and rest on the
library's theorem on minimal elements (`LeastNat`).

Only model-checked: liveness (`CallsReturnUnlessRing`, `UnsignalledLetGo`, `Xim!Served`,
`CallsReturn`), which like `ENABLED` is out of the prover's reach. For the properties
that the code does not keep TLC has a counterexample (below).

## Mutants

The definitions named for a fault (`PopWinKept`, `CannaCloseContextKept` and the like)
stand before the definition they vary. No action uses them; put in the place of
the definition, each makes one property fail, which shows that the property says
something of the code. `PROJECT.json` pairs them.

## Where the code does not do what one would expect

One such place is a run of its own (`text_comments`). The following have a property and a
configuration that shows a counterexample, too (`tlc -config X.cfg MCModule`):

| configuration | property | what the code does |
|---|---|---|
| `ContextTableStrangers` | `StrangersGetErrors` | SetAppName, NoticeGroup and DupContext use a lookup without a test: a connection without a session ends the server (`canna.c:1954`) |
| `DictionariesUnmount` | `UnmountRemoves` | the first dictionary of a context cannot be unmounted (`canna.c:271`) |
| `DictionariesRemount` | `RemountMovesToHead` | the only dictionary of a context cannot be remounted (`canna.c:309`) |
| `PidLockNested` | `EveryCallReturns` | the handler of a restart waits for the token of the call it has interrupted, for ever (`wimeapi.c:819`, `wimeconn.c:101`) |
| `PidLockContended` | `RegisteredIsRecorded` | with contention, a registered client may be missing from the table (`wimeconn.c:131`) |
| `ClientContextsReset` | `ResetReachesOwn` | a reset may reach another widget's context after a restart (`gim.c:349`) |
| `ClientContextsLast` | `StaysConnected` | the deletion of a widget may cut another off after a restart (`gim.c:319`) |
| `KeyMessagesPalette` | `PaletteAnnounced` | palette text is not announced after a key without a composition message (`main.c:505`) |
| `KeyMessagesPalette`, with `KeyTextReachesAll` in its last line | `KeyTextReachesAll` | to a client without a window the text of a key is lost after a composition message left over (`main.c:521`, `466`, `canna.c:2604`) |
| `ClausesRemove` | `RemoveKeepsRest` | with fixed clauses, RemoveYomi subtracts `FixedNum` too often (`canna.c:1601`) |
| `ClausesPicks` | `PicksCommitted` | a pick is lost once the information on its clause is gone (`canna.c:610`) |
| `StartupWait` | `WaitersLetGo` | the starting server's own signal may end a waiter that holds the token, and another waits on (`wimeconn.c:165`) |
| `TransportTorn` | `TornReturn` | who takes the restart signal between a request and its read waits for an answer to what nobody has been asked (`wimeapi.c:321`) |
| `TransportBusy` | `BusyReturn` | the first readable connection is always served first, and others may starve (`wimeio.c:240`) |
| `TransportStale` | `OwnBody` | a packet whose sender dies in the middle is handled with the body of an earlier one (`main.c:435`) |
| `XimBadWindow` | `BadWindowSurvived` | an X error on a window that no cell of the table has is marked past the table's end (`xim/main.c:70`) |

Others are in the models as the code has them, where a model has the state:

* `Clauses`: `current_cand_list` counts the fixed clauses and then each of them
  again as it goes through all (`canna.c:536-561`); `adj_clause` uses index −1 and does not restore the end of
  the last clause; the loops of `canna.c:1308` and `1316` look one character too
  far; GetStatus counts the candidates of earlier pages twice; FlushYomi and a
  ResizePause to nothing save the result twice; after `canna.c:1138-1145` the
  start of the client's buffer is not what is converted (`BufferAligned` does not
  hold).
* `ListBytes`: `ArInsert` moves too many elements (`array.c:187`). Unused by the
  models: `ArDelete` frees only a buffer that is `NULL` (`array.c:33`) and
  `ArFindIf` starts at the first element whatever it is told (`array.c:117-120`).
* `Xim`: a queued message of a dead client may be taken for one of the new owner of
  its place, as `have_imic` does not look at the window; the new owner has no input
  context then (`Cleared` in `Xim_proofs`), so that the handler gets a null pointer.
  The input method may be
  switched off on the root style before there is a window; a context that is made
  between a restart and its notice is made twice; a place that is marked for a bad
  window is not used again; ResetIc clears the client's side alone; the length
  of the preedit is not reset with it; the window of the root style may destroy
  the client's own focus window (`rootwin.c:65-70`), which for a client that is
  gone is an error for a window that no place has.
* `Startup`: of the three waits of `wimectrl -t` only the first has the limit
  (`main.c:151`), and KillServer answers before it unlinks (`canna.c:1992`), so
  two waiters may go on the same stale token. The limit itself is converted to a
  thousandth of what it should be in nanoseconds (`wimeconn.c:307`); no model has
  clocks.
* `Hinshi`: a file without entries gives a code that nothing has set, and the last
  line is not read unless it ends in a newline.

## Not modelled, and the plan

Not modelled, with the reason:

* clients that write other than the library does, reads that a signal parts, and
  sockets so full that the server's own write waits;
* a death inside a call on the shared table: the lock then stays taken, whatever
  comes; the interest is in what happens without one. That includes clients that
  register without the handler (`wimectrl`) or before they have it
  (`xim/main.c:113-116`), which the signal kills; in `PidLock` they may end between calls;
* the handler's other work in `PidLock`, which `Transport` and `ClientContexts`
  have; a handler in another thread of its process than the call it interrupts, in
  which case the call goes on and there is no ring; servers with
  different numbers of sockets in one table;
* the context numbers of requests in `Transport`: it knows that a request is
  answered, and `ClientContexts`, where a request and its reply are one step,
  what it does;
* the identity of texts in `KeyMessages`, the toolbar, word information and
  `CandIndex`, requests for contexts that do not exist in `Clauses`;
* trigger keys, extended events, reconversion and text from palettes in `Xim`;
* drawing and geometry (`xim/onthespot.c` apart from its preedit, `so/xres.c`), fonts, logging, options, formatting: data without control;
* ATOK's own interface (`exe/at.c`), Wine, X, the toolkits: outside this
  repository;
* build files, scripts and patches.

What would add most next, in this order: `ClientContexts` over `Transport`, with
the numbers of contexts in packets; texts with an identity in `KeyMessages`; a
refinement from `Transport` to the steps that `ContextTable` takes.
