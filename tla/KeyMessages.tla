---------------------------- MODULE KeyMessages ----------------------------
(***************************************************************************)
(* Keys and window messages of the conversion server: the request SendKey  *)
(* of exe/canna.c, the window procedure of exe/main.c and the flags of a   *)
(* context they share, and the X event that tells a client of text entered *)
(* from a palette.                                                         *)
(*                                                                         *)
(* The IME and the message queue of Windows are external.  What a key does *)
(* to the input context, and which messages it posts, is taken from how    *)
(* SendKey and wnd_proc use them and from the notes beside them: messages  *)
(* are posted, and reach wnd_proc when a loop runs (note [r11]); keys that *)
(* change the mode leave the input context alone; a request to reconvert   *)
(* comes while the key is processed.  The text itself is left out.         *)
(*                                                                         *)
(* The window thread is in a request, with recv_xim waiting for it, or in  *)
(* its own loop, when recv_xim may run: that is where a disconnection can  *)
(* fall between the two looks at a context that aux_input and its caller   *)
(* take.                                                                   *)
(***************************************************************************)
EXTENDS ContextTable, SequencesExt

CONSTANT MaxQueue   \* bound on the messages left for the window thread's loop

ASSUME MaxQueueAssumption == MaxQueue \in Nat

VARIABLES flags,      \* Context[n].Flags, those that wnd_proc and SendKey share
          xwin,       \* Context[n].XWin is set
          comp,       \* the input context of w has a composition string
          result,     \* ... and a result string
          queue,      \* messages posted, not dispatched
          aux,        \* the window whose message aux_input is working on
          announced,  \* contexts whose client has an unread aux KeyPress event
          fetching,   \* contexts whose client was last told to fetch candidates
          reply       \* the reply, when the last step was a SendKey

imc == <<comp, result>>
outputs == <<fetching, reply>>
keyVars == <<flags, xwin, imc, queue, aux, announced, outputs>>
allVars == <<vars, keyVars>>

NoReply == [st |-> "none", text |-> FALSE]

KInit == /\ Init
         /\ flags = [n \in Slots |-> {}]
         /\ xwin = [n \in Slots |-> FALSE]
         /\ comp = [w \in Handles |-> FALSE]
         /\ result = [w \in Handles |-> FALSE]
         /\ queue = <<>>
         /\ aux = NoWin
         /\ announced = {}
         /\ fetching = {}
         /\ reply = NoReply

---------------------------------------------------------------------------
(* Messages.  "reading": a composition changed, no result; "finish": a     *)
(* result with its reading; "result": a result alone, what a palette posts *)
(* and also a space typed in kanji mode; "palette": the same to the code;  *)
(* "open" and "change": the candidate window.                              *)

Post(w, kinds) == [i \in DOMAIN kinds |-> [win |-> w, kind |-> kinds[i]]]
ResultAlone == {"result", "palette"}

\* Is message m the kind that wnd_proc hands to aux_input?
IsAux(m, n, f) == m.kind \in ResultAlone /\ "SEND_KEY" \notin f[n]

NotifiedFlag(kind) == CASE kind = "open" -> {"CATCH_OPEN_CAND"}
                        [] kind = "change" -> {"CATCH_CHG_CAND"}

\* wnd_proc on one message, s being the flags and the announced contexts.
\* A message for a window that no context has is dropped.
WndProc(s, m) ==
    LET cx == {n \in Slots : win[n] = m.win}
        f == s.flags
    IN  IF cx = {} THEN s
        ELSE LET n == CHOOSE c \in cx : TRUE
             IN  CASE m.kind \in {"open", "change"} ->
                        [s EXCEPT !.flags[n] = @ \cup NotifiedFlag(m.kind)]
                   [] IsAux(m, n, f) ->
                        [s EXCEPT !.announced = IF xwin[n] THEN @ \cup {n} ELSE @]
                   [] m.kind = "reading" ->
                        [s EXCEPT !.flags[n] = @ \ {"SEND_KEY"}]
                   [] OTHER ->
                        [s EXCEPT !.flags[n] = (@ \ {"SEND_KEY"}) \cup {"CATCH_FINISH"}]

\* flush_msg_loop: everything posted is dispatched, for whatever window.
Flushed(f, msgs) ==
    LET after[i \in 0 .. Len(msgs)] ==
            IF i = 0 THEN [flags |-> f, announced |-> announced]
            ELSE WndProc(after[i - 1], msgs[i])
    IN  after[Len(msgs)]

---------------------------------------------------------------------------
(* The table's steps.  While recv_xim waits for the window thread no       *)
(* request is read; it accepts and disconnects by itself.                  *)

TableRequest == \E fd \in Fds : \/ Initialize(fd)
                                \/ Finalize(fd)
                                \/ CreateContext(fd)
                                \/ \E n \in Slots : DupContext(fd, n)
                                \/ \E n \in Slots : CloseContext(fd, n)
                                \/ NameClient(fd)
                                \/ ReloadConf(fd)
                                \/ KillServer(fd)

Reloads == \E fd \in Fds : ReloadConf(fd)

\* The messages that are left: Windows drops those of a destroyed window.
Left(kept) ==
    LET left[i \in 0 .. Len(queue)] ==
            IF i = 0 THEN <<>>
            ELSE IF queue[i].win \in kept THEN Append(left[i - 1], queue[i])
            ELSE left[i - 1]
    IN  left[Len(queue)]

\* Faulty variants, named for the fault, stand before what they vary.
FollowFlags(kept) ==
    /\ comp' = [w \in Handles |-> w \in kept /\ comp[w]]
    /\ result' = [w \in Handles |-> w \in kept /\ result[w]]
    /\ queue' = Left(kept)
    /\ flags' = flags
    /\ xwin' = [n \in Slots |-> Live(n) /\ Live(n)' /\ xwin[n]]
    /\ fetching' = {n \in fetching : Live(n)'}
    /\ reply' = NoReply
    /\ announced' = {n \in announced : Live(n)'}
    /\ aux' = IF server' = "up" THEN aux ELSE NoWin

\* A window takes its input context and its messages to its next user, and
\* a new or destroyed one has none; reset_context clears the flags and XWin
\* when a context is opened, and the client of a closed context is gone.
Follow(kept) ==
    /\ comp' = [w \in Handles |-> w \in kept /\ comp[w]]
    /\ result' = [w \in Handles |-> w \in kept /\ result[w]]
    /\ queue' = Left(kept)
    /\ flags' = [n \in Slots |-> IF Live(n) /\ Live(n)' THEN flags[n] ELSE {}]
    /\ xwin' = [n \in Slots |-> Live(n) /\ Live(n)' /\ xwin[n]]
    /\ fetching' = {n \in fetching : Live(n)'}
    /\ reply' = NoReply
    /\ announced' = {n \in announced : Live(n)'}
    /\ aux' = IF server' = "up" THEN aux ELSE NoWin

TableStep ==
    \/ /\ server = "up"
       /\ \/ \E fd \in Fds : Accept(fd) \/ Disconnect(fd)
          \/ aux = NoWin /\ TableRequest
       /\ Follow(IF Reloads THEN {} ELSE wins')
    \/ Restart /\ Follow({})

---------------------------------------------------------------------------
Requested(n) == server = "up" /\ open # {} /\ aux = NoWin /\ Live(n)

\* What a key may do, by what happens in the IME: whether it is processed,
\* the input context after it, and what it posts.
Key(done, c, r, posts, reconv) ==
    [done |-> done, comp |-> c, result |-> r, posts |-> posts, reconv |-> reconv]

Keys(w) == {Key(FALSE, comp[w], result[w], <<>>, FALSE),           \* not taken
            Key(TRUE, comp[w], result[w], <<>>, FALSE),            \* mode
            Key(TRUE, comp[w], result[w], <<"open">>, FALSE),      \* note [r14]
            Key(TRUE, comp[w], result[w], <<>>, TRUE),
            Key(FALSE, comp[w], result[w], <<>>, TRUE),
            Key(TRUE, TRUE, FALSE, <<"reading">>, FALSE)}          \* a letter
           \cup
           IF comp[w]
           THEN {Key(TRUE, TRUE, FALSE, <<"reading", "open">>, FALSE),
                 Key(TRUE, TRUE, FALSE, <<"reading", "change">>, FALSE),
                 Key(TRUE, FALSE, FALSE, <<"reading">>, FALSE),    \* cancel
                 Key(TRUE, FALSE, TRUE, <<"finish">>, FALSE),      \* commit
                 Key(TRUE, TRUE, TRUE, <<"finish">>, FALSE)}       \* and go on
           ELSE {Key(TRUE, FALSE, TRUE, <<"result">>, FALSE)}      \* a space

\* The key that switches between romaji and kana input is done by SendKey.
RomajiKey(w) == Key(TRUE, comp[w], result[w], <<>>, FALSE)

Commits(k) == k.posts # <<>> /\ k.posts[1] \in {"finish", "result"}

\* The reply of SendKey, g being the context's flags after the flush.
Status(k, g) == CASE "CATCH_CHG_CAND" \in g -> "chgcand"
                  [] "CATCH_OPEN_CAND" \in g -> "opencand"
                  [] k.reconv -> "reconv"
                  [] k.done -> "success"
                  [] OTHER -> "no_proc"

HasTextIfComposing(k, g) == k.done /\ ~k.reconv /\ k.result /\ k.comp

\* The result string is in the reply unless nothing was finished and nothing
\* is being composed: then it is the result of an earlier key.
HasText(k, g) == /\ k.done /\ ~k.reconv /\ k.result
                 /\ "CATCH_FINISH" \in g \/ k.comp

\* What earlier messages left in the flags and SendKey clears.
CaughtNotOpen == {"CATCH_CHG_CAND", "CATCH_FINISH"}
Caught == {"CATCH_OPEN_CAND", "CATCH_CHG_CAND", "CATCH_FINISH"}

\* CATCH_OPEN_CAND is left for GetCandiList.
SettledBoth(f) == f \ {"CATCH_CHG_CAND", "CATCH_OPEN_CAND"}
Settled(f) == f \ {"CATCH_CHG_CAND"}

SendKey(n, k) ==
    LET w == win[n]
        own == (flags[n] \ Caught) \cup (IF k.done THEN {"SEND_KEY"} ELSE {})
        end == Flushed([flags EXCEPT ![n] = own], queue \o Post(w, k.posts))
        g == end.flags[n]
    IN  /\ Requested(n)
        /\ comp' = [comp EXCEPT ![w] = k.comp]
        /\ result' = [result EXCEPT ![w] = k.result]
        /\ flags' = [end.flags EXCEPT ![n] = Settled(@)]
        /\ announced' = end.announced
        /\ queue' = <<>>
        /\ reply' = [st |-> Status(k, g), text |-> HasText(k, g)]
        /\ fetching' = IF reply'.st = "opencand" THEN fetching \cup {n} ELSE fetching \ {n}
        /\ UNCHANGED <<vars, xwin, aux>>

\* FlushMsg, and the flush of every other request that runs the loop.
FlushMsg == LET end == Flushed(flags, queue)
            IN  /\ server = "up" /\ open # {} /\ aux = NoWin
                /\ flags' = end.flags
                /\ announced' = end.announced
                /\ queue' = <<>>
                /\ reply' = NoReply
                /\ UNCHANGED <<vars, xwin, imc, aux, fetching>>

\* GetCandiList: CATCH_OPEN_CAND goes, the IME converts again and again with
\* the messages flushed each time, until it opens its candidate window or the
\* candidates have come round.
GetCandiList(n) ==
    \E opens \in BOOLEAN :
        LET cleared == [flags EXCEPT ![n] = @ \ {"CATCH_OPEN_CAND"}]
            posts == IF opens THEN <<"reading", "open">> ELSE <<"reading">>
            end == Flushed(cleared, queue \o Post(win[n], posts))
        IN  /\ Requested(n)
            /\ comp[win[n]]
            /\ flags' = end.flags
            /\ announced' = end.announced
            /\ queue' = <<>>
            /\ fetching' = fetching \ {n}
            /\ reply' = NoReply
            /\ result' = [result EXCEPT ![win[n]] = FALSE]
            /\ UNCHANGED <<vars, xwin, comp, aux>>

\* EndConv, to commit or to cancel: ResetContext clears every flag.  What the
\* IME posts has been dispatched already or is left to the loop.
EndConv(n, commits) ==
    /\ Requested(n)
    /\ comp' = [comp EXCEPT ![win[n]] = FALSE]
    /\ result' = [result EXCEPT ![win[n]] = commits /\ comp[win[n]]]
    /\ flags' = [flags EXCEPT ![n] = {}]
    /\ \/ queue' = queue
       \/ /\ Len(queue) < MaxQueue /\ comp[win[n]]
          /\ queue' = queue \o Post(win[n], <<IF commits THEN "finish" ELSE "reading">>)
    /\ fetching' = fetching \ {n}
    /\ reply' = NoReply
    /\ UNCHANGED <<vars, xwin, aux, announced>>

\* RegXWin: the window that is told of aux input.
RegXWin(n) == /\ Requested(n)
              /\ xwin' = [xwin EXCEPT ![n] = TRUE]
              /\ reply' = NoReply
              /\ UNCHANGED <<vars, flags, imc, queue, aux, announced, fetching>>

\* The client reads the aux KeyPress event and asks for the result string.
GetResultStr(n) == /\ Requested(n)
                   /\ n \in announced
                   /\ announced' = announced \ {n}
                   /\ reply' = NoReply
                   /\ UNCHANGED <<vars, flags, xwin, imc, queue, aux, fetching>>

---------------------------------------------------------------------------
(* What happens outside requests.                                          *)

\* The user enters text from a palette, or a candidate window opens late.
Palette(w) == /\ server = "up" /\ w \in InUse
              /\ Len(queue) < MaxQueue
              /\ result' = [result EXCEPT ![w] = TRUE]
              /\ queue' = queue \o Post(w, <<"palette">>)
              /\ reply' = NoReply
              /\ UNCHANGED <<vars, flags, xwin, comp, aux, announced, fetching>>

LateOpen(w) == /\ server = "up" /\ w \in InUse /\ comp[w]
               /\ Len(queue) < MaxQueue
               /\ queue' = queue \o Post(w, <<"open">>)
               /\ reply' = NoReply
               /\ UNCHANGED <<vars, flags, xwin, imc, aux, announced, fetching>>

User(w) == w # NoWin /\ \E n \in Slots : win[n] = w

\* The window thread's own loop takes one message.  aux_input looks the
\* context up again, and recv_xim may have closed it since.
Dispatch ==
    /\ server = "up" /\ aux = NoWin /\ queue # <<>>
    /\ LET m == Head(queue)
           end == Flushed(flags, <<m>>)
       IN  \/ /\ \E n \in Slots : win[n] = m.win /\ IsAux(m, n, flags)
              /\ aux' = m.win
              /\ UNCHANGED <<flags, announced>>
           \/ /\ ~ \E n \in Slots : win[n] = m.win /\ IsAux(m, n, flags)
              /\ flags' = end.flags
              /\ announced' = end.announced
              /\ aux' = NoWin
    /\ queue' = Tail(queue)
    /\ reply' = NoReply
    /\ UNCHANGED <<vars, xwin, imc, fetching>>

AuxInput ==
    /\ aux # NoWin
    /\ \/ /\ User(aux)
          /\ announced' = announced \cup {n \in Slots : win[n] = aux /\ xwin[n]}
          /\ aux' = NoWin
          /\ reply' = NoReply
          /\ UNCHANGED <<vars, flags, xwin, imc, queue, fetching>>
       \/ /\ ~User(aux)
          /\ Stop("crashed")
          /\ Follow({})

KNext == \/ TableStep
         \/ \E n \in Slots : Live(n) /\ \E k \in Keys(win[n]) : SendKey(n, k)
         \/ \E n \in Slots : Live(n) /\ SendKey(n, RomajiKey(win[n]))
         \/ FlushMsg
         \/ \E n \in Slots : \/ GetCandiList(n)
                             \/ \E c \in BOOLEAN : EndConv(n, c)
                             \/ RegXWin(n)
                             \/ GetResultStr(n)
         \/ \E w \in Handles : Palette(w) \/ LateOpen(w)
         \/ Dispatch
         \/ AuxInput

KSpec == KInit /\ [][KNext]_allVars

---------------------------------------------------------------------------
FlagNames == {"SEND_KEY", "CATCH_OPEN_CAND", "CATCH_CHG_CAND", "CATCH_FINISH"}
Statuses == {"none", "chgcand", "opencand", "reconv", "success", "no_proc"}
Messages == [win : Handles,
             kind : {"reading", "finish", "open", "change"} \cup ResultAlone]

\* Types, and no message is left for a window that does not exist.
KTypeOK == /\ TypeOK
           /\ flags \in [Slots -> SUBSET FlagNames]
           /\ \A n \in Slots : flags[n] # {} => Live(n)
           /\ xwin \in [Slots -> BOOLEAN]
           /\ comp \in [Handles -> BOOLEAN]
           /\ result \in [Handles -> BOOLEAN]
           /\ Len(queue) <= MaxQueue
           /\ \A m \in Range(queue) : m \in Messages /\ m.win \in wins
           /\ aux \in wins \cup {NoWin}
           /\ announced \subseteq {n \in Slots : Live(n)}
           /\ fetching \subseteq {n \in Slots : Live(n)}
           /\ reply \in [st : Statuses, text : BOOLEAN]

\* A message of an earlier change of the composition, EndConv's or one of
\* the window's last user, is still to be dispatched.
LeftReading(n) == [win |-> win[n], kind |-> "reading"] \in Range(queue)

\* A text that a key commits reaches its client, whatever messages of palettes
\* and of earlier requests are dispatched before the key's own: it is in the
\* reply or, with a window registered, announced as aux input.  The exception
\* is a client without a window, as Qt's all are: a left reading message ends
\* the key (main.c:521), and the result that the key posts alone is taken for
\* a palette's.
KeyTextReaches ==
    [][reply'.st # "none" /\ ~reply'.text =>
          \A n \in Slots : Live(n) =>
             \A k \in Keys(win[n]) :
                Commits(k) /\ SendKey(n, k) =>
                   \/ n \in announced'
                   \/ ~xwin[n] /\ k.posts = <<"result">> /\ LeftReading(n)]_allVars

\* A reply that asks the client to fetch candidates is about a candidate
\* window whose message came with this key: one that was trapped before, and
\* is still in the flags, does not count (note [r14]).
CandidatesOfThisKey ==
    [][reply'.st = "opencand" =>
          \A n \in Slots : Live(n) =>
             \A k \in Keys(win[n]) :
                SendKey(n, k) => "open" \in Range(k.posts)
                                    \/ [win |-> win[n], kind |-> "open"] \in Range(queue)]_allVars

\* As long as the last thing a client was told is to fetch candidates, its
\* context remembers that the IME is at a later candidate, so that
\* GetCandiList goes back to the first one (note [r11]).
OpenIsRemembered == \A n \in fetching : "CATCH_OPEN_CAND" \in flags[n]

\* The text of a key reaches every client, with a window or without one.  (Not
\* so: see KeyTextReaches.)
KeyTextReachesAll ==
    [][reply'.st # "none" /\ ~reply'.text =>
          \A n \in Slots : Live(n) =>
             \A k \in Keys(win[n]) :
                Commits(k) /\ SendKey(n, k) => n \in announced']_allVars

\* Text entered from a palette is announced to the window registered for its
\* context ("result without reading: input from the palette tool", the
\* comment in main.c:506).
PaletteAnnounced ==
    [][\A n \in Slots :
          /\ Dispatch
          /\ Head(queue) = [win |-> win[n], kind |-> "palette"]
          => aux' = win[n]]_allVars
===========================================================================
