------------------------------ MODULE Clauses ------------------------------
(***************************************************************************)
(* The conversion state of one context: requests 0f to 18, 1a, 1d and 1f   *)
(* of exe/canna.c over the helpers of exe/apisup.c, with a client that     *)
(* keeps to the Canna protocol.                                            *)
(*                                                                         *)
(* Clauses are numbered from 0, the fixed ones first: those the IME has    *)
(* committed by itself during automatic conversion, which the server keeps *)
(* because they leave the IME's input context.  Readings are in half-width *)
(* kana, where a voiced kana is two characters, the second a Mark.         *)
(*                                                                         *)
(* The IME is external: it cuts a reading into clauses as it likes, though *)
(* never before a mark, converts, and lists candidates, in pages once its  *)
(* candidate window opens.  It may refuse a reading or a clause boundary,  *)
(* and does when the boundary would part a mark from its kana.             *)
(* Converted texts are left out; a candidate is its number.                *)
(***************************************************************************)
EXTENDS Integers, SequencesExt

CONSTANTS Chars,      \* the half-width characters
          Mark,       \* the voiced sound mark
          Inputs,     \* the readings that a request may carry
          Modes,      \* modes of BeginConv, each the list of its extra forms
          MaxLen,     \* bound on the characters of a context, fixed or not
          OpenAfter,  \* the candidate window opens after so many conversions
          PageSize    \* candidates on one page of the window

ASSUME ClausesAssumption == /\ Inputs \subseteq Seq(Chars)
                            /\ \A y \in Inputs : y # <<>> => Head(y) # Mark
                            /\ MaxLen \in Nat
                            /\ OpenAfter \in Nat /\ PageSize \in Nat \ {0}

VARIABLES phase,        \* what the client has begun, or "dead": the server
          comp,         \* clauses of the input context
          result,       \* readings of its result string
          fixedNum,     \* FixedNum
          fixedYomi,    \* FixedYomi, and with it FixedStr
          ferMode,      \* FerMode
          candInfo,     \* CandInfo
          bufStart,     \* YomiBufStart
          convertedCl,  \* ConvertedCl
          told,         \* clauses whose candidate lists the client holds
          request,      \* the last request; no action reads it
          answer        \* the number in its reply, or what EndConv has chosen

imc == <<comp, result>>
fixed == <<fixedNum, fixedYomi>>
buffer == <<bufStart, convertedCl>>
clauseVars == <<phase, imc, fixed, ferMode, candInfo, buffer, told, request, answer>>

Pages == 0 .. 3                                     \* CANDLISTMAX
NoPages == [p \in Pages |-> 0]
NoInfo == [seq |-> 0, size |-> NoPages]

CInit == /\ phase = "idle"
         /\ comp = <<>> /\ result = <<>>
         /\ fixedNum = 0 /\ fixedYomi = <<>> /\ ferMode = <<>>
         /\ candInfo = <<>>
         /\ bufStart = 0 /\ convertedCl = 0
         /\ told = {} /\ request = <<"Init">> /\ answer = 0

---------------------------------------------------------------------------
(* The IME.                                                                *)

Yomis(cls) == [i \in DOMAIN cls |-> cls[i].yomi]
Reading(cls) == FlattenSeq(Yomis(cls))

\* The start of clause i, from 0, in the reading; its end for i = Len(cls).
Start(cls, i) == Len(Reading(SubSeq(cls, 1, i)))

\* Where y may be cut into n clauses: the end of each, after the start.
Ends(y, n) == {at \in [0 .. n -> 0 .. Len(y)] :
                  /\ at[0] = 0 /\ at[n] = Len(y)
                  /\ \A i \in 1 .. n : at[i - 1] < at[i] /\ (i > 1 => y[at[i - 1] + 1] # Mark)}

\* The ways to cut y into clauses.
Cuts(y) == UNION {{[i \in 1 .. n |-> SubSeq(y, at[i - 1] + 1, at[i])] : at \in Ends(y, n)} : n \in 0 .. Len(y)}

Clause(y, at) == [yomi |-> y, at |-> at]
Converted(pieces) == [i \in DOMAIN pieces |-> Clause(pieces[i], "CONVERTED")]

\* Conversion of a whole reading: the first clause is selected.
Conversions(y) == IF y = <<>> THEN {<<>>}
                  ELSE {[Converted(p) EXCEPT ![1].at = "TARGET_CONVERTED"] : p \in Cuts(y)}

\* Typing in automatic mode: of the clauses the first may be committed, more
\* may be converted, and what follows is input.
Typed(y) ==
    {[result |-> SubSeq(t[1], 1, t[2]),
      comp |-> Converted(SubSeq(t[1], t[2] + 1, t[3]))
                 \o (IF t[3] = Len(t[1]) THEN <<>>
                     ELSE <<Clause(FlattenSeq(SubSeq(t[1], t[3] + 1, Len(t[1]))), "INPUT")>>)] :
        t \in {u \in Cuts(y) \X (0 .. 1) \X (0 .. Len(y)) : u[2] <= u[3] /\ u[3] <= Len(u[1])}}

IsConverted(c) == c.at \in {"CONVERTED", "TARGET_CONVERTED"}

\* How many candidates the IME has for a reading, and on each page.
NumCands(y) == Len(y) + 1
OnPage(n, p) == IF n <= p * PageSize THEN 0
                ELSE IF n < (p + 1) * PageSize THEN n - p * PageSize ELSE PageSize

---------------------------------------------------------------------------
(* exe/apisup.c                                                            *)

\* A text that may be NULL is a set of at most one.
ImcClauseStr(a, b) ==
    LET end == IF b < 0 THEN Len(comp) ELSE b
    IN  IF a < 0 \/ a > Len(comp) \/ end > Len(comp) \/ a = end THEN {}
        ELSE {Reading(SubSeq(comp, a + 1, end))}

FixedStr(a, b) == FlattenSeq(SubSeq(fixedYomi, a + 1, IF b < fixedNum THEN b ELSE fixedNum))

\* Fixed clauses, then those of the input context; with no end (b < 0) the
\* fixed ones are passed over.
ClauseStr(a, b) == IF b > 0 /\ b <= fixedNum THEN {FixedStr(a, b)}
                   ELSE {FixedStr(a, b) \o y : y \in ImcClauseStr(a - fixedNum, b - fixedNum)}

\* What ClauseStr has appended, even when it returns NULL.
Appended(a, b) == IF ClauseStr(a, b) = {} THEN FixedStr(a, b) ELSE CHOOSE y \in ClauseStr(a, b) : TRUE

\* U16CombineHan: are the characters at i and i + 1 one voiced kana?
Combine(y, i) == i \in 1 .. Len(y) - 1 /\ y[i + 1] = Mark /\ y[i] # Mark

\* combined_yomi_len: the length in full-width kana.
ZenLen(y) == Len(y) - Cardinality({i \in DOMAIN y : Combine(y, i)})
CombinedLen(s) == IF s = {} THEN 0 ELSE ZenLen(CHOOSE y \in s : TRUE)

Total == fixedNum + Len(comp)

\* GetAttrCl, for the selected clause, by the client's number; -1: none.
Target(cls) ==
    LET with(at) == {i \in DOMAIN cls : cls[i].at = at}
    IN  CASE with("TARGET_CONVERTED") # {} -> fixedNum + Min(with("TARGET_CONVERTED")) - 1
          [] with("TARGET_CONVERTED") = {} /\ with("TARGET_NOTCONVERTED") # {} ->
                fixedNum + Min(with("TARGET_NOTCONVERTED")) - 1
          [] OTHER -> -1

\* change_attr looks the client's numbers up in the input context's arrays:
\* with fixed clauses it may select another clause, or read past their end.
Overruns(cls, c) == /\ c >= fixedNum /\ Target(cls) \notin {-1, c}
                    /\ (Target(cls) >= Len(cls) \/ c >= Len(cls))

SetTarget(cls, c) ==
    [i \in DOMAIN cls |->
        IF Target(cls) \in {-1, c} \/ i - 1 \notin {c, Target(cls)} THEN cls[i]
        ELSE [cls[i] EXCEPT !.at = IF i - 1 = c
                                   THEN IF IsConverted(cls[i]) THEN "TARGET_CONVERTED" ELSE "TARGET_NOTCONVERTED"
                                   ELSE IF IsConverted(cls[i]) THEN "CONVERTED" ELSE "INPUT"]]
Selectable(cls, c) == c >= fixedNum /\ Target(cls) # -1

\* update_buf_start: GetAttr is asked by whole numbers, so clauses it calls
\* fixed are not counted, though the loop goes by the input context.  Only
\* SubstYomi reads the two, and only after AutoConv has cleared them: their
\* values in other conversions are left out.
BufStart(cls, fy) ==
    LET conved == Cardinality({k \in DOMAIN cls : k + Len(fy) <= Len(cls) /\ IsConverted(cls[k])})
        fromFixed == IF conved \in 1 .. Len(fy) THEN ZenLen(FlattenSeq(SubSeq(fy, 1, conved))) ELSE 0
    IN  IF phase # "auto" THEN UNCHANGED buffer
        ELSE /\ convertedCl' = conved
             /\ bufStart' = IF conved = convertedCl THEN bufStart
                            ELSE IF fy # <<>> THEN fromFixed
                            ELSE ZenLen(Reading(SubSeq(cls, 1, conved)))

\* SaveFixedClause and current_cand_list, as wm_ime_composition calls them.
\* The fixed clauses are counted at first and once more by the list.
Reply(cls, res, clstart) ==
    LET fnum == fixedNum + Len(res)
        listed(i) == i < fnum \/ (i < fnum + Len(cls) /\ IsConverted(cls[i - fnum + 1]))
        end == Min({i \in clstart .. fnum + Len(cls) : ~listed(i)})
        st == fnum + end - clstart
    IN  /\ comp' = cls /\ result' = res
        /\ fixedYomi' = fixedYomi \o res /\ fixedNum' = fnum
        /\ answer' = IF st > 0 THEN st + clstart ELSE 0

\* The bound on what a context holds.
Bounded(res, cls) == Len(FlattenSeq(fixedYomi \o res)) + Len(Reading(cls)) <= MaxLen

\* A client asks for clauses once everything has been converted.
Settled == phase \in {"conv", "auto"} /\ \A i \in DOMAIN comp : IsConverted(comp[i])

\* A bound on the variety of readings: in automatic mode there are no marks.
Typable(y) == phase = "auto" => \A i \in DOMAIN y : y[i] # Mark

Fail == answer' = -1
Die == phase' = "dead" /\ UNCHANGED <<imc, fixed, ferMode, candInfo, buffer, told, answer>>

---------------------------------------------------------------------------
(* Candidates.                                                             *)

\* append_fer_cand counts every form, fer_mode_num all but 0x0f.
FerModeNum == Len(SelectSeq(ferMode, LAMBDA f : f # "ctrl"))

\* ArAlloc(CandInfo, n): n cells in use, those added constructed anew.
Alloc(n) == [i \in 1 .. n |-> IF i <= Len(candInfo) THEN candInfo[i] ELSE NoInfo]

\* make_cand_list: convert until the first candidate is back, or, when the
\* window has opened, by its pages (lookup_cand_win).
Listed(cell, n) ==
    IF n <= OpenAfter THEN [cell EXCEPT !.seq = n]
    ELSE [cell EXCEPT !.size = [p \in Pages |-> IF OnPage(n, p) > 0 THEN OnPage(n, p) ELSE cell.size[p]]]

\* The IME's candidates for clause c, and those that the client is given: of
\* a window that has opened, four pages.
AllCands(c) == NumCands(comp[c - fixedNum + 1].yomi)
CandsOf(c) == IF AllCands(c) <= OpenAfter THEN AllCands(c) ELSE Min({AllCands(c), 4 * PageSize})

\* 11 GetCandiList.
GetCandiList(c) ==
    /\ Settled /\ c < Total
    /\ request' = <<"GetCandiList", c>>
    /\ IF Overruns(comp, c) THEN Die
       ELSE /\ IF Selectable(comp, c)
               THEN /\ comp' = SetTarget(comp, c)
                    /\ candInfo' = [Alloc(Max({Len(candInfo), c + 1})) EXCEPT ![c + 1] = Listed(NoInfo, AllCands(c))]
                    /\ told' = told \cup {c}
                    /\ answer' = CandsOf(c) + Len(ferMode)
               ELSE Fail /\ UNCHANGED <<comp, candInfo, told>>
            /\ UNCHANGED <<phase, result, fixed, ferMode, buffer>>

SizeSum(cell) == cell.size[0] + cell.size[1] + cell.size[2] + cell.size[3]

\* 1d GetStatus: the answer is maxcand.  A clause without information is
\* listed, in a table cut to end with it.
GetStatus(c) ==
    /\ Settled /\ c < Total
    /\ request' = <<"GetStatus", c>>
    /\ LET known == c < Len(candInfo) /\ (candInfo[c + 1].seq # 0 \/ candInfo[c + 1].size[0] # 0)
           cell == Listed(Alloc(c + 1)[c + 1], AllCands(c))
       IN  IF ~known /\ Overruns(comp, c) THEN Die
           ELSE /\ \/ /\ ~known /\ Selectable(comp, c)
                      /\ comp' = SetTarget(comp, c)
                      /\ candInfo' = [Alloc(c + 1) EXCEPT ![c + 1] = cell]
                      /\ answer' = CandsOf(c) + SizeSum(cell) + FerModeNum
                   \/ /\ ~known /\ ~Selectable(comp, c)
                      /\ candInfo' = Alloc(c + 1)
                      /\ Fail /\ UNCHANGED comp
                   \/ /\ known
                      /\ answer' = candInfo[c + 1].seq + SizeSum(candInfo[c + 1]) + FerModeNum
                      /\ UNCHANGED <<comp, candInfo>>
                /\ UNCHANGED <<phase, result, fixed, ferMode, buffer, told>>

\* As Chosen, but the number is looked for on the first page only.
ChosenOnFirst(c, n) ==
    IF n <= 0 \/ c >= Len(candInfo) THEN 0
    ELSE IF candInfo[c + 1].seq > 0 THEN n % AllCands(c)
    ELSE IF n < candInfo[c + 1].size[0] THEN n ELSE 0

\* page_index and update_cand: which candidate is chosen for number n.
Chosen(c, n) ==
    LET cell == candInfo[c + 1]
        before(p) == IF p = 0 THEN 0 ELSE IF p = 1 THEN cell.size[0]
                     ELSE IF p = 2 THEN cell.size[0] + cell.size[1] ELSE SizeSum(cell) - cell.size[3]
        page == {p \in Pages : /\ \A q \in 0 .. p : cell.size[q] # 0
                               /\ n >= before(p) /\ n < before(p) + cell.size[p]}
    IN  IF n <= 0 \/ c >= Len(candInfo) THEN 0
        ELSE IF cell.seq > 0 THEN n % AllCands(c)
        ELSE IF page = {} THEN 0 ELSE n

\* ResetContext, after the context is closed to input.
Reset == /\ phase' = "idle"
         /\ comp' = <<>> /\ result' = <<>>
         /\ fixedNum' = 0 /\ fixedYomi' = <<>> /\ ferMode' = <<>>
         /\ candInfo' = <<>> /\ told' = {}
         /\ bufStart' = 0 /\ convertedCl' = 0

\* 10 EndConv with learning.  The client has kept the first candidate of
\* every clause but one, of which it names the n-th of its list.  Numbers
\* are read from the first clause that is not fixed, with update_cand as
\* likely to read past the attributes as GetCandiList is.
EndConv(c, n) ==
    /\ phase \in {"conv", "auto"} /\ c \in told /\ c - fixedNum + 1 \in DOMAIN comp
    /\ n < CandsOf(c) + Len(ferMode)
    /\ request' = <<"EndConv", c, n>>
    /\ \/ /\ answer' = IF fixedNum = 0 THEN Chosen(c, n) ELSE 0
          /\ Reset
       \/ /\ fixedNum > 0 /\ n > 0 /\ Die

\* 10 EndConv with every clause as it is, or, in another mode, cancelled.
EndPlain == /\ phase \in {"conv", "auto"}
            /\ request' = <<"EndPlain">> /\ answer' = 0
            /\ Reset

---------------------------------------------------------------------------
(* Conversion.                                                             *)

ConvVars == <<fixed, ferMode, candInfo, buffer>>

\* 0f BeginConv: what there was is cancelled, and the reading set and
\* converted, unless the IME refuses one or the other.
BeginConv(y, m) ==
    /\ phase = "idle" /\ y # <<>> /\ Len(y) <= MaxLen
    /\ request' = <<"BeginConv">> /\ told' = {}
    /\ UNCHANGED <<candInfo, buffer>>
    /\ \/ /\ phase' = "conv" /\ ferMode' = m
          /\ \E cls \in Conversions(y) : Reply(cls, <<>>, 0)
       \/ /\ Fail
          /\ comp' \in {<<>>, <<Clause(y, "INPUT")>>} /\ result' = <<>>
          /\ UNCHANGED <<phase, fixed, ferMode>>

\* As NewLength, but the difference is taken for the length.
NewLengthDiff(cls, i, diff) == IF diff < 0 THEN Len(cls[i + 1].yomi) + diff ELSE diff

\* resize_clause, on clause i of the input context from 0: the compositions
\* it may lead to.  The IME cuts anew what follows, and needs the clause
\* selected.  A cut is moved so as not to part a mark from its kana: by
\* the two characters before it when shrinking, and when extending by the two
\* after it.
NewLength(cls, i, diff) ==
    LET len == Len(cls[i + 1].yomi) + diff
        text == Reading(SubSeq(cls, i + 1, Min({i + 2, Len(cls)})))
    IN  IF diff < 0 THEN IF len >= 2 /\ Combine(text, len) THEN len - 1 ELSE len
        ELSE IF Combine(text, len + 1) THEN len + 1 ELSE len

StaysAsIs(cls, i, diff) == Len(cls[i + 1].yomi) + diff <= 0 \/ (diff > 0 /\ i = Len(cls) - 1)

Recuts(cls, i, diff) ==
    LET rest == Reading(SubSeq(cls, i + 1, Len(cls)))
        len == NewLength(cls, i, diff)
    IN  IF StaysAsIs(cls, i, diff) THEN {cls}
        ELSE {Converted(Yomis(SubSeq(cls, 1, i)))
                \o <<Clause(SubSeq(rest, 1, len), "TARGET_CONVERTED")>>
                \o Converted(p) : p \in IF len = Len(rest) THEN {<<>>}
                                        ELSE IF len > Len(rest) \/ rest[len + 1] = Mark THEN {}
                                        ELSE Cuts(SubSeq(rest, len + 1, Len(rest)))}

\* ... and the candidate information it clears.
Cleared(info, c) == [i \in DOMAIN info |-> IF i \in {c + 1, c + 2} THEN NoInfo ELSE info[i]]

\* As AdjustOne, but clauses stay as the IME has cut them.
AdjustNothing(s, i, old) == {s}

\* adj_clause(0, end): give the clauses, in turn, the starts of old, until
\* the IME refuses one.
Selected(cls, i) == [Converted(Yomis(cls)) EXCEPT ![i + 1].at = "TARGET_CONVERTED"]
AdjustOne(s, i, old) ==
    IF ~s.ok \/ i = 0 \/ Start(s.cls, i) = old[i + 1] THEN {s}
    ELSE LET diff == old[i + 1] - Start(s.cls, i)
             new == Recuts(s.cls, i - 1, diff)
         IN  IF new = {} THEN {[cls |-> Selected(s.cls, i - 1), ok |-> FALSE, info |-> s.info]}
             ELSE {[cls |-> c, ok |-> TRUE,
                    info |-> IF StaysAsIs(s.cls, i - 1, diff) THEN s.info ELSE Cleared(s.info, i - 1)] : c \in new}
Adjust(cls, end, old) ==
    LET after[n \in 0 .. end] ==
            IF n = 0 THEN {[cls |-> cls, ok |-> TRUE, info |-> candInfo]}
            ELSE UNION {AdjustOne(s, n - 1, old) : s \in after[n - 1]}
    IN  after[end]

\* As StoredReading, but the rest is taken from clause c on.
StoredReadingTwice(c, y) == (IF c > 0 THEN Appended(0, c) ELSE <<>>) \o y \o Appended(c, -1)

\* store_yomi: the reading with clause c replaced by y.
StoredReading(c, y) == (IF c > 0 THEN Appended(0, c) ELSE <<>>) \o y \o Appended(c + 1, -1)

Starts(cls) == [i \in 1 .. Len(cls) + 1 |-> Start(cls, i - 1)]

\* The IME refuses a reading; none is left.
Refused == comp' = <<>> /\ result' = <<>> /\ Fail /\ UNCHANGED <<fixed, candInfo>>

\* 14 StoreYomi: clause c is given another reading, or (y empty) removed,
\* and the starts of those before it restored.  Fixed clauses have no start
\* in the arrays that adj_clause reads.
StoreYomi(c, y) ==
    /\ Settled /\ c < Total /\ Typable(y) /\ Bounded(<<>>, <<Clause(StoredReading(c, y), "INPUT")>>)
    /\ request' = <<"StoreYomi", c, y>> /\ told' = {}
    /\ UNCHANGED ferMode
    /\ IF Len(comp) = 1 /\ y = <<>>
       THEN /\ Reply(<<>>, <<>>, 0) /\ BufStart(<<>>, fixedYomi)
            /\ UNCHANGED <<phase, candInfo>>
       ELSE \/ /\ Refused /\ BufStart(<<>>, fixedYomi)
               /\ UNCHANGED phase
            \/ /\ fixedNum > 0 /\ c > 0
               /\ phase' = "dead"
               /\ UNCHANGED <<imc, fixed, candInfo, buffer, answer>>
            \/ /\ fixedNum = 0 \/ c = 0
               /\ \E cls \in Conversions(StoredReading(c, y)) : \E s \in Adjust(cls, c, Starts(comp)) :
                    /\ IF s.ok THEN Reply(s.cls, <<>>, 0)
                       ELSE comp' = s.cls /\ result' = <<>> /\ Fail /\ UNCHANGED fixed
                    /\ BufStart(s.cls, fixedYomi)
                    /\ candInfo' = s.info
               /\ UNCHANGED phase

\* 15 StoreRange: the same, but y stays one clause, and all the others keep
\* their lengths.  The answer is the length of y, no clause is saved.
StoreRange(c, y) ==
    /\ phase = "conv" /\ c < Total /\ y # <<>> /\ Len(StoredReading(c, y)) <= MaxLen
    /\ request' = <<"StoreRange", c, y>> /\ told' = {}
    /\ UNCHANGED <<phase, fixed, ferMode>>
    /\ LET diff == Len(y) - Len(comp[c + 1].yomi)
           old == [i \in 1 .. Len(comp) + 1 |-> Start(comp, i - 1) + (IF i > c + 1 THEN diff ELSE 0)]
       IN  \/ Refused /\ BufStart(<<>>, fixedYomi)
           \/ \E cls \in Conversions(StoredReading(c, y)) : \E s \in Adjust(cls, Len(comp) + 1, old) :
                /\ comp' = s.cls /\ result' = <<>>
                /\ candInfo' = s.info
                /\ answer' = (IF s.ok THEN ZenLen(y) ELSE -1) /\ BufStart(s.cls, fixedYomi)

\* 1a ResizePause: -2 shortens the clause by one, -1 lengthens it, a positive
\* size is its new length in full-width kana.
ResizePause(c, size) ==
    LET diff == CASE size = -1 -> 1
                  [] size = -2 -> -1
                  [] size = 0 -> 0
                  [] OTHER -> size - CombinedLen(ClauseStr(c, c + 1))
        i == c - fixedNum
        cls == SetTarget(comp, c)
    IN  /\ Settled /\ c < Total /\ Bounded(result, comp)
        /\ request' = <<"ResizePause", c, size>> /\ told' = {k \in told : k < c}
        /\ UNCHANGED <<ferMode, buffer>>
        /\ \/ /\ c < fixedNum
              /\ Fail /\ UNCHANGED <<phase, imc, fixed, candInfo>>
           \/ /\ c >= fixedNum /\ diff = 0
              /\ Reply(comp, result, c)
              /\ UNCHANGED <<phase, candInfo>>
           \/ /\ c >= fixedNum /\ diff # 0 /\ Overruns(comp, c)
              /\ phase' = "dead"
              /\ UNCHANGED <<imc, fixed, candInfo, answer>>
           \/ /\ c >= fixedNum /\ diff # 0 /\ ~Overruns(comp, c)
              /\ \/ /\ ~StaysAsIs(cls, i, diff)
                    /\ comp' = cls /\ Fail /\ UNCHANGED <<result, fixed, candInfo>>
                 \/ \E new \in IF Target(cls) = c \/ StaysAsIs(cls, i, diff) THEN Recuts(cls, i, diff) ELSE {} :
                       /\ Reply(new, IF StaysAsIs(cls, i, diff) THEN result ELSE <<>>, c)
                       /\ candInfo' = IF StaysAsIs(cls, i, diff) THEN candInfo ELSE Cleared(candInfo, c)
              /\ UNCHANGED phase

---------------------------------------------------------------------------
(* Automatic conversion.                                                   *)

\* 1f AutoConv.
AutoConv(m) ==
    /\ phase = "idle" /\ phase' = "auto"
    /\ comp' = <<>> /\ result' = <<>>
    /\ ferMode' = m
    /\ bufStart' = 0 /\ convertedCl' = 0
    /\ request' = <<"AutoConv">> /\ answer' = 0
    /\ UNCHANGED <<fixed, candInfo, told>>

\* As Edited, but what comes after the edit is not typed again.
EditedCut(b, e, y) == SubSeq(Reading(comp), 1, IF b < Len(Reading(comp)) THEN b ELSE Len(Reading(comp))) \o y

\* The reading after characters b to e of the server's have been replaced.
\* The end (b past it) is typed at; with e = 0 everything is typed anew, and
\* otherwise what comes after b is deleted and typed again.
Edited(b, e, y) ==
    LET cur == IF ClauseStr(0, -1) = {} THEN <<>> ELSE CHOOSE r \in ClauseStr(0, -1) : TRUE
    IN  IF b >= Len(cur) THEN Reading(comp) \o y
        ELSE IF e = 0 THEN y
        ELSE SubSeq(cur, 1, b) \o y \o SubSeq(cur, e + 1, Len(cur))

\* What the client has in its buffer: the reading not converted yet.
Unconverted == FlattenSeq([i \in DOMAIN comp |-> IF IsConverted(comp[i]) THEN <<>> ELSE comp[i].yomi])

\* 13 SubstYomi: the client edits its buffer.  With nothing to add at the end
\* the answer, 0, has it ask for FlushYomi.
SubstYomi(b, e, y) ==
    LET force == bufStart + b >= CombinedLen(ClauseStr(0, -1)) /\ y = <<>>
        new == Edited(bufStart + b, bufStart + e, y)
    IN  /\ phase = "auto" /\ b <= e /\ e <= Len(Unconverted)
        /\ Typable(y)
        /\ Bounded(<<>>, <<Clause(new, "INPUT")>>)
        /\ request' = <<"SubstYomi", b, e, y>> /\ told' = {}
        /\ UNCHANGED <<phase, ferMode, candInfo>>
        /\ IF force
           THEN /\ answer' = 0 /\ BufStart(comp, fixedYomi)
                /\ UNCHANGED <<imc, fixed>>
           ELSE \E t \in Typed(new) : /\ Reply(t.comp, t.result, 0)
                                       /\ BufStart(t.comp, fixedYomi \o t.result)

\* 17 FlushYomi: convert what is not; what is already, is listed once more,
\* with the result string of the conversion before.
FlushYomi(m) ==
    /\ phase = "auto"
    /\ request' = <<"FlushYomi">> /\ ferMode' = m /\ told' = {}
    /\ UNCHANGED <<phase, candInfo>>
    /\ IF Unconverted # <<>>
       THEN \/ /\ \E cls \in Conversions(Reading(comp)) : Reply(cls, <<>>, 0) /\ BufStart(cls, fixedYomi)
            \/ Fail /\ UNCHANGED <<imc, fixed, buffer>>
       ELSE /\ Bounded(result, comp)
            /\ Reply(comp, result, 0) /\ UNCHANGED buffer

\* 18 RemoveYomi, of clauses 0 to c.  The candidates it chooses first are
\* lost when the rest is converted again.  The fixed ones are taken off c, and
\* ClauseStr takes them off again.
RemoveYomi(c) ==
    LET own == c - fixedNum
        rest == Appended(own + 1, -1)
    IN  /\ phase \in {"conv", "auto"} /\ c < Total
        /\ request' = <<"RemoveYomi", c>> /\ told' = {}
        /\ UNCHANGED <<phase, ferMode>>
        /\ IF c < fixedNum - 1
           THEN /\ fixedYomi' = SubSeq(fixedYomi, c + 2, fixedNum)
                /\ fixedNum' = fixedNum - (c + 1)
                /\ candInfo' = IF c < Len(candInfo) THEN SubSeq(candInfo, c + 2, Len(candInfo)) ELSE candInfo
                /\ answer' = fixedNum' + (IF comp = <<>> THEN -1 ELSE Len(comp))
                /\ BufStart(comp, fixedYomi')
                /\ UNCHANGED imc
           ELSE \E cls \in Conversions(rest) :
                /\ comp' = cls /\ result' = <<>>
                /\ fixedYomi' = <<>> /\ fixedNum' = 0
                /\ candInfo' = IF own + 1 <= Len(candInfo) THEN SubSeq(candInfo, own + 2, Len(candInfo)) ELSE candInfo
                /\ answer' = IF cls = <<>> THEN -1 ELSE Len(cls)
                /\ BufStart(cls, <<>>)

---------------------------------------------------------------------------
(* Readings asked for.                                                     *)

\* 12 GetYomi, with a buffer large enough: the length of clause c.
GetYomi(c) == /\ phase \in {"conv", "auto"} /\ c < Total
              /\ request' = <<"GetYomi", c>>
              /\ answer' = IF ClauseStr(c, c + 1) = {} THEN -1 ELSE CombinedLen(ClauseStr(c, c + 1))
              /\ UNCHANGED <<phase, imc, fixed, ferMode, candInfo, buffer, told>>

\* 16 GetLastYomi: the length of the first clause that is input.
GetLastYomi ==
    /\ phase = "auto"
    /\ request' = <<"GetLastYomi">>
    /\ LET input == {i \in DOMAIN comp : comp[i].at = "INPUT"}
           c == fixedNum + Min(input) - 1
       IN  answer' = IF input = {} THEN 0 ELSE CombinedLen(ClauseStr(c, c + 1))
    /\ UNCHANGED <<phase, imc, fixed, ferMode, candInfo, buffer, told>>

\* The server has died and is started anew.
Restart == /\ phase = "dead" /\ phase' = "idle"
           /\ comp' = <<>> /\ result' = <<>> /\ fixedNum' = 0 /\ fixedYomi' = <<>>
           /\ ferMode' = <<>> /\ candInfo' = <<>> /\ bufStart' = 0 /\ convertedCl' = 0
           /\ told' = {} /\ request' = <<"Restart">> /\ answer' = 0

Clausenums == 0 .. MaxLen
Sizes == -2 .. MaxLen

CNext == \/ \E y \in Inputs, m \in Modes : BeginConv(y, m)
         \/ \E m \in Modes : AutoConv(m) \/ FlushYomi(m)
         \/ \E c \in Clausenums : \/ GetCandiList(c) \/ GetStatus(c) \/ GetYomi(c) \/ RemoveYomi(c)
                                  \/ \E n \in Clausenums : EndConv(c, n)
                                  \/ \E y \in Inputs : StoreYomi(c, y) \/ StoreRange(c, y)
                                  \/ \E size \in Sizes : ResizePause(c, size)
         \/ \E b, e \in Clausenums, y \in Inputs : SubstYomi(b, e, y)
         \/ EndPlain \/ GetLastYomi \/ Restart

CSpec == CInit /\ [][CNext]_clauseVars

---------------------------------------------------------------------------
(* Properties.                                                             *)

\* The variables keep their types, the fixed clauses their count, and until
\* there are any at most one clause is selected (apisup.c:718-784, 862).
CTypeOK ==
    /\ phase \in {"idle", "conv", "auto", "dead"}
    /\ \A i \in DOMAIN comp : comp[i].yomi # <<>> /\ comp[i].at \in {"INPUT", "CONVERTED", "TARGET_CONVERTED", "TARGET_NOTCONVERTED"}
    /\ fixedNum = Len(fixedYomi)
    /\ fixedNum = 0 => Cardinality({i \in DOMAIN comp : comp[i].at = "TARGET_CONVERTED"}) <= 1
    /\ Len(candInfo) <= MaxLen
    /\ \A i \in DOMAIN candInfo : candInfo[i].seq \in 0 .. OpenAfter
    /\ bufStart \in 0 .. MaxLen /\ convertedCl \in 0 .. MaxLen
    /\ told \subseteq Clausenums

Before(c) == Reading(SubSeq(comp, 1, c))
After(c) == Reading(SubSeq(comp, c + 2, Len(comp)))
Asked(op) == request'[1] = op /\ phase' # "dead"

\* Until the IME has fixed a clause, StoreYomi changes the reading of one
\* clause and RemoveYomi takes off the ones asked for, and no more, whatever
\* clauses the IME makes of the rest (store_yomi, canna.c:1247-1269 and
\* RemoveYomi, canna.c:1599-1607).
EditsOneClause ==
    [][fixedNum = 0 =>
        /\ Asked("StoreYomi") /\ answer' # -1 =>
              Reading(comp') = Before(request'[2]) \o request'[3] \o After(request'[2])
        /\ Asked("RemoveYomi") => Reading(comp') = After(request'[2])]_clauseVars

\* RemoveYomi keeps what comes after the clause it is asked to remove up to
\* (canna.c:1599, "only what is behind cl"), fixed clauses or not.
RemoveKeepsRest ==
    [][Asked("RemoveYomi") =>
        FlattenSeq(fixedYomi') \o Reading(comp') =
            FlattenSeq(SubSeq(fixedYomi \o Yomis(comp), request'[2] + 2, Total))]_clauseVars

\* A clause whose reading is stored leaves those before it as they were cut,
\* but for the last of them, whose end adj_clause does not restore
\* (canna.c:1334-1356), unless the IME refuses a boundary.
LeftKept ==
    [][Asked("StoreYomi") /\ answer' # -1 /\ fixedNum = 0 =>
        SubSeq(Yomis(comp'), 1, request'[2] - 1) = SubSeq(Yomis(comp), 1, request'[2] - 1)]_clauseVars

\* StoreRange leaves every other clause as it was cut, and makes the new
\* reading one (canna.c:1455-1467).
OthersKept ==
    [][Asked("StoreRange") /\ answer' # -1 =>
        Yomis(comp') = [Yomis(comp) EXCEPT ![request'[2] + 1] = request'[3]]]_clauseVars

\* EndConv commits the candidate that the client names from the list it holds,
\* unless the information on the clause is gone (page_index and update_cand,
\* canna.c:610-679).
PicksListed ==
    [][Asked("EndConv") /\ fixedNum = 0 =>
        LET c == request'[2]
        IN  c < Len(candInfo) /\ candInfo[c + 1] # NoInfo /\ request'[3] < CandsOf(c) => answer' = request'[3]]_clauseVars

\* ... and so it does whenever the client holds the list (canna.c:690: the
\* current candidate number of each clause).
PicksCommitted ==
    [][Asked("EndConv") /\ fixedNum = 0 /\ request'[3] < CandsOf(request'[2]) => answer' = request'[3]]_clauseVars

\* Where the server takes the client's buffer to start where it does, an edit
\* of it changes nothing that is converted already, and the buffer as the
\* client asked (SubstYomi, canna.c:1176-1215).
ConvertedReading == FlattenSeq([i \in DOMAIN comp |-> IF IsConverted(comp[i]) THEN comp[i].yomi ELSE <<>>])
SubstEdits ==
    [][Asked("SubstYomi") /\ fixedNum = 0 /\ comp' # comp /\ bufStart = Len(ConvertedReading) /\ bufStart + request'[3] > 0 =>
        FlattenSeq(result') \o Reading(comp') =
            ConvertedReading \o SubSeq(Unconverted, 1, request'[2]) \o request'[4]
                \o SubSeq(Unconverted, request'[3] + 1, Len(Unconverted))]_clauseVars

\* The server takes the client's buffer to start after what is converted
\* (canna.c:1125-1127).
BufferAligned == phase = "auto" /\ fixedNum = 0 => bufStart = Len(ConvertedReading)

\* request and answer are left out of a state's identity: no guard reads them.
ClauseView == <<phase, imc, fixed, ferMode, candInfo, buffer, told>>

=============================================================================
