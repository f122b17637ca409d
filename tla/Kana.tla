-------------------------------- MODULE Kana --------------------------------
(***************************************************************************)
(* The conversions of lib/ut.c between half-width kana, in which the IME   *)
(* gives a reading, and the full-width kana a client sees.  A voiced kana  *)
(* is one full-width character but two half-width ones, the kana and a     *)
(* mark, so every length and every position of a reading exists twice;     *)
(* clauses are resized, cut and compared in both.  To a client that has    *)
(* not asked for UTF-16 the full-width kana goes in EUC-JP.                *)
(*                                                                         *)
(* A half-width character is a name: what its place in the tables of       *)
(* U16CombineHan and U16HanToZen depends on is the class it belongs to.  A *)
(* full-width one is the half-width one it comes from, with its script and *)
(* the mark it has taken in.                                               *)
(***************************************************************************)
EXTENDS Integers, SequencesExt

CONSTANTS Ascii,       \* printable half-width characters below 0x7f
          Control,     \* the others below 0x80
          Plain,       \* kana that take no mark
          Voiced,      \* kana that take the voiced mark in both scripts
          Both,        \* those of them that take the semi-voiced mark too
          KataVoiced,  \* wo and wa: voiced only as katakana
          Shared,      \* punctuation and the long vowel: one form, no script
          VoicedU,     \* u: its voiced hiragana is not in EUC-JP-MS
          MayCombine,  \* kana and script: what EUC-JISX0213 knows with a mark of its own
          X0213,       \* whether iconv has EUC-JISX0213 (glibc has)
          MaxText       \* bound on the length of a string

Nul == "nul"
Dakuten == "dakuten"        \* U16HAN_VOICEDSOUNDMARK
Handakuten == "handakuten"  \* U16HAN_SEMIVOICEDSOUNDMARK
Error == "replacement"      \* 0xfffd

Kanas == Plain \cup Voiced \cup KataVoiced
Han == Ascii \cup Control \cup Kanas \cup Shared \cup {Dakuten, Handakuten}
Scripts == {"hira", "kata"}
\* The tables give a character one class for its marks, and 0 ends a string.
ASSUME ClassesNest == Both \subseteq Voiced /\ Voiced \cap KataVoiced = {}
ASSUME NulEnds == Nul \notin Han
ASSUME KanaCombine == MayCombine \subseteq Kanas \X Scripts /\ X0213 \in BOOLEAN

Zen == [from : Han, mark : {Nul, Dakuten, Handakuten}, script : Scripts \cup {"any"}]

VARIABLE src   \* the string that is converted

At(s, i) == IF i \in 1 .. Len(s) THEN s[i] ELSE Nul

\* hira_table and kata_table.
TakesDakuten(c, script) == c \in Voiced \/ (c \in KataVoiced /\ script = "kata")

\* 1 or 2 when the character after the i-th is a mark that it takes, 0 when
\* it stands alone, -1 when it is no half-width character.
U16CombineHan(s, i, script) ==
    CASE At(s, i) \notin Han -> -1
      [] TakesDakuten(At(s, i), script) /\ At(s, i + 1) = Dakuten -> 1
      [] At(s, i) \in Both /\ At(s, i + 1) = Handakuten -> 2
      [] OTHER -> 0

Wide(c, script, mark) == [from |-> c, mark |-> mark,
                          script |-> IF c \in Kanas THEN script ELSE "any"]

\* How far src moves: past the mark that has been combined.
Used(combined) == IF combined > 0 THEN 2 ELSE 1

\* As Combination, but always with the table of katakana.
CombinationKata(s, i, script) == U16CombineHan(s, i, "kata")

\* What U16HanToZen asks at each turn.
Combination(s, i, script) == U16CombineHan(s, i, script)

MarkOf(combined) == CASE combined = 1 -> Dakuten [] combined = 2 -> Handakuten [] OTHER -> Nul

\* The loop of U16HanToZen with srclen < 0: its result from the i-th character.
HanToZenFrom(s, script) ==
    LET from[i \in Nat] ==
            IF At(s, i) = Nul THEN <<>>
            ELSE LET combined == Combination(s, i, script)
                 IN  <<Wide(s[i], script, MarkOf(combined))>> \o from[i + Used(combined)]
    IN  from

U16HanToZen(s, script) == HanToZenFrom(s, script)[1]

\* One turn of U16ZenToHan.  It knows the kana from small a to vu in either
\* script, the shared characters and 0xff01 to 0xff5e; the voiced wa and wo
\* of katakana and what has become of a control character are beyond those.
FromWide(z) == CASE z.from \in Control -> <<Error>>
                 [] z.from \in KataVoiced /\ z.mark # Nul -> <<Error>>
                 [] z.mark # Nul -> <<z.from, z.mark>>
                 [] OTHER -> <<z.from>>

U16ZenToHan(z) == FlattenSeq([i \in DOMAIN z |-> FromWide(z[i])])

-----------------------------------------------------------------------------
(* The way to a client.  One that has not asked for UTF-16 gets EUC-JP, by *)
(* the two converters of conv: what EUC-JP-MS lacks, and with it the rest  *)
(* of the string, goes through EUC-JISX0213, and what neither has becomes  *)
(* a box, which is no kana on its way back.  The second converter waits    *)
(* for the character after a kana that may combine, and says nothing of it *)
(* when the string ends there; so every string goes with its end.          *)

End == [from |-> Nul, mark |-> Nul, script |-> "any"]
Tofu == [from |-> Error, mark |-> Nul, script |-> "any"]

NotInMs(z) == /\ z.mark = Dakuten
              /\ z.from \in KataVoiced \/ (z.from \in VoicedU /\ z.script = "hira")
Missing(z) == NotInMs(z) /\ ~X0213

\* The last character is still with the second converter.
Waits(w) == /\ <<Last(w).from, Last(w).script>> \in MayCombine
            /\ Last(w).mark = Nul
            /\ X0213 /\ \E i \in DOMAIN w : NotInMs(w[i])

U16ToWej(w) == LET ej == [i \in DOMAIN w |-> IF Missing(w[i]) THEN Tofu ELSE w[i]]
               IN  IF w # <<>> /\ Waits(w) THEN Front(ej) ELSE ej

\* As WithEnd, but for the characters of the string alone.
WithEndForgotten(z) == z

\* ClauseStr ends every string it makes.
WithEnd(z) == Append(z, End)

\* For a big-endian client the bytes are swapped, both ways.
FromU16ToClient(z, utf16) == IF utf16 THEN WithEnd(z) ELSE U16ToWej(WithEnd(z))

\* The string of a request, up to its end: the converters read what either wrote.
FromClientToU16(w) == IF w # <<>> /\ Last(w) = End THEN Front(w) ELSE w

-----------------------------------------------------------------------------
(* A string is typed one character at a time. *)

KInit == src = <<>>
Type == /\ Len(src) < MaxText
        /\ \E c \in Han : src' = Append(src, c)

KSpec == KInit /\ [][Type]_src

-----------------------------------------------------------------------------
(* Properties *)

\* A reading that went to a client as hiragana and is sent back (StoreYomi,
\* StoreRange: canna.c:1256, 1406) is the same reading, with the same length
\* in half-width characters, whatever code the client asked for; as katakana
\* it may only lose a voiced wa or wo.  Where iconv lacks EUC-JISX0213, an
\* EUC client's reading must not have the characters EUC-JP-MS lacks.
ReadingComesBack ==
    LET range(s) == {s[i] : i \in 1 .. Len(s)}
        lost == \E i \in 1 .. Len(src) : At(src, i) \in KataVoiced /\ At(src, i + 1) = Dakuten
        back(z, utf16) == U16ZenToHan(FromClientToU16(FromU16ToClient(z, utf16)))
        passes(z, utf16) == utf16 \/ \A i \in DOMAIN z : ~Missing(z[i])
    IN  range(src) \cap Control = {} =>
            \A utf16 \in BOOLEAN :
                LET hira == U16HanToZen(src, "hira")
                    kata == U16HanToZen(src, "kata")
                IN  /\ passes(hira, utf16) => back(hira, utf16) = src
                    /\ passes(kata, utf16) => back(kata, utf16) = src \/ lost

\* ResizePause may cut a reading wherever U16CombineHan finds nothing to
\* combine: converting the parts gives the parts of the conversion.
CutsWhereWhole ==
    \A n \in 1 .. Len(src), script \in Scripts :
        U16CombineHan(src, n, script) = 0 =>
            U16HanToZen(src, script) = U16HanToZen(SubSeq(src, 1, n), script)
                                    \o U16HanToZen(SubSeq(src, n + 1, Len(src)), script)
==============================================================================
