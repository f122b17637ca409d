------------------------------- MODULE Hinshi -------------------------------
(***************************************************************************)
(* The table that maps the part-of-speech codes of Canna to those of the   *)
(* IME, and how it is read from a file (io/wimeio.c: ImReadSetting,        *)
(* read_hinshi_def, get_line), at the start of the server and again when a *)
(* client asks for it (`wimectrl -e`).  One step reads one line.           *)
(*                                                                         *)
(* A line is a kind and, for an entry, its code and patterns.  A pattern   *)
(* is a regular expression; Bad ones do not compile.                       *)
(***************************************************************************)
EXTENDS Naturals, Sequences, SequencesExt

CONSTANTS Lines,    \* what a line of the file may be
          Patterns, \* what a line gives to compare with codes of Canna
          Bad,      \* patterns that regcomp refuses
          Texts,    \* part-of-speech codes in the words of clients
          Matches,  \* pairs of a pattern and a text it matches
          MaxLines, \* bound on the lines of a file
          MaxReads, \* bound on the times the setting is read
          Garbage,  \* what nothing has been assigned to
          NoFile    \* fopen fails; no table

ASSUME LinesAssumption ==
    Lines \subseteq [kind : {"entry", "comment", "malformed"}, code : Nat, patterns : Seq(Patterns)]
ASSUME MaxLinesAssumption == MaxLines \in Nat

TableEntry == [Wcode : Nat, Ccode : Patterns]
ASSUME NoFileAssumption == NoFile \notin Seq(Lines) /\ NoFile \notin Seq(TableEntry)

VARIABLES home,    \* ~/.wime/hinshi
          system,  \* the one installed with wime
          reading, \* the lines of the file that are still to be read
          lb,      \* the line buffer: the lines it holds
          table,   \* HinshiTab, without its end mark, or NoFile
          reads,   \* how often the setting was read
          current  \* history: the file that was read last

hinshiVars == <<home, system, reading, lb, table, reads, current>>

Files == BoundedSeq(Lines, MaxLines) \cup {NoFile}

HInit == /\ home \in Files /\ system \in Files
         /\ reading = <<>>
         /\ lb = <<>>
         /\ table = NoFile
         /\ reads = 0
         /\ current = NoFile

FileToRead == IF home # NoFile THEN home ELSE system

\* The table that was there is freed first.
ImReadSetting == /\ reads < MaxReads /\ reading = <<>>
                 /\ reads' = reads + 1
                 /\ current' = FileToRead
                 /\ lb' = <<>>
                 /\ IF FileToRead = NoFile
                    THEN table' = NoFile /\ reading' = <<>>
                    ELSE table' = <<>> /\ reading' = FileToRead
                 /\ UNCHANGED <<home, system>>

\* The entries of a line: one for each pattern that compiles.
Entries(line) ==
    FlattenSeq([i \in DOMAIN line.patterns |->
                   IF line.patterns[i] \in Bad THEN <<>>
                   ELSE <<[Wcode |-> line.code, Ccode |-> line.patterns[i]]>>])

\* A comment, an empty line or one that does not begin with a number takes
\* the `continue` before ArClear.
Skipped(line) == line.kind # "entry"

\* The next line is appended to what lb holds, and what is parsed is the
\* string that begins there.
Parsed == Head(Append(lb, Head(reading)))

\* As AfterLine, but nothing is ever cleared.
AfterLineKept == Append(lb, Head(reading))

\* What lb holds then: what begins with a skipped line stays and hides all
\* that follows.
AfterLine == IF Skipped(Parsed) THEN Append(lb, Head(reading)) ELSE <<>>

ReadLine == /\ reading # <<>>
            /\ lb' = AfterLine
            /\ table' = IF Skipped(Parsed) THEN table ELSE table \o Entries(Parsed)
            /\ reading' = Tail(reading)
            /\ UNCHANGED <<home, system, reads, current>>

\* The user edits his file and asks for it.
Edit == /\ reading = <<>> /\ reads > 0 /\ reads < MaxReads
        /\ \E f \in Files : f # home /\ home' = f
        /\ UNCHANGED <<system, reading, lb, table, reads, current>>

HNext == ImReadSetting \/ ReadLine \/ Edit

HSpec == HInit /\ [][HNext]_hinshiVars

\* The IME's code for a word that is registered or removed: by the first
\* pattern that matches, else that of the first entry, which may be the end
\* mark, whose code nobody sets; 0, which is an error, without a table.
canna_hinshi_to_win(text) ==
    LET hits == {i \in DOMAIN table : <<table[i].Ccode, text>> \in Matches}
    IN  CASE table = NoFile -> 0
          [] table = <<>> -> Garbage
          [] hits = {} -> Head(table).Wcode
          [] OTHER -> table[CHOOSE i \in hits : \A j \in hits : i <= j].Wcode

-----------------------------------------------------------------------------
(* Properties *)

EntryLine(line) == line.kind = "entry"
Wanted(file) == FlattenSeq([i \in DOMAIN file |->
                               IF EntryLine(file[i]) THEN Entries(file[i]) ELSE <<>>])
Read == reads > 0 /\ reading = <<>> /\ current # NoFile
Names(line, text) == \E i \in DOMAIN line.patterns : /\ line.patterns[i] \notin Bad
                                                     /\ <<line.patterns[i], text>> \in Matches

\* A file of entries alone is read whole: every pattern that compiles, in the
\* order of the file, nothing left of the table before, and the user's own
\* file instead of the installed one where there is one.  So the first line
\* that names the code of a word decides what the IME registers it as,
\* whatever patterns beside it do not compile and whatever lines follow.
CleanFileRead ==
    /\ Read /\ (\A i \in DOMAIN current : EntryLine(current[i])) =>
           /\ table = Wanted(current)
           /\ \A text \in Texts, i \in DOMAIN current :
                 Names(current[i], text) /\ (\A j \in 1 .. i - 1 : ~Names(current[j], text))
                 => canna_hinshi_to_win(text) = current[i].code
    /\ reads > 0 /\ system # NoFile => current # NoFile

\* Lines that begin with # and empty lines are ignored (Readme), and nothing
\* else is.
OnlyCommentsIgnored == Read => table = Wanted(current)
==============================================================================
