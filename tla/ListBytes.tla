------------------------------ MODULE ListBytes ------------------------------
(***************************************************************************)
(* The string lists of lib/list.c as they lie in an Array of lib/array.c:  *)
(* the members one after the other, each with its NUL, and one more NUL as *)
(* the end mark; a list without members is an empty array.  Positions and  *)
(* indices count from 0.  The other modules work with the sequence of      *)
(* members; that this comes to the same is ListsFlat.                      *)
(***************************************************************************)
EXTENDS Integers, Sequences, SequencesExt

Zero == 0   \* the NUL; every other letter is a positive number

Terminated(member) == member \o <<Zero>>
Flat(list) == IF list = <<>> THEN <<>>
              ELSE FlattenSeq([i \in DOMAIN list |-> Terminated(list[i])]) \o <<Zero>>

ByteAt(bytes, pos) == bytes[pos + 1]

\* nul_pos, that is ArFind of a NUL: the first position from start on.
NulPos(bytes, start) ==
    CHOOSE p \in start .. Len(bytes) - 1 :
        ByteAt(bytes, p) = Zero /\ \A q \in start .. p - 1 : ByteAt(bytes, q) # Zero

\* The position of the member with that index; the loop of ListInc, which
\* stops at the end mark.
MemberPos(bytes, index) ==
    LET step[n \in 0 .. index] == IF n = 0 THEN 0
                                  ELSE IF ByteAt(bytes, step[n - 1]) = Zero THEN step[n - 1]
                                  ELSE NulPos(bytes, step[n - 1]) + 1
    IN  step[index]

ListCount(bytes) == IF bytes = <<>> THEN 0
                    ELSE CHOOSE n \in 1 .. Len(bytes) :
                            /\ ByteAt(bytes, MemberPos(bytes, n)) = Zero
                            /\ \A m \in 1 .. n - 1 : ByteAt(bytes, MemberPos(bytes, m)) # Zero

\* ArRemove: whatever would reach past the end takes all of it.
ArRemove(bytes, pos, count) ==
    IF pos \notin 0 .. Len(bytes) - 1 THEN bytes
    ELSE SubSeq(bytes, 1, pos) \o SubSeq(bytes, pos + count + 1, Len(bytes))

\* ArInsert, as far as the array's own elements go: it moves count elements
\* too many, which end beyond them.
ArInsert(bytes, pos, valptr) ==
    SubSeq(bytes, 1, pos) \o valptr \o SubSeq(bytes, pos + 1, Len(bytes))

\* As ListRemoveRange, but the NUL of the last member stays.
ListRemoveRangeShort(bytes, first, last) ==
    LET posb == MemberPos(bytes, first)
        pose == NulPos(bytes, MemberPos(bytes, last))
        rest == ArRemove(bytes, posb, pose - posb)
    IN  IF Len(rest) = 1 THEN <<>> ELSE rest

\* What is left of one end mark alone is cleared.
ListRemoveRange(bytes, first, last) ==
    LET posb == MemberPos(bytes, first)
        pose == NulPos(bytes, MemberPos(bytes, last)) + 1
        rest == ArRemove(bytes, posb, pose - posb)
    IN  IF Len(rest) = 1 THEN <<>> ELSE rest

\* SubList for a list of one member: at each member's start the bytes are
\* compared as far as the member and its NUL go, while so many are left.
SubList(bytes, plist) ==
    LET plen == Len(plist) - 1
        left(index) == Len(bytes) - 1 - MemberPos(bytes, index)
        matches(index) == /\ left(index) >= plen
                          /\ SubSeq(bytes, MemberPos(bytes, index) + 1,
                                           MemberPos(bytes, index) + plen) = SubSeq(plist, 1, plen)
        found == {i \in 0 .. ListCount(bytes) - 1 : matches(i)}
    IN  IF found = {} THEN -1 ELSE CHOOSE i \in found : \A j \in found : i <= j

\* ListFind makes the name, with its NUL, a list.
ListFindByte(bytes, name) == SubList(bytes, Terminated(Terminated(name)))

\* ListInsert at a member that exists, and at the end (index < 0), where the
\* end mark gives way and comes back.
ListInsert(bytes, index, name) ==
    IF index >= 0 THEN ArInsert(bytes, MemberPos(bytes, index), Terminated(name))
    ELSE (IF bytes = <<>> THEN <<>> ELSE Front(bytes)) \o Terminated(name) \o <<Zero>>
==============================================================================
