---------------------------- MODULE Dictionaries ----------------------------
(***************************************************************************)
(* The dictionaries mounted on a conversion context: requests 08 to 0b of  *)
(* exe/canna.c over the string lists of lib/list.c, and what opening,      *)
(* duplicating, resetting and closing a context does to them.              *)
(*                                                                         *)
(* A context keeps the names and their modes in two arrays, Dics and       *)
(* DicMode, that belong together by position.  Dics is one byte array of   *)
(* NUL-terminated names and an end mark; here it is the sequence of names, *)
(* and a list index is counted from 0 as in the code.                      *)
(***************************************************************************)
EXTENDS ContextTable, ListBytes

CONSTANTS Names,    \* dictionary names
          Modes,    \* the modes a mount request may carry
          MaxDics,  \* bound on the dictionaries of one context
          Spellings \* what the names may be, as sequences of bytes

ASSUME MaxDicsAssumption == MaxDics \in Nat

\* No name is empty or has a NUL within.  Nothing keeps a client from mounting
\* an empty name, but in the bytes it reads as the end of the list, and what
\* the list then is is not modelled.
ASSUME SpellingsAssumption == Spellings \subseteq Seq(Nat \ {Zero}) \ {<<>>}

VARIABLES dics,      \* Context[n].Dics
          dicMode,   \* Context[n].DicMode
          status,    \* the reply to the last dictionary request, 0 or -1
          wild       \* an access through the address of a list item that
                     \* does not exist has happened; anything may follow

dicVars == <<vars, dics, dicMode, status, wild>>

DInit == /\ Init
         /\ dics = [n \in Slots |-> <<>>]
         /\ dicMode = [n \in Slots |-> <<>>]
         /\ status = 0
         /\ wild = FALSE

\* ListFind: the index, from 0, of the first item equal to name; else -1,
\* here the empty set.
ListFind(list, name) ==
    {i \in 0 .. Len(list) - 1 :
        list[i + 1] = name /\ \A j \in 1 .. i : list[j] # name}

\* ListRemove and ArRemove of the item with index i.
Without(list, i) == SubSeq(list, 1, i) \o SubSeq(list, i + 2, Len(list))

---------------------------------------------------------------------------
\* What the table's steps do to the dictionaries: reset_context empties them
\* when a context is opened, CloseCannaContext deletes them.
DicsFollow == /\ dics' = [n \in Slots |-> IF Live(n) /\ Live(n)' THEN dics[n] ELSE <<>>]
              /\ dicMode' = [n \in Slots |-> IF Live(n) /\ Live(n)' THEN dicMode[n] ELSE <<>>]
              /\ status' = 0
              /\ UNCHANGED wild

DicsTableStep == /\ \/ Restart
                    \/ /\ server = "up"
                       /\ \E fd \in Fds : \/ Accept(fd)
                                          \/ Initialize(fd)
                                          \/ Finalize(fd)
                                          \/ Disconnect(fd)
                                          \/ CreateContext(fd)
                                          \/ \E n \in Slots : CloseContext(fd, n)
                                          \/ NameClient(fd)
                                          \/ ReloadConf(fd)
                                          \/ KillServer(fd)
                 /\ DicsFollow

\* Request 04: the copy takes both arrays of its source.
Duplicate(fd, src) ==
    /\ server = "up"
    /\ DupContext(fd, src)
    /\ LET copied(a) ==
             [n \in Slots |-> IF ~Live(n)' THEN <<>> ELSE IF Live(n) THEN a[n] ELSE a[src]]
       IN  dics' = copied(dics) /\ dicMode' = copied(dicMode)
    /\ status' = 0
    /\ UNCHANGED wild

\* A dictionary request names a context; nobody checks whose it is.
Valid(n) == server = "up" /\ open # {} /\ Live(n)

\* The early exit of every dictionary request when ValidContext gives NULL.
InvalidContext(n) == /\ server = "up" /\ open # {} /\ ~Live(n)
                     /\ status' = -1
                     /\ UNCHANGED <<vars, dics, dicMode, wild>>

\* Request 08: the name goes to the end of the list, mounted or not.
MountDic(n, name, mode) ==
    /\ Valid(n)
    /\ Len(dics[n]) < MaxDics
    /\ dics' = [dics EXCEPT ![n] = Append(@, name)]
    /\ dicMode' = [dicMode EXCEPT ![n] = Append(@, mode)]
    /\ status' = 0
    /\ UNCHANGED <<vars, wild>>

\* Faulty variants, named for the fault, stand before what they vary.
UnmountDicName(n, name) ==
    /\ Valid(n)
    /\ \E dn \in ListFind(dics[n], name) :
          /\ dn > 0
          /\ dics' = [dics EXCEPT ![n] = Without(@, dn)]
    /\ status' = 0
    /\ UNCHANGED <<vars, dicMode, wild>>

\* Request 09: `if(dn > 0)`, so index 0 counts as not found.
UnmountDic(n, name) ==
    /\ Valid(n)
    /\ \/ \E dn \in ListFind(dics[n], name) :
             /\ dn > 0
             /\ dics' = [dics EXCEPT ![n] = Without(@, dn)]
             /\ dicMode' = [dicMode EXCEPT ![n] = Without(@, dn)]
             /\ status' = 0
       \/ /\ ListFind(dics[n], name) \subseteq {0}
          /\ status' = -1
          /\ UNCHANGED <<dics, dicMode>>
    /\ UNCHANGED <<vars, wild>>

RemountDicRemovedFirst(n, name) ==
    /\ Valid(n)
    /\ Len(dics[n]) > 1
    /\ \E dn \in ListFind(dics[n], name) :
          LET rest == Without(dicMode[n], dn)
          IN  /\ dics' = [dics EXCEPT ![n] = <<name>> \o Without(@, dn)]
              /\ dicMode' = [dicMode EXCEPT ![n] =
                    <<rest[IF dn < Len(rest) THEN dn + 1 ELSE Len(rest)]>> \o rest]
    /\ status' = 0
    /\ UNCHANGED <<vars, wild>>

\* Request 0a: the item moves to the head, its mode with it.  ListRemove of
\* the only item clears the array, and ListInsert then takes the address of
\* an item of an empty list, which is NULL, for a position.
RemountDic(n, name) ==
    /\ Valid(n)
    /\ \/ \E dn \in ListFind(dics[n], name) :
             /\ dicMode' = [dicMode EXCEPT ![n] = <<@[dn + 1]>> \o Without(@, dn)]
             /\ \/ /\ Len(dics[n]) > 1
                   /\ dics' = [dics EXCEPT ![n] = <<name>> \o Without(@, dn)]
                   /\ UNCHANGED wild
                \/ /\ Len(dics[n]) = 1
                   /\ dics' = [dics EXCEPT ![n] = <<>>]
                   /\ wild' = TRUE
             /\ status' = 0
       \/ /\ ListFind(dics[n], name) = {}
          /\ status' = -1
          /\ UNCHANGED <<dics, dicMode, wild>>
    /\ UNCHANGED vars

\* Request 10: EndConv resets the context, and with it its dictionaries.
EndConvDics(n) == /\ Valid(n)
                  /\ dics' = [dics EXCEPT ![n] = <<>>]
                  /\ dicMode' = [dicMode EXCEPT ![n] = <<>>]
                  /\ status' = 0
                  /\ UNCHANGED <<vars, wild>>

\* After the stray access nothing is known; the model stops there.
DNext == /\ ~wild
         /\ \/ DicsTableStep
            \/ \E fd \in Fds, n \in Slots : Duplicate(fd, n)
            \/ \E n \in Slots :
                 \/ InvalidContext(n)
                 \/ EndConvDics(n)
                 \/ \E name \in Names :
                      \/ UnmountDic(n, name)
                      \/ RemountDic(n, name)
                      \/ \E mode \in Modes : MountDic(n, name, mode)

DSpec == DInit /\ [][DNext]_dicVars

---------------------------------------------------------------------------
DTypeOK == /\ TypeOK
           /\ dics \in [Slots -> Seq(Names)]
           /\ dicMode \in [Slots -> Seq(Modes)]
           /\ status \in {0, -1}
           /\ wild \in BOOLEAN

\* The two arrays stay aligned through every mix of mounts, unmounts,
\* remounts, duplications and resets, and a context not in use holds none, so
\* that the next user of its cell starts without dictionaries.
DicsAligned ==
    \A n \in Slots : ~wild => /\ Len(dics[n]) = Len(dicMode[n])
                              /\ ~Live(n) => dics[n] = <<>>

\* The byte arrays do what is said here of sequences: for names of which one
\* may begin or end another, what list.c finds, counts, removes, puts first
\* and appends in the bytes is what this module does to the names.
ListsFlat ==
    \A spell \in [Names -> Spellings] :
        IsInjective(spell) =>
        \A n \in Slots :
            LET flat(list) == Flat([i \in DOMAIN list |-> spell[list[i]]])
                list == dics[n]
            IN  /\ ListCount(flat(list)) = Len(list)
                /\ \A name \in Names :
                      /\ ListFindByte(flat(list), spell[name])
                            \in IF ListFind(list, name) = {} THEN {-1} ELSE ListFind(list, name)
                      /\ ListInsert(flat(list), -1, spell[name]) = flat(Append(list, name))
                      /\ list # <<>> => ListInsert(flat(list), 0, spell[name]) = flat(<<name>> \o list)
                /\ \A i \in 0 .. Len(list) - 1 :
                      ListRemoveRange(flat(list), i, i) = flat(Without(list, i))

\* The mounted dictionaries of context n, each with its mode and the number
\* of times it is mounted so.
Mounted(n) == [p \in Names \X Modes |->
    Cardinality({i \in DOMAIN dics[n] : dics[n][i] = p[1] /\ dicMode[n][i] = p[2]})]

\* A remount that succeeds only changes the order: every dictionary keeps the
\* mode it was mounted with, though names and modes move in two arrays.
RemountKeepsModes ==
    [][\A n \in Slots, name \in Names :
          RemountDic(n, name) /\ status' = 0 /\ ~wild' =>
             Mounted(n)' = Mounted(n) /\ dics'[n][1] = name]_dicVars

\* Request 09 removes the name it was given (canna.c:248-255).
UnmountRemoves ==
    [][\A n \in Slots, name \in Names :
          UnmountDic(n, name) /\ name \in Range(dics[n]) => status' = 0]_dicVars

\* Request 0a brings the dictionary to the head of the list (canna.c:290).
RemountMovesToHead ==
    [][\A n \in Slots, name \in Names :
          RemountDic(n, name) /\ status' = 0 =>
             dics'[n] # <<>> /\ dics'[n][1] = name]_dicVars
=============================================================================
