------------------------------ MODULE Sessions ------------------------------
(***************************************************************************)
(* What the conversion server promises its connections about contexts,     *)
(* without windows, slots reuse rules or the order of the tables: an       *)
(* initialised connection holds a set of context numbers, no number is     *)
(* held twice, a number is given out only while nobody holds it, and the   *)
(* end of a connection frees exactly its own.                              *)
(***************************************************************************)
CONSTANTS Fds,   \* connections
          Ids    \* context numbers

VARIABLES up,        \* the server runs
          members,   \* initialised connections
          sessions   \* the context numbers each connection holds

vars == <<up, members, sessions>>

Nobody == [fd \in Fds |-> {}]
Held == UNION {sessions[fd] : fd \in Fds}

Init == up = TRUE /\ members = {} /\ sessions = Nobody

Grant(fd) == \E id \in Ids \ Held :
                sessions' = [sessions EXCEPT ![fd] = @ \cup {id}]

Begin(fd) == /\ fd \notin members
             /\ members' = members \cup {fd}
             /\ Grant(fd)
             /\ UNCHANGED up

More(fd) == fd \in members /\ Grant(fd) /\ UNCHANGED <<up, members>>

Release(fd, id) == /\ id \in sessions[fd]
                   /\ sessions' = [sessions EXCEPT ![fd] = @ \ {id}]
                   /\ UNCHANGED <<up, members>>

End(fd) == /\ fd \in members
           /\ members' = members \ {fd}
           /\ sessions' = [sessions EXCEPT ![fd] = {}]
           /\ UNCHANGED up

Stop == up' = FALSE /\ members' = {} /\ sessions' = Nobody
Start == ~up /\ up' = TRUE /\ UNCHANGED <<members, sessions>>

Next == \/ /\ up
           /\ \/ Stop
              \/ \E fd \in Fds : \/ Begin(fd)
                                 \/ More(fd)
                                 \/ End(fd)
                                 \/ \E id \in Ids : Release(fd, id)
        \/ Start

Spec == Init /\ [][Next]_vars
=============================================================================
