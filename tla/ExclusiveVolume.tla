---------------------------- MODULE ExclusiveVolume ----------------------------
(***************************************************************************)
(* What controller and node server promise together about one volume: it   *)
(* is on one server at a time, it is used only there, it is not taken away *)
(* from a server that uses it unless the server itself is gone, what was   *)
(* written stays, and it is deleted only when it is on no server.          *)
(***************************************************************************)
CONSTANTS
    Servers,
    Nobody     \* none of the servers

VARIABLES
    holder,    \* the server the volume is on
    users,     \* the servers that have it mounted
    written,   \* data has been written to it
    deleted

vars == <<holder, users, written, deleted>>

Init ==
    /\ holder = Nobody
    /\ users = {}
    /\ written \in BOOLEAN
    /\ deleted = FALSE

Attach(n) ==
    /\ holder = Nobody /\ ~deleted
    /\ holder' = n
    /\ UNCHANGED <<users, written, deleted>>

Detach ==
    /\ holder # Nobody /\ users = {}
    /\ holder' = Nobody
    /\ UNCHANGED <<users, written, deleted>>

Use(n) ==
    /\ holder = n /\ users = {}
    /\ users' = {n}
    /\ UNCHANGED <<holder, written, deleted>>

Release ==
    /\ users # {}
    /\ users' = {}
    /\ UNCHANGED <<holder, written, deleted>>

Write ==
    /\ users # {}
    /\ written' = TRUE
    /\ UNCHANGED <<holder, users, deleted>>

\* The server that holds the volume is deleted.
Lose ==
    /\ holder # Nobody
    /\ holder' = Nobody
    /\ users' = {}
    /\ UNCHANGED <<written, deleted>>

Delete ==
    /\ holder = Nobody
    /\ deleted' = TRUE
    /\ UNCHANGED <<holder, users, written>>

Next ==
    \/ \E n \in Servers : Attach(n) \/ Use(n)
    \/ Detach \/ Release \/ Write \/ Lose \/ Delete

Spec == Init /\ [][Next]_vars

==============================================================================
