------------------------------ MODULE Accounts ------------------------------
(***************************************************************************)
(* What the rest of the relay may assume about identities: usernames are   *)
(* registered once and for ever, and a connection is nobody until it       *)
(* becomes one registered user, which it stays until it ends.  Relay's     *)
(* Register and Login actions rest on exactly this; Directory implements   *)
(* it.                                                                     *)
(***************************************************************************)
CONSTANTS Names, Conns, NoName

VARIABLES
    users,   \* the registered usernames
    authed   \* whom each connection speaks for

vars == <<users, authed>>

Init ==
    /\ users = {}
    /\ authed = [c \in Conns |-> NoName]

Register(c, u) ==
    /\ authed[c] = NoName /\ u \notin users
    /\ users' = users \cup {u}
    /\ authed' = [authed EXCEPT ![c] = u]

Login(c, u) ==
    /\ authed[c] = NoName /\ u \in users
    /\ authed' = [authed EXCEPT ![c] = u]
    /\ UNCHANGED users

\* Connections end, one or (with the process) all of them.
Drop(C) ==
    /\ authed' = [c \in Conns |-> IF c \in C THEN NoName ELSE authed[c]]
    /\ UNCHANGED users

Next ==
    \/ \E c \in Conns, u \in Names : Register(c, u) \/ Login(c, u)
    \/ \E C \in SUBSET Conns : Drop(C)

Spec == Init /\ [][Next]_vars
=============================================================================
