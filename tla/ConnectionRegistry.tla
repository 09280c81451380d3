------------------------- MODULE ConnectionRegistry -------------------------
(***************************************************************************)
(* What the hub promises the rest of the chat service about connections    *)
(* while it serves: at most one registered connection per user, within the *)
(* limit; a connection enters open, in a free slot; whatever the hub has   *)
(* shut never enters again.  Nothing is promised about who leaves: the     *)
(* unregistration of one connection may remove another one of its user.    *)
(***************************************************************************)
EXTENDS Integers, FiniteSets

CONSTANTS Conns, Users, Owner, MaxConnections, None

VARIABLES
    registered,  \* the registered connection of each user
    cancelled,   \* connections whose context is cancelled
    shut         \* connections whose send channel is closed

registryVars == <<registered, cancelled, shut>>

RegistryInit ==
    /\ registered = [u \in Users |-> None]
    /\ cancelled = {}
    /\ shut = {}

RegisteredUsers == {u \in Users : registered[u] # None}

Enter(c) ==
    /\ registered[Owner[c]] = None
    /\ c \notin cancelled \cup shut
    /\ Cardinality(RegisteredUsers) < MaxConnections
    /\ registered' = [registered EXCEPT ![Owner[c]] = c]
    /\ UNCHANGED <<cancelled, shut>>

\* Stop, then Close: for good.
Shut(c) ==
    /\ cancelled' = cancelled \cup {c}
    /\ shut' = shut \cup {c}
    /\ UNCHANGED registered

Leave(u) ==
    /\ registered[u] # None
    /\ registered' = [registered EXCEPT ![u] = None]
    /\ UNCHANGED <<cancelled, shut>>

\* A read pump ends by itself: its channel stays open, but it is not in use.
Cancel(c) ==
    /\ \A u \in Users : registered[u] # c
    /\ cancelled' = cancelled \cup {c}
    /\ UNCHANGED <<registered, shut>>

RegistryNext ==
    \/ \E c \in Conns : Enter(c) \/ Shut(c) \/ Cancel(c)
    \/ \E u \in Users : Leave(u)

RegistrySpec == RegistryInit /\ [][RegistryNext]_registryVars
=============================================================================
