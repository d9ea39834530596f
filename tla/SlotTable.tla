----------------------------- MODULE SlotTable -----------------------------
(***************************************************************************)
(* What server<T> promises of its connection objects, whatever its threads *)
(* do: an object is new when it gets a slot, the slot was free, it has no  *)
(* other, and it is deleted only after the slot has been given back.       *)
(***************************************************************************)
CONSTANTS Conn, NoConn, Slots

VARIABLES
    owner,   \* of each slot: the object that it has been given to
    existing \* objects

vars == <<owner, existing>>

Init ==
    /\ owner = [i \in Slots |-> NoConn]
    /\ existing = {}

Occupy(i, c) ==
    /\ owner[i] = NoConn
    /\ c \notin existing
    /\ owner' = [owner EXCEPT ![i] = c]
    /\ existing' = existing \cup {c}

Vacate(i) ==
    /\ owner[i] # NoConn
    /\ owner' = [owner EXCEPT ![i] = NoConn]
    /\ UNCHANGED existing

Delete(c) ==
    /\ c \in existing
    /\ \A i \in Slots : owner[i] # c
    /\ existing' = existing \ {c}
    /\ UNCHANGED owner

Next ==
    \/ \E i \in Slots, c \in Conn : Occupy(i, c)
    \/ \E i \in Slots : Vacate(i)
    \/ \E c \in Conn : Delete(c)

Spec == Init /\ [][Next]_vars
=============================================================================
