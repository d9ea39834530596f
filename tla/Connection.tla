----------------------------- MODULE Connection -----------------------------
(***************************************************************************)
(* connection<T> of include/connection.hpp: the object that the acceptor   *)
(* thread, the worker threads and the connection's sentinel thread share   *)
(* by raw pointer.  A member of Conn is one such object (an address); it   *)
(* is used again for a later client only when nothing refers to it.        *)
(*                                                                         *)
(* Time is abstracted to the answer of idle(): idle[c] says that more than *)
(* keep_alive_ has passed since last_active_.  Only set_keep_alive's       *)
(* caller-chosen duration is lost; no property compares durations.         *)
(* The condition variable needs no state: a waiter with a wait_until       *)
(* deadline evaluates its predicate again at the deadline, so a missed     *)
(* notify_all only delays it.                                              *)
(***************************************************************************)
EXTENDS Integers, FiniteSets

CONSTANTS
    Conn,      \* connection objects
    NoConn     \* the null connection pointer

ASSUME ConnAssumption == NoConn \notin Conn

(* There are finitely many addresses. *)
ASSUME AddressAssumption == IsFiniteSet(Conn)

VARIABLES
    allocated, \* the objects that are constructed and not yet deleted
    refs,      \* refs_: atomic_intmax_t
    closed,    \* closed_: atomic_bool
    idle,      \* what idle() answers now
    locked,    \* objects whose lock_ is held from one step to a later one
    undefined  \* a deleted object has been used: nothing is promised any more

connVars == <<allocated, refs, closed, idle, locked, undefined>>

ConnTypeOK ==
    /\ allocated \subseteq Conn
    /\ refs \in [Conn -> Int]
    /\ closed \in [Conn -> BOOLEAN]
    /\ idle \in [Conn -> BOOLEAN]
    /\ locked \subseteq Conn
    /\ undefined \in BOOLEAN

ConnInit ==
    /\ allocated = {}
    /\ refs = [c \in Conn |-> 0]
    /\ closed = [c \in Conn |-> FALSE]
    /\ idle = [c \in Conn |-> FALSE]
    /\ locked = {}
    /\ undefined = FALSE

(* The program's behaviour is defined, and c may be dereferenced. *)
Usable(c) == ~undefined /\ c \in allocated

-----------------------------------------------------------------------------
Construct(c) ==
    /\ allocated' = allocated \cup {c}
    /\ refs' = [refs EXCEPT ![c] = 0]
    /\ closed' = [closed EXCEPT ![c] = FALSE]
    /\ idle' = [idle EXCEPT ![c] = FALSE]
    /\ UNCHANGED <<locked, undefined>>

(* ~connection.  The members of a deleted object have no value any more;   *)
(* they are given a fixed one.                                             *)
Destroy(c) ==
    /\ allocated' = allocated \ {c}
    /\ refs' = [refs EXCEPT ![c] = 0]
    /\ closed' = [closed EXCEPT ![c] = FALSE]
    /\ idle' = [idle EXCEPT ![c] = FALSE]
    /\ UNCHANGED <<locked, undefined>>

(* take and release are lock free. *)
Take(c) ==
    /\ refs' = [refs EXCEPT ![c] = @ + 1]
    /\ UNCHANGED <<allocated, closed, idle, locked, undefined>>

Release(c) ==
    /\ refs' = [refs EXCEPT ![c] = @ - 1]
    /\ UNCHANGED <<allocated, closed, idle, locked, undefined>>

Close(c) ==
    /\ closed' = [closed EXCEPT ![c] = TRUE]
    /\ UNCHANGED <<allocated, refs, idle, locked, undefined>>

(* was_active waits for lock_ and restarts the keep-alive period. *)
WasActive(c) ==
    /\ c \notin locked
    /\ idle' = [idle EXCEPT ![c] = FALSE]
    /\ UNCHANGED <<allocated, refs, closed, locked, undefined>>

(* The keep-alive period ends. *)
Expire(c) ==
    /\ idle' = [idle EXCEPT ![c] = TRUE]
    /\ UNCHANGED <<allocated, refs, closed, locked, undefined>>

(* Defect: the lock is entered without waiting for its holder. *)
LockWithoutWaiting(c) ==
    /\ locked' = locked \cup {c}
    /\ UNCHANGED <<allocated, refs, closed, idle, undefined>>

(* lock() held over several steps of its holder. *)
Lock(c) ==
    /\ c \notin locked
    /\ locked' = locked \cup {c}
    /\ UNCHANGED <<allocated, refs, closed, idle, undefined>>

Unlock(c) ==
    /\ locked' = locked \ {c}
    /\ UNCHANGED <<allocated, refs, closed, idle, undefined>>

(* A member function runs on a deleted object. *)
UseFreed(c) ==
    /\ ~undefined
    /\ c \notin allocated
    /\ undefined' = TRUE
    /\ UNCHANGED <<allocated, refs, closed, idle, locked>>
=============================================================================
