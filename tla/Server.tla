------------------------------- MODULE Server -------------------------------
(***************************************************************************)
(* rite::server<T> of include/server.hpp: the acceptor thread's epoll loop *)
(* (operator()), the slot table connections_ and one detached sentinel     *)
(* thread per connection (connection_sentinel).  on_read is a parameter of *)
(* the template; HttpServer and HttpsServer model it.                      *)
(*                                                                         *)
(* A slot holds a pointer whose bit 63 says that the slot is free; the two *)
(* parts are slotCon and slotDead.  The kernel (the accept backlog, epoll  *)
(* and the sockets' receive queues) and the peers are modelled from how    *)
(* the code uses them.  A failing socket, bind, epoll_create1 or           *)
(* epoll_ctl call is not modelled, nor is running out of descriptors.      *)
(***************************************************************************)
EXTENDS Runtime

CONSTANTS
    Listener,        \* the listening socket, as a source of events
    MaxConnections,  \* config::max_connections_: slots and events per wait
    ServerFd,        \* the number of the listening socket's descriptor
    MaxBacklog,      \* bound: clients waiting to be accepted
    MaxInbox,        \* bound: unread segments of one client
    ReadSize         \* segments that fill the buffer of one recv

ASSUME ServerAssumption ==
    /\ Listener \notin Conn
    /\ MaxConnections \in Nat \ {0}
    /\ ServerFd \in Nat
    /\ MaxInbox \in Nat
    /\ ReadSize \in Nat \ {0}

VARIABLES
    slotCon,    \* connections_[i] without bit 63
    slotDead,   \* bit 63 of connections_[i]
    index,      \* the slot number in the epoll registration of an object's
                \* socket (ev.data.u64) and in its sentinel's arguments
    sentinel,   \* where the sentinel thread of each object is
    guarded,    \* its local con
    accPc,      \* where the acceptor thread is
    accCon,     \* its local client / con
    batch,      \* the sources of the events it has not handled yet
    backlog,    \* clients that wait to be accepted
    registered, \* objects whose socket is in the epoll set
    ready,      \* those with an edge that epoll_wait has not returned yet
    inbox,      \* number of unread segments
    eof         \* the peer has shut the connection down

serverVars == <<slotCon, slotDead, index, sentinel, guarded>>
acceptorVars == <<accPc, accCon, batch>>
netVars == <<backlog, registered, ready, inbox, eof>>

Slots == 0 .. MaxConnections - 1

ServerTypeOK ==
    /\ slotCon \in [Slots -> Conn \cup {NoConn}]
    /\ slotDead \in [Slots -> BOOLEAN]
    /\ index \in [Conn -> Slots]
    /\ sentinel \in [Conn -> {"none", "start", "watch", "mark", "delete"}]
    /\ guarded \in [Conn -> Conn \cup {NoConn}]
    /\ accPc \in {"loop", "adding", "loaded", "taken"}
    /\ accCon \in Conn \cup {NoConn}
    \* the array events has room for them
    /\ batch \subseteq Conn \cup {Listener} /\ Cardinality(batch) <= MaxConnections
    /\ backlog \in Nat
    /\ registered \subseteq Conn
    /\ ready \subseteq Conn
    /\ inbox \in [Conn -> Nat]
    /\ eof \in [Conn -> BOOLEAN]

ServerInit ==
    /\ slotCon = [i \in Slots |-> NoConn]
    /\ slotDead = [i \in Slots |-> TRUE]
    /\ index = [c \in Conn |-> 0]
    /\ sentinel = [c \in Conn |-> "none"]
    /\ guarded = [c \in Conn |-> NoConn]
    /\ accPc = "loop"
    /\ accCon = NoConn
    /\ batch = {}
    /\ backlog = 0
    /\ registered = {}
    /\ ready = {}
    /\ inbox = [c \in Conn |-> 0]
    /\ eof = [c \in Conn |-> FALSE]

-----------------------------------------------------------------------------
(* Peers, kernel and clock.                                                *)

Connect ==
    /\ ~undefined
    /\ backlog < MaxBacklog
    /\ backlog' = backlog + 1
    /\ UNCHANGED <<registered, ready, inbox, eof>>
    /\ UNCHANGED <<connVars, runtimeVars, serverVars, acceptorVars>>

(* With EPOLLET every arrival is an edge, and only an arrival is. *)
Edge(c) == ready' = IF c \in registered THEN ready \cup {c} ELSE ready

Send(c) ==
    /\ Usable(c)
    /\ ~eof[c]
    /\ inbox[c] < MaxInbox
    /\ inbox' = [inbox EXCEPT ![c] = @ + 1]
    /\ Edge(c)
    /\ UNCHANGED <<backlog, registered, eof>>
    /\ UNCHANGED <<connVars, runtimeVars, serverVars, acceptorVars>>

Hangup(c) ==
    /\ Usable(c)
    /\ ~eof[c]
    /\ eof' = [eof EXCEPT ![c] = TRUE]
    /\ Edge(c)
    /\ UNCHANGED <<backlog, registered, inbox>>
    /\ UNCHANGED <<connVars, runtimeVars, serverVars, acceptorVars>>

GoIdle(c) ==
    /\ Usable(c)
    /\ ~idle[c]
    /\ Expire(c)
    /\ UNCHANGED <<runtimeVars, serverVars, acceptorVars, netVars>>

(* The number of segments one recv takes of n that wait. *)
Received(n) == IF n <= ReadSize THEN n ELSE ReadSize

-----------------------------------------------------------------------------
(* The acceptor thread.                                                    *)

Available == ready \cup (IF backlog > 0 THEN {Listener} ELSE {})

(* Defect: the limit given to epoll_wait is not that of the array. *)
EpollWaitUnlimited ==
    /\ ~undefined
    /\ accPc = "loop" /\ batch = {}
    /\ Available # {}
    /\ batch' = Available
    /\ ready' = {}
    /\ UNCHANGED <<accPc, accCon, backlog, registered, inbox, eof>>
    /\ UNCHANGED <<connVars, runtimeVars, serverVars>>

(* epoll_wait returns at most max_connections_ events.  The listening      *)
(* socket is level triggered; a client's edge is consumed.                 *)
EpollWait ==
    /\ ~undefined
    /\ accPc = "loop" /\ batch = {}
    /\ Available # {}
    /\ batch' \in SUBSET Available
    /\ Cardinality(batch') = IF Cardinality(Available) <= MaxConnections
                             THEN Cardinality(Available) ELSE MaxConnections
    /\ ready' = ready \ batch'
    /\ UNCHANGED <<accPc, accCon, backlog, registered, inbox, eof>>
    /\ UNCHANGED <<connVars, runtimeVars, serverVars>>

(* event.data is a union: the fd of the listener's event and the slot      *)
(* number of a client's event are told apart by comparing event.data.fd    *)
(* with fd.server.                                                         *)
IsServerEvent(e) == e \in {Listener} \cup {c \in Conn : index[c] = ServerFd}

(* The acceptor takes event e from the batch. *)
Handling(e) ==
    /\ ~undefined
    /\ accPc = "loop"
    /\ e \in batch

(* Nothing points to the object c: its address can be used again.  The     *)
(* events are those still to be handled.                                   *)
Fresh(c, events) ==
    /\ c \notin allocated
    /\ sentinel[c] = "none"
    /\ c \notin events
    /\ \A t \in Task : taskCon[t] # c

(* Defect: the search stops at a slot whose bit 63 it has not tested. *)
FirstUntested(i) == \A j \in Slots : j < i => ~slotDead[j]

FirstDead(i) ==
    /\ slotDead[i]
    /\ \A j \in Slots : j < i => ~slotDead[j]

(* accept, on_accept, the search for a free slot, the store to it and the  *)
(* start of the sentinel.  Until the store nobody else knows the object.   *)
AcceptClient(e) ==
    /\ Handling(e) /\ IsServerEvent(e)
    /\ backlog > 0
    /\ \E c \in Conn, i \in Slots :
        /\ Fresh(c, batch \ {e})
        /\ FirstDead(i)
        /\ Construct(c)
        /\ slotCon' = [slotCon EXCEPT ![i] = c]
        /\ slotDead' = [slotDead EXCEPT ![i] = FALSE]
        /\ index' = [index EXCEPT ![c] = i]
        /\ sentinel' = [sentinel EXCEPT ![c] = "start"]
        /\ inbox' = [inbox EXCEPT ![c] = 0]
        /\ eof' = [eof EXCEPT ![c] = FALSE]
        /\ accCon' = c
    /\ accPc' = "adding"
    /\ batch' = batch \ {e}
    /\ backlog' = backlog - 1
    /\ UNCHANGED <<guarded, registered, ready, runtimeVars>>

(* No slot is free: the new object is deleted, the peer disconnected. *)
RejectClient(e) ==
    /\ Handling(e) /\ IsServerEvent(e)
    /\ backlog > 0
    /\ \A i \in Slots : ~slotDead[i]
    /\ batch' = batch \ {e}
    /\ backlog' = backlog - 1
    /\ UNCHANGED <<accPc, accCon, registered, ready, inbox, eof>>
    /\ UNCHANGED <<connVars, runtimeVars, serverVars>>

(* on_accept returns nullptr (a TLS handshake that failed). *)
AcceptNothing(e) ==
    /\ Handling(e) /\ IsServerEvent(e)
    /\ backlog > 0
    /\ batch' = batch \ {e}
    /\ backlog' = backlog - 1
    /\ UNCHANGED <<accPc, accCon, registered, ready, inbox, eof>>
    /\ UNCHANGED <<connVars, runtimeVars, serverVars>>

(* accept fails with EAGAIN: nobody waits. *)
AcceptAgain(e) ==
    /\ Handling(e) /\ IsServerEvent(e)
    /\ backlog = 0
    /\ batch' = batch \ {e}
    /\ UNCHANGED <<accPc, accCon, netVars>>
    /\ UNCHANGED <<connVars, runtimeVars, serverVars>>

(* EPOLL_CTL_ADD: a socket that is readable already has its first edge.    *)
(* If the sentinel has deleted the object, the socket is closed and the    *)
(* call fails; the acceptor only reports it.                               *)
EpollAdd ==
    /\ ~undefined
    /\ accPc = "adding"
    /\ IF accCon \in allocated
       THEN /\ registered' = registered \cup {accCon}
            /\ ready' = IF inbox[accCon] > 0 \/ eof[accCon]
                        THEN ready \cup {accCon} ELSE ready
       ELSE UNCHANGED <<registered, ready>>
    /\ accPc' = "loop"
    /\ accCon' = NoConn
    /\ UNCHANGED <<batch, backlog, inbox, eof>>
    /\ UNCHANGED <<connVars, runtimeVars, serverVars>>

(* A client's event whose slot has bit 63 set is dropped. *)
SkipDead(c) ==
    /\ Handling(c) /\ ~IsServerEvent(c)
    /\ slotDead[index[c]]
    /\ batch' = batch \ {c}
    /\ UNCHANGED <<accPc, accCon, netVars>>
    /\ UNCHANGED <<connVars, runtimeVars, serverVars>>

(* Otherwise the pointer in the slot is kept in the local client. *)
LoadClient(c) ==
    /\ Handling(c) /\ ~IsServerEvent(c)
    /\ ~slotDead[index[c]]
    /\ accCon' = slotCon[index[c]]
    /\ accPc' = "loaded"
    /\ batch' = batch \ {c}
    /\ UNCHANGED <<netVars, connVars, runtimeVars, serverVars>>

TakeClient ==
    /\ accPc = "loaded"
    /\ Usable(accCon)
    /\ Take(accCon)
    /\ accPc' = "taken"
    /\ UNCHANGED <<accCon, batch, netVars, runtimeVars, serverVars>>

(* Defect: nothing is dispatched once the keep-alive period has passed. *)
DispatchUnlessIdle ==
    /\ accPc = "taken"
    /\ Usable(accCon)
    /\ WasActive(accCon)
    /\ IF idle[accCon] THEN UNCHANGED runtimeVars ELSE Dispatch(accCon)
    /\ accPc' = "loop"
    /\ accCon' = NoConn
    /\ UNCHANGED <<batch, netVars, serverVars>>

(* was_active, then dispatch of on_read. *)
DispatchClient ==
    /\ accPc = "taken"
    /\ Usable(accCon)
    /\ WasActive(accCon)
    /\ Dispatch(accCon)
    /\ accPc' = "loop"
    /\ accCon' = NoConn
    /\ UNCHANGED <<batch, netVars, serverVars>>

(* The object was deleted after its slot was read. *)
AcceptorUsesFreed ==
    /\ accPc \in {"loaded", "taken"}
    /\ UseFreed(accCon)
    /\ UNCHANGED <<runtimeVars, serverVars, acceptorVars, netVars>>

-----------------------------------------------------------------------------
(* The sentinel thread of the object c.                                    *)

SentinelStart(c) ==
    /\ ~undefined
    /\ sentinel[c] = "start"
    /\ guarded' = [guarded EXCEPT ![c] = slotCon[index[c]]]
    /\ sentinel' = [sentinel EXCEPT ![c] = "watch"]
    /\ UNCHANGED <<slotCon, slotDead, index>>
    /\ UNCHANGED <<connVars, runtimeVars, acceptorVars, netVars>>

(* The test that ends the loop.  It is made under lock_, which only        *)
(* was_active competes for: idle cannot become false during it, closed_    *)
(* never does, so its last read of refs_ decides.                          *)
ReapableWhenClosed(c) ==   \* defect: the looser test of line 199
    (idle[c] /\ refs[c] <= 0) \/ closed[c]
Reapable(c) == (idle[c] /\ refs[c] <= 0) \/ (closed[c] /\ refs[c] <= 0)

(* Defect: the predicate is evaluated without lock_. *)
SentinelDecideUnlocked(c) ==
    /\ ~undefined
    /\ sentinel[c] = "watch"
    /\ Reapable(guarded[c])
    /\ sentinel' = [sentinel EXCEPT ![c] = "mark"]
    /\ UNCHANGED <<slotCon, slotDead, index, guarded>>
    /\ UNCHANGED <<connVars, runtimeVars, acceptorVars, netVars>>

(* Defect: the object is deleted before its slot is marked. *)
SentinelDecideDeleteFirst(c) ==
    /\ ~undefined
    /\ sentinel[c] = "watch"
    /\ guarded[c] \notin locked
    /\ Reapable(guarded[c])
    /\ sentinel' = [sentinel EXCEPT ![c] = "delete"]
    /\ UNCHANGED <<slotCon, slotDead, index, guarded>>
    /\ UNCHANGED <<connVars, runtimeVars, acceptorVars, netVars>>

SentinelDecide(c) ==
    /\ ~undefined
    /\ sentinel[c] = "watch"
    /\ guarded[c] \notin locked
    /\ Reapable(guarded[c])
    /\ sentinel' = [sentinel EXCEPT ![c] = "mark"]
    /\ UNCHANGED <<slotCon, slotDead, index, guarded>>
    /\ UNCHANGED <<connVars, runtimeVars, acceptorVars, netVars>>

(* Defect: the sentinel ends without deleting its object. *)
SentinelMarkOnly(c) ==
    /\ ~undefined
    /\ sentinel[c] = "mark"
    /\ slotDead' = [slotDead EXCEPT ![index[c]] = TRUE]
    /\ sentinel' = [sentinel EXCEPT ![c] = "none"]
    /\ UNCHANGED <<slotCon, index, guarded>>
    /\ UNCHANGED <<connVars, runtimeVars, acceptorVars, netVars>>

SentinelMark(c) ==
    /\ ~undefined
    /\ sentinel[c] = "mark"
    /\ slotCon' = [slotCon EXCEPT ![index[c]] = guarded[c]]
    /\ slotDead' = [slotDead EXCEPT ![index[c]] = TRUE]
    /\ sentinel' = [sentinel EXCEPT ![c] = "delete"]
    /\ UNCHANGED <<index, guarded>>
    /\ UNCHANGED <<connVars, runtimeVars, acceptorVars, netVars>>

(* delete con; closing its socket takes it out of the epoll set    *)
(* and discards what it has not read.                                      *)
SentinelDelete(c) ==
    /\ ~undefined
    /\ sentinel[c] = "delete"
    /\ Destroy(guarded[c])
    /\ sentinel' = [sentinel EXCEPT ![c] = "none"]
    /\ guarded' = [guarded EXCEPT ![c] = NoConn]
    /\ registered' = registered \ {guarded[c]}
    /\ ready' = ready \ {guarded[c]}
    /\ inbox' = [inbox EXCEPT ![guarded[c]] = 0]
    /\ eof' = [eof EXCEPT ![guarded[c]] = FALSE]
    /\ UNCHANGED <<slotCon, slotDead, index, backlog>>
    /\ UNCHANGED <<runtimeVars, acceptorVars>>

-----------------------------------------------------------------------------
(* The threads, as disjuncts of the next-state relation of an instance.    *)

Environment ==
    \/ Connect
    \/ \E c \in Conn : Send(c) \/ Hangup(c) \/ GoIdle(c)

Acceptor ==
    \/ EpollWait
    \/ EpollAdd
    \/ TakeClient
    \/ DispatchClient
    \/ AcceptorUsesFreed
    \/ \E e \in Conn \cup {Listener} :
        AcceptClient(e) \/ RejectClient(e) \/ AcceptAgain(e)
    \/ \E c \in Conn : SkipDead(c) \/ LoadClient(c)

Sentinel(c) ==
    SentinelStart(c) \/ SentinelDecide(c) \/ SentinelMark(c) \/ SentinelDelete(c)

-----------------------------------------------------------------------------
(* What holds whatever on_read does.                                       *)

(* A slot without bit 63 holds the object of the one sentinel that will    *)
(* free the slot, and that object exists; every such sentinel has its      *)
(* slot.  So find_if never hands out a slot somebody still owns, and a     *)
(* live slot never holds a dangling pointer.                               *)
SlotOwnership ==
    /\ \A i \in Slots : ~slotDead[i] =>
        /\ slotCon[i] \in allocated
        /\ index[slotCon[i]] = i
        /\ sentinel[slotCon[i]] \in {"start", "watch", "mark"}
    /\ \A c \in Conn : sentinel[c] \in {"start", "watch", "mark"} =>
        /\ slotCon[index[c]] = c
        /\ ~slotDead[index[c]]

(* Every object that exists has a sentinel that will delete it, and a      *)
(* sentinel only ever reads, marks and deletes the object it was started   *)
(* for, while that exists: no object is leaked or deleted twice.           *)
SentinelGuardsOwn ==
    /\ \A c \in Conn : c \in allocated <=> sentinel[c] # "none"
    /\ \A c \in Conn : sentinel[c] \in {"watch", "mark", "delete"} =>
        guarded[c] = c

(* Whom each slot belongs to.  The threads share the table without a lock: *)
(* the acceptor searches it and fills a slot, and the sentinels free slots *)
(* and delete objects, as SlotTable allows, in every order of their steps. *)
SlotOwner == [i \in Slots |-> IF slotDead[i] THEN NoConn ELSE slotCon[i]]

Table == INSTANCE SlotTable WITH owner <- SlotOwner, existing <- allocated

ImplementsTable == Table!Spec

(* The acceptor's own reference, between take and dispatch. *)
AcceptorHolds(c) == IF accPc = "taken" /\ accCon = c THEN 1 ELSE 0

(* What a comment of operator() says.                                      *)

(* "Event was dispatched for client that has already been deallocated":    *)
(* such events are skipped, so a client the acceptor goes on with exists.  *)
DeallocatedIsSkipped ==
    accPc \in {"loaded", "taken"} => accCon \in allocated
=============================================================================
