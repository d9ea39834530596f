----------------------------- MODULE HttpServer -----------------------------
(***************************************************************************)
(* rite::server<http>: the generic server with on_read of                  *)
(* src/servers/http.cpp, whose accesses to the connection are its steps.   *)
(* One recv per event; on the socket, which stays blocking, it waits until *)
(* there is something to read.                                             *)
(*                                                                         *)
(* Parsing is abstracted to its verdict and the endpoint to its outcome:   *)
(* it answers (the finish callback runs, before handle returns), or its    *)
(* handler throws inside std::async, the exception dies with the discarded *)
(* future, and the callback never runs.                                    *)
(***************************************************************************)
EXTENDS Server

CONSTANT MaxLeaks   \* bound: handlers of one connection that throw

ASSUME HttpAssumption == MaxLeaks \in Nat

VARIABLE leaked     \* handlers that threw: their take() is never released

vars == <<connVars, runtimeVars, serverVars, acceptorVars, netVars, leaked>>

TaskPcs == {"none", "queued", "read", "close", "parsed", "handle",
            "release", "notify"}

TypeOK ==
    /\ ConnTypeOK
    /\ ServerTypeOK
    /\ channel \in Seq(Task)
    /\ taskPc \in [Task -> TaskPcs]
    /\ taskCon \in [Task -> Conn \cup {NoConn}]
    /\ leaked \in [Conn -> Nat]

Init ==
    /\ ConnInit
    /\ RuntimeInit
    /\ ServerInit
    /\ leaked = [c \in Conn |-> 0]

-----------------------------------------------------------------------------
(* Task t is at label pc and its connection can be dereferenced. *)
At(t, pc) == taskPc[t] = pc /\ Usable(taskCon[t])

others == <<serverVars, acceptorVars, leaked>>

(* recv returns data; the parser accepts it or not. *)
Read(t) ==
    /\ At(t, "read")
    /\ inbox[taskCon[t]] > 0
    /\ inbox' = [inbox EXCEPT ![taskCon[t]] = @ - Received(@)]
    /\ \E verdict \in {"parsed", "release"} : Goto(t, verdict)
    /\ UNCHANGED <<connVars, backlog, registered, ready, eof, others>>

(* Defect: this early return keeps the event's reference. *)
ReadEofKeeping(t) ==
    /\ At(t, "read")
    /\ inbox[taskCon[t]] = 0
    /\ eof[taskCon[t]]
    /\ Goto(t, "close")
    /\ UNCHANGED <<connVars, netVars, others>>

(* recv returns 0: release, and only then close. *)
ReadEof(t) ==
    /\ At(t, "read")
    /\ inbox[taskCon[t]] = 0
    /\ eof[taskCon[t]]
    /\ Release(taskCon[t])
    /\ Goto(t, "close")
    /\ UNCHANGED <<netVars, others>>

(* close stores to closed_, and then uses cv_ like release. *)
CloseDead(t) ==
    /\ At(t, "close")
    /\ Close(taskCon[t])
    /\ Goto(t, "notify")
    /\ UNCHANGED <<netVars, others>>

(* The reference of the finish callback. *)
TakeForHandler(t) ==
    /\ At(t, "parsed")
    /\ Take(taskCon[t])
    /\ Goto(t, "handle")
    /\ UNCHANGED <<netVars, others>>

(* Defect: the callback does not release. *)
AnswerKeeping(t) ==
    /\ At(t, "handle")
    /\ Goto(t, "release")
    /\ UNCHANGED <<connVars, netVars, others>>

(* The handler answers; the callback writes the response and releases. *)
Answer(t) ==
    /\ At(t, "handle")
    /\ Release(taskCon[t])
    /\ Goto(t, "release")
    /\ UNCHANGED <<netVars, others>>

HandlerThrows(t) ==
    /\ At(t, "handle")
    /\ leaked[taskCon[t]] < MaxLeaks
    /\ leaked' = [leaked EXCEPT ![taskCon[t]] = @ + 1]
    /\ Goto(t, "release")
    /\ UNCHANGED <<connVars, netVars, serverVars, acceptorVars>>

(* The event's own reference: refs_ is decremented first, cv_ is used      *)
(* after that.                                                             *)
ReleaseEvent(t) ==
    /\ At(t, "release")
    /\ Release(taskCon[t])
    /\ Goto(t, "notify")
    /\ UNCHANGED <<netVars, others>>

Notify(t) ==
    /\ At(t, "notify")
    /\ Return(t)
    /\ UNCHANGED <<connVars, netVars, others>>

(* A running task's connection has been deleted. *)
TaskUsesFreed(t) ==
    /\ t \in Running
    /\ UseFreed(taskCon[t])
    /\ UNCHANGED <<runtimeVars, netVars, others>>

FetchTask ==
    /\ ~undefined
    /\ Fetch
    /\ UNCHANGED <<connVars, netVars, others>>

-----------------------------------------------------------------------------
(* A lost reference disappears with its object. *)
LeaksOfAllocated ==
    [d \in Conn |-> IF d \in allocated' THEN leaked[d] ELSE 0]

Worker(t) ==
    \/ Read(t) \/ ReadEof(t) \/ CloseDead(t)
    \/ TakeForHandler(t) \/ Answer(t) \/ HandlerThrows(t)
    \/ ReleaseEvent(t) \/ Notify(t)
    \/ TaskUsesFreed(t)

(* Undefined behaviour has happened: the model follows it no further. *)
Halted == undefined /\ UNCHANGED vars

Next ==
    \/ Environment /\ UNCHANGED leaked
    \/ Acceptor /\ UNCHANGED leaked
    \/ \E c \in Conn : Sentinel(c) /\ leaked' = LeaksOfAllocated
    \/ FetchTask
    \/ \E t \in Task : Worker(t)
    \/ Halted

Spec == Init /\ [][Next]_vars

(* The operating system runs every thread, time passes, and the epoll      *)
(* ready list is served in rotation.  Peers may stop at any time.          *)
Fairness ==
    /\ WF_vars(Acceptor /\ UNCHANGED leaked)
    /\ WF_vars(FetchTask)
    /\ \A t \in Task : WF_vars(Worker(t))
    /\ \A c \in Conn :
        /\ WF_vars(Sentinel(c) /\ leaked' = LeaksOfAllocated)
        /\ WF_vars(GoIdle(c) /\ UNCHANGED leaked)
        /\ SF_vars(EpollWait /\ c \in batch' /\ UNCHANGED leaked)

FairSpec == Spec /\ Fairness

-----------------------------------------------------------------------------
(* Safety.                                                                 *)

(* Who holds how many references to c. *)
Holding == {"queued", "read", "parsed", "handle", "release"}
EventHolders(c) == {t \in Task : taskCon[t] = c /\ taskPc[t] \in Holding}
HandlerHolders(c) == {t \in Task : taskCon[t] = c /\ taskPc[t] = "handle"}

(* use_count() is the number of references in use: one for each event on   *)
(* its way from take() to the end of on_read, one for each handler whose   *)
(* finish callback is still to come, and those lost with a handler that    *)
(* threw.  Every early return of on_read gives back what it took.          *)
RefsCountHolders ==
    \A c \in allocated :
        refs[c] = Cardinality(EventHolders(c)) + Cardinality(HandlerHolders(c))
                  + AcceptorHolds(c) + leaked[c]

(* The sentinel never gives up a connection that an event or a handler     *)
(* still holds when it decides, however long the request takes.            *)
DecideOnlyUnheld ==
    [][\A c \in Conn : sentinel[c] = "watch" /\ sentinel'[c] = "mark" =>
        /\ EventHolders(c) = {} /\ HandlerHolders(c) = {}
        /\ ~(accPc = "taken" /\ accCon = c)]_vars

(* One recv for each edge is enough for clients whose data fits into it:   *)
(* whatever is unread has an event on its way, somewhere between epoll and *)
(* the recv of a worker, even if several arrivals shared an edge or one    *)
(* recv took what two events were for; unless the event was taken for one  *)
(* of the listener, or the connection is about to be deleted.              *)
UnreadIsNoticed ==
    ReadSize >= MaxInbox /\ ~undefined =>
        \A c \in registered : inbox[c] > 0 =>
            \/ c \in ready \cup batch \/ c = accCon
            \/ \E t \in Task : taskCon[t] = c /\ taskPc[t] \in {"queued", "read"}
            \/ index[c] = ServerFd \/ sentinel[c] = "delete"

-----------------------------------------------------------------------------
(* Liveness.                                                               *)

(* A connection whose peer has hung up is deleted in the end: through      *)
(* closed_ once a worker has read the end of file, and through the         *)
(* keep-alive period where no worker gets to; unless a handler that threw  *)
(* lost its reference.  Checked with one client at a time: the recv calls  *)
(* of other, silent clients can hold up all the workers.                   *)
HangupIsReaped ==
    \A c \in Conn : (c \in allocated /\ eof[c]) ~>
        (c \notin allocated \/ undefined \/ leaked[c] > 0)

-----------------------------------------------------------------------------
(* What the comments of server.hpp say.                                    *)

(* The branches "Server socket" and "Client event": a client's event is    *)
(* handled in the second, which loads its slot or skips it as dead.        *)
ClientEventsReachClients ==
    [][\A c \in Conn : c \in batch /\ c \notin batch' /\ accPc = "loop" =>
        accPc' = "loaded" \/ slotDead[index[c]]]_vars
=============================================================================
