---------------------------- MODULE HttpsServer ----------------------------
(***************************************************************************)
(* rite::server<https>: the generic server with on_read of src/https.cpp,  *)
(* for connections that negotiated h2.  A task keeps its connection: it    *)
(* reads under lock_, and SSL_read waits for data with the lock held; it   *)
(* processes what it got, drops a reference and starts over, until the     *)
(* peer is gone.                                                           *)
(*                                                                         *)
(* The HTTP/2 state machine (process) is abstracted to what a frame means  *)
(* for the connection object: nothing, a request, or an error that         *)
(* terminates it.  A handler answers, or throws and its callback is lost;  *)
(* when a deferred one does, on_read catches that, terminates and drops    *)
(* the packet: HandlerThrows, ProcessInvalid, PacketDone.  The calls of    *)
(* std::exit end the program and are not modelled.                         *)
(***************************************************************************)
EXTENDS Server, FiniteSetsExt

CONSTANTS
    MaxLeaks,   \* bound: handlers of one connection that throw
    MaxPackets  \* bound: packets that all peers have sent on their connections

ASSUME HttpsAssumption == MaxLeaks \in Nat /\ MaxPackets \in Nat

VARIABLES
    leaked,     \* handlers that threw: their take() is never released
    surplus     \* releases at the end of the loop body: one per packet

historyVars == <<leaked, surplus>>
vars == <<connVars, runtimeVars, serverVars, acceptorVars, netVars, historyVars>>

TaskPcs == {"none", "queued", "read", "reading", "process", "request",
            "handle", "release", "close", "unlock"}

TypeOK ==
    /\ ConnTypeOK
    /\ ServerTypeOK
    /\ channel \in Seq(Task)
    /\ taskPc \in [Task -> TaskPcs]
    /\ taskCon \in [Task -> Conn \cup {NoConn}]
    /\ leaked \in [Conn -> Nat]
    /\ surplus \in [Conn -> Nat]

Init ==
    /\ ConnInit
    /\ RuntimeInit
    /\ ServerInit
    /\ leaked = [c \in Conn |-> 0]
    /\ surplus = [c \in Conn |-> 0]

-----------------------------------------------------------------------------
At(t, pc) == taskPc[t] = pc /\ Usable(taskCon[t])

others == <<serverVars, acceptorVars, historyVars>>

LockForRead(t) ==
    /\ At(t, "read")
    /\ Lock(taskCon[t])
    /\ Goto(t, "reading")
    /\ UNCHANGED <<netVars, others>>

(* SSL_read returns data; the lock is given up before it is processed. *)
Read(t) ==
    /\ At(t, "reading")
    /\ inbox[taskCon[t]] > 0
    /\ inbox' = [inbox EXCEPT ![taskCon[t]] = @ - Received(@)]
    /\ Unlock(taskCon[t])
    /\ Goto(t, "process")
    /\ UNCHANGED <<backlog, registered, ready, eof, others>>

(* Defect: these early returns keep the event's reference. *)
ReadNothingKeeping(t) ==
    /\ At(t, "reading")
    /\ inbox[taskCon[t]] = 0
    /\ eof[taskCon[t]]
    /\ \E next \in {"close", "unlock"} : Goto(t, next)
    /\ UNCHANGED <<connVars, netVars, others>>

(* SSL_read returns 0, an orderly end, or less, an error; only the first   *)
(* closes the connection.  Both still hold the lock.                       *)
ReadNothing(t) ==
    /\ At(t, "reading")
    /\ inbox[taskCon[t]] = 0
    /\ eof[taskCon[t]]
    /\ Release(taskCon[t])
    /\ \E next \in {"close", "unlock"} : Goto(t, next)
    /\ UNCHANGED <<netVars, others>>

CloseDead(t) ==
    /\ At(t, "close")
    /\ Close(taskCon[t])
    /\ Goto(t, "unlock")
    /\ UNCHANGED <<netVars, others>>

UnlockAndReturn(t) ==
    /\ At(t, "unlock")
    /\ Unlock(taskCon[t])
    /\ Return(t)
    /\ UNCHANGED <<netVars, others>>

(* process() takes the lock for each frame.  It reports a new request ...  *)
ProcessRequest(t) ==
    /\ At(t, "process")
    /\ taskCon[t] \notin locked
    /\ Goto(t, "request")
    /\ UNCHANGED <<connVars, netVars, others>>

(* ... or terminates the connection; the loop over frames goes on.         *)
ProcessInvalid(t) ==
    /\ At(t, "process")
    /\ taskCon[t] \notin locked
    /\ ~closed[taskCon[t]]
    /\ Close(taskCon[t])
    /\ UNCHANGED <<runtimeVars, netVars, others>>

(* The packet is used up. *)
PacketDone(t) ==
    /\ At(t, "process")
    /\ Goto(t, "release")
    /\ UNCHANGED <<connVars, netVars, others>>

TakeForHandler(t) ==
    /\ At(t, "request")
    /\ Take(taskCon[t])
    /\ Goto(t, "handle")
    /\ UNCHANGED <<netVars, others>>

(* The finish callback writes the response under the lock and releases. *)
Answer(t) ==
    /\ At(t, "handle")
    /\ taskCon[t] \notin locked
    /\ Release(taskCon[t])
    /\ Goto(t, "process")
    /\ UNCHANGED <<netVars, others>>

HandlerThrows(t) ==
    /\ At(t, "handle")
    /\ leaked[taskCon[t]] < MaxLeaks
    /\ leaked' = [leaked EXCEPT ![taskCon[t]] = @ + 1]
    /\ Goto(t, "process")
    /\ UNCHANGED <<connVars, netVars, serverVars, acceptorVars, surplus>>

(* The release at the end of the loop body; the task goes on reading. *)
ReleasePacket(t) ==
    /\ At(t, "release")
    /\ Release(taskCon[t])
    /\ surplus' = [surplus EXCEPT ![taskCon[t]] = @ + 1]
    /\ Goto(t, "read")
    /\ UNCHANGED <<netVars, serverVars, acceptorVars, leaked>>

TaskUsesFreed(t) ==
    /\ t \in Running
    /\ UseFreed(taskCon[t])
    /\ UNCHANGED <<runtimeVars, netVars, others>>

FetchTask ==
    /\ ~undefined
    /\ Fetch
    /\ UNCHANGED <<connVars, netVars, others>>

-----------------------------------------------------------------------------
Worker(t) ==
    \/ LockForRead(t) \/ Read(t) \/ ReadNothing(t)
    \/ CloseDead(t) \/ UnlockAndReturn(t)
    \/ ProcessRequest(t) \/ ProcessInvalid(t) \/ PacketDone(t)
    \/ TakeForHandler(t) \/ Answer(t) \/ HandlerThrows(t)
    \/ ReleasePacket(t)
    \/ TaskUsesFreed(t)

(* The histories of an object end with it. *)
HistoryOfAllocated ==
    /\ leaked' = [c \in Conn |-> IF c \in allocated' THEN leaked[c] ELSE 0]
    /\ surplus' = [c \in Conn |-> IF c \in allocated' THEN surplus[c] ELSE 0]

Packets(c) == surplus[c] + inbox[c]

PeersWithinBound ==
    inbox' # inbox => MapThenSumSet(Packets, Conn) < MaxPackets

Halted == undefined /\ UNCHANGED vars

Next ==
    \/ Environment /\ PeersWithinBound /\ UNCHANGED historyVars
    \/ Acceptor /\ UNCHANGED historyVars
    \/ (\E e \in Conn \cup {Listener} : AcceptNothing(e)) /\ UNCHANGED historyVars
    \/ \E c \in Conn : Sentinel(c) /\ HistoryOfAllocated
    \/ FetchTask
    \/ \E t \in Task : Worker(t)
    \/ Halted

Spec == Init /\ [][Next]_vars

(* Every thread runs, and a packet has finitely many frames; a peer owes   *)
(* nobody an answer.                                                       *)
FairSpec ==
    /\ Spec
    /\ WF_vars(Acceptor /\ UNCHANGED historyVars)
    /\ WF_vars(FetchTask)
    /\ \A t \in Task : WF_vars(Worker(t)) /\ SF_vars(PacketDone(t))
    /\ \A c \in Conn : WF_vars(Sentinel(c) /\ HistoryOfAllocated)

-----------------------------------------------------------------------------
Holding == {"queued", "read", "reading", "process", "request", "handle", "release"}
EventHolders(c) == {t \in Task : taskCon[t] = c /\ taskPc[t] \in Holding}
HandlerHolders(c) == {t \in Task : taskCon[t] = c /\ taskPc[t] = "handle"}

(* What use_count() means here: the holders, minus one for every packet    *)
(* that was read.  It never exceeds what the holders took, so an object is *)
(* never kept by a reference nobody has; but it can fall short of it.      *)
RefsDrift ==
    \A c \in allocated :
        refs[c] = Cardinality(EventHolders(c)) + Cardinality(HandlerHolders(c))
                  + AcceptorHolds(c) + leaked[c] - surplus[c]

(* Tasks between the lock() of on_read and the end of its scope. *)
Readers(c) == {t \in Task : taskCon[t] = c /\ taskPc[t] \in {"reading", "close", "unlock"}}

(* on_read reads, releases and closes in one critical section: no two      *)
(* workers read one connection at once, and the sentinel never decides in  *)
(* between, so that release before close is harmless here.                 *)
ReadIsExclusive ==
    \A c \in Conn : Cardinality(Readers(c)) = IF c \in locked THEN 1 ELSE 0

NoDecisionWhileReading ==
    [][\A c \in Conn : sentinel[c] = "watch" /\ sentinel'[c] = "mark" =>
        Readers(c) = {}]_vars

-----------------------------------------------------------------------------
(* What comments and the README say.                                       *)

(* "Take up a new reference for the handler", "Release reference to allow  *)
(* the connection to drop": the connection does not drop before.           *)
HandlerKeepsConnection ==
    [][\A c \in Conn : sentinel[c] = "watch" /\ sentinel'[c] = "mark" =>
        HandlerHolders(c) = {}]_vars

(* "Asynchronous & concurrent by design": a packet that a worker has read  *)
(* is processed to its end, whatever the peer does next.                   *)
PacketIsProcessed ==
    \A t \in Task : taskPc[t] = "process" ~> (taskPc[t] = "release" \/ undefined)
=============================================================================
