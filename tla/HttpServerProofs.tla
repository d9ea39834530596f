-------------------------- MODULE HttpServerProofs --------------------------
(***************************************************************************)
(* Theorems about HttpServer for every number of clients, slots, tasks and *)
(* workers, every descriptor number and every bound.  What does not depend *)
(* on on_read comes from ServerProofs.                                     *)
(***************************************************************************)
EXTENDS HttpServer, ServerProofs

USE ConnAssumption, RuntimeAssumption, ServerAssumption, HttpAssumption
    DEF ConnAssumption, RuntimeAssumption, ServerAssumption, HttpAssumption

(* The steps, apart from those of workers, as ServerProofs needs them. *)
LEMMA NextCases ==
  ASSUME [Next]_vars
  PROVE  \/ GenericStep /\ (UNCHANGED leaked \/ leaked' = LeaksOfAllocated)
         \/ FetchTask
         \/ \E t \in Task : Worker(t)
         \/ UNCHANGED vars
  BY DEF Next, Halted, GenericStep

(* A worker moves its own task t from one label to another and no other    *)
(* task, while the connection of that task exists.                         *)
LEMMA WorkerMoves ==
  ASSUME TypeOK, NEW t \in Task, Worker(t), ~TaskUsesFreed(t)
  PROVE  /\ UNCHANGED <<channel, allocated, accPc, accCon>>
         /\ taskPc[t] \notin {"none", "queued"}
         /\ taskCon[t] \in allocated
         /\ \A u \in Task \ {t} : taskPc'[u] = taskPc[u] /\ taskCon'[u] = taskCon[u]
  <1> USE DEF TypeOK, At, Usable, Goto, Return, others, connVars, serverVars,
              acceptorVars, Release, Take, Close
  <1>1. CASE Read(t) BY <1>1 DEF Read
  <1>2. CASE ReadEof(t) BY <1>2 DEF ReadEof
  <1>3. CASE CloseDead(t) BY <1>3 DEF CloseDead
  <1>4. CASE TakeForHandler(t) BY <1>4 DEF TakeForHandler
  <1>5. CASE Answer(t) BY <1>5 DEF Answer
  <1>6. CASE HandlerThrows(t) BY <1>6 DEF HandlerThrows
  <1>7. CASE ReleaseEvent(t) BY <1>7 DEF ReleaseEvent
  <1>8. CASE Notify(t) BY <1>8 DEF Notify
  <1> QED
    BY <1>1, <1>2, <1>3, <1>4, <1>5, <1>6, <1>7, <1>8 DEF Worker

-----------------------------------------------------------------------------
(* The state is well typed (the pointers of connection.hpp, server.hpp and *)
(* the tasks of runtime.cpp always are objects or null).                   *)
LEMMA TypeGeneric ==
  TypeOK <=> GenericTypeOK(TaskPcs) /\ leaked \in [Conn -> Nat]
  BY DEF TypeOK, GenericTypeOK

LEMMA TypeInit == Init => TypeOK
  BY GenericTypeInit, TypeGeneric DEF Init, TaskPcs

LEMMA TypeStep == TypeOK /\ [Next]_vars => TypeOK'
  <1> SUFFICES ASSUME TypeOK, [Next]_vars PROVE TypeOK'
    OBVIOUS
  <1>1. ASSUME GenericStep, UNCHANGED leaked \/ leaked' = LeaksOfAllocated
        PROVE  TypeOK'
    <2>1. GenericTypeOK(TaskPcs)'
      BY <1>1, TypeGeneric, EnvironmentType, AcceptorType, SentinelType
         DEF GenericStep, TaskPcs
    <2>2. leaked' \in [Conn -> Nat]
      BY <1>1 DEF LeaksOfAllocated, TypeOK
    <2> QED
      BY <2>1, <2>2 DEF TypeOK, GenericTypeOK
  <1> USE DEF TypeOK, ConnTypeOK, ServerTypeOK, TaskPcs
  <1> USE DEF connVars, runtimeVars, serverVars, acceptorVars, netVars, others
  <1>2. CASE FetchTask
    BY <1>2 DEF FetchTask, Fetch
  <1>3. ASSUME NEW t \in Task, Worker(t) PROVE TypeOK'
    <2>1. CASE Read(t)
      BY <2>1 DEF Read, At, Usable, Goto, Received
    <2>2. CASE ReadEof(t)
      BY <2>2 DEF ReadEof, At, Usable, Goto, Release
    <2>3. CASE CloseDead(t)
      BY <2>3 DEF CloseDead, At, Usable, Goto, Close
    <2>4. CASE TakeForHandler(t)
      BY <2>4 DEF TakeForHandler, At, Usable, Goto, Take
    <2>5. CASE Answer(t)
      BY <2>5 DEF Answer, At, Usable, Goto, Release
    <2>6. CASE HandlerThrows(t)
      BY <2>6 DEF HandlerThrows, At, Usable, Goto
    <2>7. CASE ReleaseEvent(t)
      BY <2>7 DEF ReleaseEvent, At, Usable, Goto, Release
    <2>8. CASE Notify(t)
      BY <2>8 DEF Notify, At, Usable, Return
    <2>9. CASE TaskUsesFreed(t)
      BY <2>9 DEF TaskUsesFreed, UseFreed
    <2> QED
      BY <1>3, <2>1, <2>2, <2>3, <2>4, <2>5, <2>6, <2>7, <2>8, <2>9 DEF Worker
  <1>4. CASE UNCHANGED vars
    BY <1>4 DEF vars
  <1> QED
    BY <1>1, <1>2, <1>3, <1>4, NextCases

THEOREM TypeCorrect == Spec => []TypeOK
  <1>1. Init => TypeOK
    BY TypeInit
  <1>2. TypeOK /\ [Next]_vars => TypeOK'
    BY TypeStep
  <1> QED
    BY <1>1, <1>2, PTL DEF Spec

-----------------------------------------------------------------------------
LEMMA SlotSteps == [Next]_vars => SlotStep
  <1> SUFFICES ASSUME [Next]_vars PROVE SlotStep
    OBVIOUS
  <1> USE DEF slotState, connVars, serverVars, others
  <1>1. ASSUME FetchTask PROVE UNCHANGED slotState
    BY <1>1 DEF FetchTask
  <1>2. ASSUME NEW t \in Task, Worker(t) PROVE UNCHANGED slotState
    BY <1>2 DEF Worker, Read, ReadEof, CloseDead, TakeForHandler, Answer,
                HandlerThrows, ReleaseEvent, Notify, TaskUsesFreed,
                UseFreed, Release, Close, Take
  <1>3. ASSUME UNCHANGED vars PROVE UNCHANGED slotState
    BY <1>3 DEF vars
  <1> QED
    BY <1>1, <1>2, <1>3, NextCases, GenericSlotStep DEF SlotStep

(* The slot table and the sentinels agree in every state. *)
LEMMA SlotInvHolds == Spec => []SlotInv
  <1>1. Init => SlotInv
    BY SlotInvInit DEF Init
  <1>2. TypeOK /\ SlotInv /\ [Next]_vars => SlotInv'
    BY SlotSteps, SlotInvStep DEF TypeOK
  <1> QED
    BY <1>1, <1>2, TypeCorrect, PTL DEF Spec

(* A live slot always belongs to exactly one existing object, and no live  *)
(* slot refers to one that was deleted.                                    *)
THEOREM SlotsAreOwned == Spec => []SlotOwnership
  <1>1. SlotInv => SlotOwnership
    BY DEF SlotInv
  <1> QED
    BY <1>1, SlotInvHolds, PTL

(* Every object that exists has a sentinel that will delete it, and a      *)
(* sentinel reads, marks and deletes the object that it was started for,   *)
(* however late its thread starts: none is leaked or deleted twice.        *)
THEOREM SentinelsGuardTheirOwn == Spec => []SentinelGuardsOwn
  <1>1. SlotInv => SentinelGuardsOwn
    BY DEF SlotInv
  <1> QED
    BY <1>1, SlotInvHolds, PTL

(* The server of src/servers/http.cpp implements SlotTable: whatever the   *)
(* acceptor, the sentinels and the workers do in which order, a slot is    *)
(* given to new objects only, while it is free, and an object is deleted   *)
(* once, after its slot was given back.                                    *)
THEOREM ImplementsSlotTable == Spec => ImplementsTable
  <1>1. Init => Table!Init
    BY TableInit DEF Init
  <1>2. TypeOK /\ SlotInv /\ [Next]_vars => [Table!Next]_(Table!vars)
    BY SlotSteps, TableStep DEF TypeOK
  <1>3. Spec => []SlotInv
    BY SlotInvHolds, PTL
  <1> QED
    BY <1>1, <1>2, <1>3, TypeCorrect, PTL DEF Spec, ImplementsTable, Table!Spec

-----------------------------------------------------------------------------
(* RefsCountHolders needs to know that no task is run twice, and so        *)
(* releases twice (ChannelInv); and that a new object starts without lost  *)
(* references.                                                             *)
LeaksAreOfLive == \A c \in Conn : c \notin allocated => leaked[c] = 0

RefsInv == ChannelInv /\ LeaksAreOfLive /\ RefsCountHolders

(* The holders as ServerProofs counts them. *)
HeldBy(c) == Held(Holding, {"handle"}, c)
Counted(c) == refs[c] = HeldBy(c) + leaked[c]

LEMMA CountedMeans == RefsCountHolders <=> \A c \in allocated : Counted(c)
  BY DEF RefsCountHolders, Counted, HeldBy, Held, TasksAt, EventHolders,
         HandlerHolders

LEMMA Labels == HoldingLabels(Holding, {"handle"})
  BY DEF HoldingLabels, Holding

LEMMA ChannelStep == TypeOK /\ ChannelInv /\ [Next]_vars => ChannelInv'
  <1> SUFFICES ASSUME TypeOK, ChannelInv, [Next]_vars PROVE ChannelInv'
    OBVIOUS
  <1>1. CASE GenericStep
    BY <1>1, TypeGeneric, ChannelGeneric
  <1>2. CASE FetchTask
    BY <1>2, ChannelFetch DEF FetchTask, TypeOK
  <1>3. ASSUME NEW t \in Task, Worker(t), ~TaskUsesFreed(t) PROVE ChannelInv'
    BY <1>3, WorkerMoves, ChannelKept DEF TypeOK
  <1>4. ASSUME NEW t \in Task, TaskUsesFreed(t) PROVE UNCHANGED runtimeVars
    BY <1>4 DEF TaskUsesFreed
  <1>5. ASSUME UNCHANGED vars PROVE UNCHANGED runtimeVars
    BY <1>5 DEF vars
  <1>6. CASE UNCHANGED runtimeVars
    BY <1>6, ChannelKept DEF TypeOK, runtimeVars
  <1> QED
    BY <1>1, <1>2, <1>3, <1>4, <1>5, <1>6, NextCases

LEMMA LeaksStep == TypeOK /\ LeaksAreOfLive /\ [Next]_vars => LeaksAreOfLive'
  <1> SUFFICES ASSUME TypeOK, LeaksAreOfLive, [Next]_vars PROVE LeaksAreOfLive'
    OBVIOUS
  <1> USE DEF TypeOK, ConnTypeOK
  <1>1. ASSUME UNCHANGED leaked, allocated \subseteq allocated'
        PROVE  LeaksAreOfLive'
    BY <1>1 DEF LeaksAreOfLive
  <1>2. ASSUME leaked' = LeaksOfAllocated PROVE LeaksAreOfLive'
    BY <1>2 DEF LeaksOfAllocated, LeaksAreOfLive
  <1>3. ASSUME Environment \/ Acceptor PROVE allocated \subseteq allocated'
    BY <1>3 DEF Environment, Connect, Send, Hangup, GoIdle, Expire, Acceptor,
                EpollWait, EpollAdd, TakeClient, Take, DispatchClient, WasActive,
                AcceptorUsesFreed, UseFreed, AcceptClient, Construct,
                RejectClient, AcceptAgain, SkipDead, LoadClient, connVars
  <1>4. ASSUME FetchTask \/ UNCHANGED vars
               \/ \E t \in Task : TaskUsesFreed(t)
        PROVE  UNCHANGED <<leaked, allocated>>
    BY <1>4 DEF FetchTask, TaskUsesFreed, UseFreed, vars, connVars, others
  <1>5. ASSUME NEW t \in Task, Worker(t), ~TaskUsesFreed(t)
        PROVE  LeaksAreOfLive'
    <2>1. allocated' = allocated /\ taskCon[t] \in allocated
      BY <1>5, WorkerMoves
    <2>2. \/ UNCHANGED leaked
          \/ leaked' = [leaked EXCEPT ![taskCon[t]] = @ + 1]
      BY <1>5 DEF Worker, Read, ReadEof, CloseDead, TakeForHandler, Answer,
                  HandlerThrows, ReleaseEvent, Notify, others
    <2> QED
      BY <2>1, <2>2 DEF LeaksAreOfLive
  <1> QED
    BY <1>1, <1>2, <1>3, <1>4, <1>5 DEF Next, Halted

(* The counting, one step at a time. *)
LEMMA CountGeneric ==
  ASSUME TypeOK, SlotInv, RefsInv, GenericStep,
         UNCHANGED leaked \/ leaked' = LeaksOfAllocated,
         NEW c \in Conn, c \in allocated'
  PROVE  Counted(c)'
  <1> DEFINE h == HeldBy(c)
             k == HeldBy(c)'
  <1>1. /\ refs'[c] \in Int
        /\ refs'[c] - k = IF c \in allocated THEN refs[c] - h ELSE 0
    BY TypeGeneric, Labels, HeldStep DEF HeldBy
  <1>2. h \in Nat /\ k \in Nat
    BY HeldNat DEF HeldBy
  <1>3. refs[c] \in Int /\ leaked[c] \in Nat /\ leaked'[c] = leaked[c]
    BY DEF TypeOK, ConnTypeOK, LeaksOfAllocated
  <1>4. IF c \in allocated THEN refs[c] = h + leaked[c] ELSE leaked[c] = 0
    BY CountedMeans DEF RefsInv, LeaksAreOfLive, Counted
  <1>5. refs'[c] = k + leaked'[c]
    <2> HIDE DEF h, k
    <2> QED
      BY <1>1, <1>2, <1>3, <1>4
  <1> QED
    BY <1>5 DEF Counted

LEMMA CountWorker ==
  ASSUME TypeOK, TypeOK', NEW t \in Task, Worker(t), ~TaskUsesFreed(t),
         NEW c \in Conn, Counted(c)
  PROVE  Counted(c)'
  <1> DEFINE d == taskCon[t]
             H == {"handle"}
             h == HeldBy(c)
             k == HeldBy(c)'
             E == Share(Holding, taskPc'[t], taskCon'[t], c)
                  - Share(Holding, taskPc[t], d, c)
             G == Share(H, taskPc'[t], taskCon'[t], c) - Share(H, taskPc[t], d, c)
  <1>1. /\ UNCHANGED <<accPc, accCon>>
        /\ \A u \in Task \ {t} : taskPc'[u] = taskPc[u] /\ taskCon'[u] = taskCon[u]
        /\ d \in allocated
    BY WorkerMoves
  <1>2. /\ d \in Conn /\ refs \in [Conn -> Int] /\ leaked \in [Conn -> Nat]
        /\ taskPc \in [Task -> TaskPcs]
        /\ taskCon \in [Task -> Conn \cup {NoConn}]
    BY <1>1 DEF TypeOK, ConnTypeOK
  <1>3. refs'[c] - refs[c] = E + G + (leaked'[c] - leaked[c])
    <2> USE <1>1, <1>2 DEF Share, Holding, At, Goto, Return,
                           Release, Take, Close, connVars, others
    <2>1. CASE Read(t) BY <2>1 DEF Read
    <2>2. CASE ReadEof(t) BY <2>2 DEF ReadEof
    <2>3. CASE CloseDead(t) BY <2>3 DEF CloseDead
    <2>4. CASE TakeForHandler(t) BY <2>4 DEF TakeForHandler
    <2>5. CASE Answer(t) BY <2>5 DEF Answer
    <2>6. CASE HandlerThrows(t) BY <2>6 DEF HandlerThrows
    <2>7. CASE ReleaseEvent(t) BY <2>7 DEF ReleaseEvent
    <2>8. CASE Notify(t) BY <2>8 DEF Notify
    <2> QED
      BY <2>1, <2>2, <2>3, <2>4, <2>5, <2>6, <2>7, <2>8 DEF Worker
  <1>4. h \in Nat /\ k \in Nat
    BY HeldNat DEF HeldBy
  <1>5. E \in Int /\ G \in Int
    BY DEF Share
  <1>6. k = h + E + G
    <2>1. k = h - Share(Holding, taskPc[t], d, c) - Share(H, taskPc[t], d, c)
              + Share(Holding, taskPc'[t], taskCon'[t], c)
              + Share(H, taskPc'[t], taskCon'[t], c)
      BY <1>1, HeldTask DEF HeldBy
    <2>2. \A L, pc, e : Share(L, pc, e, c) \in Nat
      BY DEF Share
    <2> HIDE DEF h, k, H, d
    <2> QED
      BY <2>1, <2>2, <1>4
  <1>7. /\ refs[c] \in Int /\ refs'[c] \in Int
        /\ leaked[c] \in Nat /\ leaked'[c] \in Nat
    BY DEF TypeOK, ConnTypeOK
  <1>8. refs[c] = h + leaked[c]
    BY DEF Counted
  <1>9. refs'[c] = k + leaked'[c]
    <2> HIDE DEF h, k, E, G
    <2> QED
      BY <1>3, <1>4, <1>5, <1>6, <1>7, <1>8
  <1> QED
    BY <1>9 DEF Counted

LEMMA CountStep ==
  ASSUME TypeOK, TypeOK', SlotInv, RefsInv, [Next]_vars
  PROVE  RefsCountHolders'
  <1> SUFFICES ASSUME NEW c \in Conn, c \in allocated' PROVE Counted(c)'
    BY CountedMeans DEF RefsCountHolders, Counted, HeldBy, Held, TasksAt,
                        EventHolders, HandlerHolders, TypeOK, ConnTypeOK
  <1>0. ASSUME c \in allocated PROVE Counted(c)
    BY <1>0, CountedMeans DEF RefsInv
  <1>1. ASSUME GenericStep, UNCHANGED leaked \/ leaked' = LeaksOfAllocated
        PROVE  Counted(c)'
    BY <1>1, CountGeneric
  <1>2. CASE FetchTask
    <2>1. UNCHANGED <<refs, allocated, leaked>>
      BY <1>2 DEF FetchTask, connVars, others
    <2>2. HeldBy(c)' = HeldBy(c)
      BY <1>2, TypeGeneric, Labels, HeldFetch
         DEF FetchTask, others, RefsInv, HeldBy
    <2> QED
      BY <1>0, <2>1, <2>2 DEF Counted
  <1>3. ASSUME NEW t \in Task, Worker(t), ~TaskUsesFreed(t) PROVE Counted(c)'
    <2>1. c \in allocated
      BY <1>3, WorkerMoves
    <2> QED
      BY <1>0, <1>3, <2>1, CountWorker
  <1>4. CASE UNCHANGED <<refs, allocated, leaked, runtimeVars, acceptorVars>>
    <2>1. HeldBy(c)' = HeldBy(c)
      BY <1>4 DEF HeldBy, Held, TasksAt, AcceptorHolds, runtimeVars, acceptorVars
    <2> QED
      BY <1>0, <1>4, <2>1 DEF Counted
  <1>5. ASSUME (\E t \in Task : TaskUsesFreed(t)) \/ UNCHANGED vars
        PROVE  UNCHANGED <<refs, allocated, leaked, runtimeVars, acceptorVars>>
    BY <1>5 DEF TaskUsesFreed, UseFreed, vars, connVars, others
  <1> QED
    BY <1>1, <1>2, <1>3, <1>4, <1>5, NextCases

(* use_count() is exact: for every number of tasks, clients and lost       *)
(* handlers, refs_ counts the events and handlers that hold the object.    *)
THEOREM RefsAreExact == Spec => []RefsCountHolders
  <1>1. Init => RefsInv
    <2> SUFFICES ASSUME Init PROVE RefsInv
      OBVIOUS
    <2>1. channel = << >> /\ allocated = {} /\ leaked = [c \in Conn |-> 0]
      BY DEF Init, RuntimeInit, ConnInit
    <2> QED
      BY <2>1 DEF RefsInv, ChannelInv, LeaksAreOfLive, RefsCountHolders
  <1>2. TypeOK /\ TypeOK' /\ SlotInv /\ RefsInv /\ [Next]_vars => RefsInv'
    BY ChannelStep, LeaksStep, CountStep DEF RefsInv
  <1>3. RefsInv => RefsCountHolders
    BY DEF RefsInv
  <1>4. Spec => []SlotInv
    BY SlotInvHolds, PTL
  <1> QED
    BY <1>1, <1>2, <1>3, <1>4, TypeCorrect, PTL DEF Spec

LEMMA HoldersFinite ==
  ASSUME NEW c
  PROVE  /\ IsFiniteSet(EventHolders(c)) /\ IsFiniteSet(HandlerHolders(c))
         /\ Cardinality(EventHolders(c)) \in Nat
         /\ Cardinality(HandlerHolders(c)) \in Nat
  <1>1. /\ EventHolders(c) = TasksAt(Holding, c)
        /\ HandlerHolders(c) = TasksAt({"handle"}, c)
    BY DEF EventHolders, HandlerHolders, TasksAt
  <1> QED
    BY <1>1, TasksFinite

(* A sentinel never decides to delete a connection that an event, a worker *)
(* or a handler still holds.                                               *)
THEOREM HeldIsNotReaped == Spec => DecideOnlyUnheld
  <1>1. ASSUME TypeOK, SlotInv, RefsCountHolders, [Next]_vars,
               NEW c \in Conn, sentinel[c] = "watch", sentinel'[c] = "mark"
        PROVE  /\ EventHolders(c) = {} /\ HandlerHolders(c) = {}
               /\ ~(accPc = "taken" /\ accCon = c)
    <2>1. SentinelDecide(c)
      BY <1>1, SlotSteps, DecideStep DEF TypeOK
    <2>2. guarded[c] = c /\ c \in allocated
      BY <1>1 DEF SlotInv, SentinelGuardsOwn
    <2>3. refs[c] <= 0
      BY <2>1, <2>2 DEF SentinelDecide, Reapable
    <2>4. /\ Cardinality(EventHolders(c)) \in Nat
          /\ Cardinality(HandlerHolders(c)) \in Nat
          /\ AcceptorHolds(c) \in Nat /\ leaked[c] \in Nat /\ refs[c] \in Int
      BY <1>1, HoldersFinite, HeldNat DEF TypeOK, ConnTypeOK
    <2>5. refs[c] = Cardinality(EventHolders(c)) + Cardinality(HandlerHolders(c))
                    + AcceptorHolds(c) + leaked[c]
      BY <1>1, <2>2 DEF RefsCountHolders
    <2>6. /\ Cardinality(EventHolders(c)) = 0
          /\ Cardinality(HandlerHolders(c)) = 0
          /\ AcceptorHolds(c) = 0
      <3>1. ASSUME NEW a \in Nat, NEW b \in Nat, NEW d \in Nat, NEW l \in Nat,
                   a + b + d + l <= 0
            PROVE  a = 0 /\ b = 0 /\ d = 0
        BY <3>1
      <3>2. Cardinality(EventHolders(c)) + Cardinality(HandlerHolders(c))
            + AcceptorHolds(c) + leaked[c] <= 0
        BY <2>3, <2>5
      <3> QED
        BY <3>1, <3>2, <2>4
    <2>7. EventHolders(c) = {} /\ HandlerHolders(c) = {}
      BY <2>6, HoldersFinite, FS_EmptySet
    <2> QED
      BY <2>6, <2>7 DEF AcceptorHolds
  <1>2. TypeOK /\ SlotInv /\ RefsCountHolders /\ [Next]_vars =>
          [\A c \in Conn : sentinel[c] = "watch" /\ sentinel'[c] = "mark" =>
              /\ EventHolders(c) = {} /\ HandlerHolders(c) = {}
              /\ ~(accPc = "taken" /\ accCon = c)]_vars
    BY <1>1
  <1>3. Spec => []SlotInv
    BY SlotInvHolds, PTL
  <1> QED
    BY <1>2, <1>3, RefsAreExact, TypeCorrect, PTL DEF Spec, DecideOnlyUnheld

-----------------------------------------------------------------------------
(* No edge of a client is lost between epoll and recv: an event finds its  *)
(* own connection by the slots, and the kernel's side of the registration  *)
(* is a part of the invariant.                                             *)

(* What UnreadIsNoticed needs of the epoll set and of the acceptor: only   *)
(* existing sockets are registered, so that a new object never inherits a  *)
(* registration, and the acceptor holds no client when it takes an event,  *)
(* so that the event's client does not displace another.                   *)
EventInv ==
    /\ registered \subseteq allocated
    /\ \A c \in Conn : inbox[c] <= MaxInbox
    /\ accPc = "loop" => accCon = NoConn
    /\ UnreadIsNoticed

(* An event of c is on its way, or nobody will handle it as one of c.      *)
Noticed(c) ==
    \/ c \in ready \cup batch \/ c = accCon
    \/ \E t \in Task : taskCon[t] = c /\ taskPc[t] \in {"queued", "read"}
    \/ index[c] = ServerFd \/ sentinel[c] = "delete"

LEMMA EventInvFacts ==
  ASSUME EventInv, ReadSize >= MaxInbox, ~undefined,
         NEW c \in registered, inbox[c] > 0
  PROVE  Noticed(c)
  BY DEF EventInv, UnreadIsNoticed, Noticed

LEMMA NoticedSuffices ==
  ASSUME ReadSize >= MaxInbox /\ ~undefined' =>
             \A c \in registered' : inbox'[c] > 0 => Noticed(c)'
  PROVE  UnreadIsNoticed'
  BY DEF UnreadIsNoticed, Noticed

LEMMA EventInit == Init => EventInv
  BY DEF Init, ConnInit, ServerInit, EventInv, UnreadIsNoticed

(* The side conditions of EventInv are kept by every step. *)
LEMMA RegistrationStep ==
  ASSUME TypeOK, SlotInv, EventInv, [Next]_vars
  PROVE  /\ registered' \subseteq allocated'
         /\ \A c \in Conn : inbox'[c] <= MaxInbox
         /\ accPc' = "loop" => accCon' = NoConn
  <1> DEFINE Kept == /\ registered' \subseteq allocated'
                     /\ \A c \in Conn : inbox'[c] <= MaxInbox
                     /\ accPc' = "loop" => accCon' = NoConn
  <1> SUFFICES Kept
    OBVIOUS
  <1> USE DEF TypeOK, ConnTypeOK, ServerTypeOK, EventInv
  <1> USE DEF connVars, runtimeVars, serverVars, acceptorVars, netVars, others
  <1>1. CASE Environment
    <2>1. ASSUME NEW c \in Conn, Send(c) PROVE Kept
      <3>1. inbox'[c] = inbox[c] + 1 /\ inbox[c] + 1 <= MaxInbox
        BY <2>1 DEF Send
      <3>2. \A d \in Conn : inbox'[d] <= MaxInbox
        BY <2>1, <3>1 DEF Send
      <3> QED
        BY <2>1, <3>2 DEF Send
    <2>2. CASE Connect \/ \E c \in Conn : Hangup(c) \/ GoIdle(c)
      BY <2>2 DEF Connect, Hangup, GoIdle, Expire
    <2> QED
      BY <1>1, <2>1, <2>2 DEF Environment
  <1>2. CASE EpollWait \/ EpollAdd \/ TakeClient \/ DispatchClient
             \/ AcceptorUsesFreed
    BY <1>2 DEF EpollWait, EpollAdd, TakeClient, Take, DispatchClient,
                WasActive, AcceptorUsesFreed, UseFreed
  <1>3. ASSUME NEW e \in Conn \cup {Listener},
               AcceptClient(e) \/ RejectClient(e) \/ AcceptAgain(e)
        PROVE  Kept
    <2>1. CASE AcceptClient(e)
      <3>1. PICK d \in Conn : /\ inbox' = [inbox EXCEPT ![d] = 0]
                              /\ allocated' = allocated \cup {d}
        BY <2>1 DEF AcceptClient, Construct
      <3>2. UNCHANGED registered /\ accPc' = "adding"
        BY <2>1 DEF AcceptClient
      <3> QED
        BY <3>1, <3>2
    <2>2. CASE RejectClient(e) \/ AcceptAgain(e)
      BY <2>2 DEF RejectClient, AcceptAgain
    <2> QED
      BY <1>3, <2>1, <2>2
  <1>4. ASSUME NEW c \in Conn, SkipDead(c) \/ LoadClient(c) PROVE Kept
    BY <1>4 DEF SkipDead, LoadClient
  <1>5. ASSUME NEW c \in Conn,
               SentinelStart(c) \/ SentinelDecide(c) \/ SentinelMark(c)
        PROVE  Kept
    BY <1>5 DEF SentinelStart, SentinelDecide, SentinelMark
  <1>6. ASSUME NEW c \in Conn, SentinelDelete(c) PROVE Kept
    <2>1. guarded[c] = c
      BY <1>6 DEF SentinelDelete, SlotInv, SentinelGuardsOwn
    <2> QED
      BY <1>6, <2>1 DEF SentinelDelete, Destroy
  <1>7. CASE FetchTask
    BY <1>7 DEF FetchTask
  <1>8. ASSUME NEW t \in Task, Read(t) PROVE Kept
    <2>1. PICK c \in Conn : inbox' = [inbox EXCEPT ![c] = @ - Received(@)]
      BY <1>8 DEF Read, At, Usable
    <2>2. inbox'[c] <= inbox[c]
      BY <2>1 DEF Received
    <2>3. inbox'[c] <= MaxInbox
      BY <2>1, <2>2 DEF Received
    <2> QED
      BY <1>8, <2>1, <2>3 DEF Read
  <1>9. ASSUME NEW t \in Task, Worker(t), ~Read(t) PROVE Kept
    BY <1>9 DEF Worker, ReadEof, CloseDead, TakeForHandler, Answer,
                HandlerThrows, ReleaseEvent, Notify, TaskUsesFreed,
                UseFreed, Release, Close, Take
  <1>10. CASE UNCHANGED vars
    BY <1>10 DEF vars
  <1> QED
    BY <1>1, <1>2, <1>3, <1>4, <1>5, <1>6, <1>7, <1>8, <1>9, <1>10
       DEF Next, Acceptor, Sentinel, Halted

(* Undefined behaviour is never undone. *)
LEMMA UndefinedStays ==
  ASSUME [Next]_vars, ~undefined' PROVE ~undefined
  <1> USE DEF connVars, runtimeVars, serverVars, acceptorVars, netVars, others
  <1>1. ASSUME NEW e \in Conn \cup {Listener}, AcceptClient(e) PROVE ~undefined
    BY <1>1 DEF AcceptClient, Handling
  <1>2. CASE \E c \in Conn : Sentinel(c)
    BY <1>2 DEF Sentinel, SentinelStart, SentinelDecide, SentinelMark,
                SentinelDelete
  <1>3. CASE Environment
    BY <1>3 DEF Environment, Connect, Send, Hangup, GoIdle, Usable
  <1>4. CASE FetchTask
    BY <1>4 DEF FetchTask
  <1>5. ASSUME NEW t \in Task, Worker(t) PROVE ~undefined
    BY <1>5 DEF Worker, Read, ReadEof, CloseDead, TakeForHandler, Answer,
                HandlerThrows, ReleaseEvent, Notify, TaskUsesFreed,
                UseFreed, At, Usable
  <1>6. CASE Acceptor
    BY <1>1, <1>6 DEF Acceptor, EpollWait, EpollAdd, TakeClient, DispatchClient,
         AcceptorUsesFreed, UseFreed, Usable, RejectClient, AcceptAgain, SkipDead,
         LoadClient, Handling
  <1>7. CASE UNCHANGED vars
    BY <1>7 DEF vars
  <1> QED
    BY <1>2, <1>3, <1>4, <1>5, <1>6, <1>7 DEF Next, Halted

(* The steps that can take an event of c out of Noticed(c): each puts it   *)
(* into the next place on its way, or has read what it announced.          *)
LEMMA NoticedStep ==
  ASSUME TypeOK, SlotInv, EventInv, [Next]_vars
  PROVE  UnreadIsNoticed'
  <1> SUFFICES ASSUME ReadSize >= MaxInbox, ~undefined',
                      NEW c \in registered', inbox'[c] > 0
               PROVE  Noticed(c)'
    BY NoticedSuffices
  <1> USE DEF TypeOK, ConnTypeOK, ServerTypeOK, TaskPcs
  <1> USE DEF connVars, runtimeVars, serverVars, acceptorVars, netVars, others
  <1>u. ~undefined
    BY UndefinedStays
  <1>o. ASSUME c \in registered, inbox[c] > 0 PROVE Noticed(c)
    BY <1>u, <1>o, EventInvFacts
  <1>l. accPc = "loop" => accCon = NoConn
    BY DEF EventInv
  <1>c. c \in Conn /\ c # NoConn /\ c # Listener
    <2>1. registered' \subseteq Conn
      BY TypeStep
    <2> QED
      BY <2>1
  <1>r. c \in registered => c \in allocated
    BY DEF EventInv
  <1>1. ASSUME NEW d \in Conn, Send(d) PROVE Noticed(c)'
    <2>1. CASE c = d
      BY <1>1, <2>1 DEF Send, Edge, Noticed
    <2>2. CASE c # d
      BY <1>1, <1>o, <2>2 DEF Send, Edge, Noticed
    <2> QED
      BY <2>1, <2>2
  <1>2. CASE Connect \/ \E d \in Conn : Hangup(d) \/ GoIdle(d)
    BY <1>2, <1>o DEF Connect, Hangup, GoIdle, Expire, Edge, Noticed
  <1>3. CASE EpollWait
    BY <1>3, <1>o DEF EpollWait, Noticed
  <1>4. CASE EpollAdd
    <2>1. CASE c = accCon
      BY <1>4, <1>o, <1>r, <2>1 DEF EpollAdd, Noticed
    <2>2. CASE c # accCon
      BY <1>4, <1>o, <2>2 DEF EpollAdd, Noticed
    <2> QED
      BY <2>1, <2>2
  <1>5. CASE TakeClient
    BY <1>5, <1>o DEF TakeClient, Take, Noticed
  <1>6. CASE DispatchClient
    <2>1. PICK t \in Task : /\ taskPc[t] = "none"
                            /\ taskPc' = [taskPc EXCEPT ![t] = "queued"]
                            /\ taskCon' = [taskCon EXCEPT ![t] = accCon]
      BY <1>6 DEF DispatchClient, Dispatch
    <2>2. UNCHANGED <<ready, batch, index, sentinel, registered, inbox>>
      BY <1>6 DEF DispatchClient
    <2>3. CASE c = accCon
      BY <2>1, <2>3 DEF Noticed
    <2>4. CASE c # accCon
      <3>1. ASSUME NEW u \in Task, taskCon[u] = c, taskPc[u] \in {"queued", "read"}
            PROVE  taskCon'[u] = c /\ taskPc'[u] \in {"queued", "read"}
        BY <2>1, <3>1
      <3> QED
        BY <1>o, <2>2, <2>4, <3>1 DEF Noticed
    <2> QED
      BY <2>3, <2>4
  <1>7. ASSUME NEW e \in Conn \cup {Listener}, AcceptClient(e) PROVE Noticed(c)'
    <2>1. PICK d \in Conn, i \in Slots :
            /\ d \notin allocated
            /\ inbox' = [inbox EXCEPT ![d] = 0]
            /\ index' = [index EXCEPT ![d] = i]
            /\ sentinel' = [sentinel EXCEPT ![d] = "start"]
      BY <1>7 DEF AcceptClient, Fresh
    <2>2. /\ UNCHANGED <<registered, ready, taskPc, taskCon>>
          /\ batch' = batch \ {e} /\ accPc = "loop" /\ IsServerEvent(e)
      BY <1>7 DEF AcceptClient, Handling
    <2>3. c # d /\ Noticed(c)
      BY <1>o, <1>r, <2>1, <2>2
    <2>4. e = c => index[c] = ServerFd
      BY <1>c, <2>2 DEF IsServerEvent
    <2> QED
      BY <1>l, <1>c, <2>1, <2>2, <2>3, <2>4 DEF Noticed
  <1>8. ASSUME NEW e \in Conn \cup {Listener}, RejectClient(e) \/ AcceptAgain(e)
        PROVE  Noticed(c)'
    <2>1. e = c => index[c] = ServerFd
      BY <1>8, <1>c DEF RejectClient, AcceptAgain, IsServerEvent
    <2> QED
      BY <1>8, <1>o, <2>1 DEF RejectClient, AcceptAgain, Noticed
  <1>9. ASSUME NEW e \in Conn, SkipDead(e) PROVE Noticed(c)'
    <2>1. c \in registered /\ Noticed(c)
      BY <1>9, <1>o DEF SkipDead
    <2>2. e = c => sentinel[c] = "delete"
      BY <1>9, <1>c, <1>r, <2>1 DEF SkipDead, SlotInv, SlotOwnership, SentinelGuardsOwn
    <2> QED
      BY <1>9, <2>1, <2>2 DEF SkipDead, Noticed
  <1>10. ASSUME NEW e \in Conn, LoadClient(e) PROVE Noticed(c)'
    <2>1. c \in registered /\ Noticed(c)
      BY <1>10, <1>o DEF LoadClient
    <2>2. e = c => slotCon[index[c]] = c \/ sentinel[c] = "delete"
      BY <1>c, <1>r, <2>1 DEF SlotInv, SlotOwnership, SentinelGuardsOwn
    <2>3. c # accCon
      BY <1>10, <1>c, <1>l DEF LoadClient, Handling
    <2> QED
      BY <1>10, <2>1, <2>2, <2>3 DEF LoadClient, Noticed
  <1>11. ASSUME NEW d \in Conn,
                SentinelStart(d) \/ SentinelDecide(d) \/ SentinelMark(d)
         PROVE  Noticed(c)'
    <2>1. UNCHANGED <<ready, batch, accCon, taskCon, taskPc, index, registered, inbox>>
      BY <1>11 DEF SentinelStart, SentinelDecide, SentinelMark
    <2>2. sentinel[c] = "delete" => sentinel'[c] = "delete"
      BY <1>11 DEF SentinelStart, SentinelDecide, SentinelMark
    <2> QED
      BY <1>o, <2>1, <2>2 DEF Noticed
  <1>12. ASSUME NEW d \in Conn, SentinelDelete(d) PROVE Noticed(c)'
    <2>1. guarded[d] = d
      BY <1>12 DEF SentinelDelete, SlotInv, SentinelGuardsOwn
    <2>2. c # d /\ c \in registered /\ inbox[c] > 0
      BY <1>12, <2>1 DEF SentinelDelete
    <2> QED
      BY <1>12, <1>o, <2>1, <2>2 DEF SentinelDelete, Noticed
  <1>13. CASE FetchTask
    <2>1. /\ UNCHANGED <<ready, batch, accCon, taskCon, index, registered, inbox,
                         sentinel>>
          /\ taskPc' = [taskPc EXCEPT ![Head(channel)] = "read"]
      BY <1>13 DEF FetchTask, Fetch
    <2>2. ASSUME NEW u \in Task, taskPc[u] \in {"queued", "read"}
          PROVE  taskPc'[u] \in {"queued", "read"}
      BY <2>1, <2>2
    <2> QED
      BY <1>o, <2>1, <2>2 DEF Noticed
  <1>14. ASSUME NEW t \in Task, Worker(t) PROVE Noticed(c)'
    <2>1. /\ UNCHANGED <<ready, batch, accCon, index, registered, sentinel>>
          /\ inbox[c] > 0
          /\ taskCon[t] = c => taskPc[t] # "read" \/ UNCHANGED taskPc
          /\ taskPc[t] # "queued" \/ UNCHANGED taskPc
          /\ taskPc' = taskPc \/ \E pc : taskPc' = [taskPc EXCEPT ![t] = pc]
          /\ taskCon' = taskCon \/ taskCon' = [taskCon EXCEPT ![t] = NoConn]
          /\ UNCHANGED taskPc => UNCHANGED taskCon
      <3> USE <1>14, <1>c
      <3>1. CASE Read(t)
        <4>1. inbox[taskCon[t]] <= ReadSize
          BY <3>1 DEF Read, At, Usable, EventInv
        <4>2. taskCon[t] # c
          BY <3>1, <4>1 DEF Read, At, Usable, Received
        <4> QED
          BY <3>1, <4>2 DEF Read, At, Usable, Goto
      <3>2. CASE ReadEof(t)
        <4>1. UNCHANGED <<ready, batch, accCon, index, registered, sentinel, inbox,
                          taskCon>>
          BY <3>2 DEF ReadEof, Goto
        <4>2. /\ taskPc[t] = "read" /\ taskCon[t] # c
              /\ taskPc' = [taskPc EXCEPT ![t] = "close"]
          BY <3>2, <4>1 DEF ReadEof, At, Goto
        <4> QED
          BY <4>1, <4>2
      <3>3. CASE Notify(t)
        BY <3>3 DEF Notify, At, Return
      <3>4. CASE CloseDead(t) \/ TakeForHandler(t) \/ Answer(t) \/ HandlerThrows(t) \/ ReleaseEvent(t)
        BY <3>4 DEF CloseDead, TakeForHandler, Answer, HandlerThrows, ReleaseEvent, At, Goto
      <3>5. CASE TaskUsesFreed(t)
        BY <3>5 DEF TaskUsesFreed, UseFreed
      <3> QED
        BY <3>1, <3>2, <3>3, <3>4, <3>5 DEF Worker
    <2>2. c \in registered /\ Noticed(c)
      BY <1>o, <2>1
    <2>3. ASSUME NEW u \in Task, taskCon[u] = c, taskPc[u] \in {"queued", "read"}
          PROVE  taskCon'[u] = c /\ taskPc'[u] \in {"queued", "read"}
      BY <2>1, <2>3
    <2> QED
      BY <2>1, <2>2, <2>3 DEF Noticed
  <1>15. CASE UNCHANGED vars
    BY <1>15, <1>o DEF vars, Noticed
  <1>16. CASE Environment
    BY <1>1, <1>2, <1>16 DEF Environment
  <1>17. CASE Acceptor
    <2>1. CASE AcceptorUsesFreed
      BY <2>1 DEF AcceptorUsesFreed, UseFreed
    <2> QED
      BY <1>3, <1>4, <1>5, <1>6, <1>7, <1>8, <1>9, <1>10, <1>17, <2>1 DEF Acceptor
  <1>18. ASSUME NEW d \in Conn, Sentinel(d) PROVE Noticed(c)'
    BY <1>11, <1>12, <1>18 DEF Sentinel
  <1> QED
    BY <1>13, <1>14, <1>15, <1>16, <1>17, <1>18 DEF Next, Halted

(* When the data of a client fits into one recv, whatever it has sent and  *)
(* nobody has read has an event on its way to a worker's recv.             *)
THEOREM UnreadHasEvent == Spec => []UnreadIsNoticed
  <1>1. TypeOK /\ SlotInv /\ EventInv /\ [Next]_vars => EventInv'
    BY RegistrationStep, NoticedStep DEF EventInv
  <1>2. EventInv => UnreadIsNoticed
    BY DEF EventInv
  <1>3. Spec => []SlotInv
    BY SlotInvHolds, PTL
  <1> QED
    BY <1>1, <1>2, <1>3, EventInit, TypeCorrect, PTL DEF Spec
=============================================================================
