-------------------------- MODULE HttpsServerProofs --------------------------
(***************************************************************************)
(* Theorems about HttpsServer for every number of clients, slots, tasks    *)
(* and workers and every bound.  What does not depend on on_read comes     *)
(* from ServerProofs.                                                      *)
(***************************************************************************)
EXTENDS HttpsServer, ServerProofs

USE ConnAssumption, RuntimeAssumption, ServerAssumption, HttpsAssumption
    DEF ConnAssumption, RuntimeAssumption, ServerAssumption, HttpsAssumption

(* The steps, apart from those of workers, as ServerProofs needs them. *)
LEMMA NextCases ==
  ASSUME [Next]_vars
  PROVE  \/ GenericStep /\ (UNCHANGED historyVars \/ HistoryOfAllocated)
         \/ FetchTask
         \/ \E t \in Task : Worker(t)
         \/ UNCHANGED vars
  BY DEF Next, Halted, GenericStep

(* A worker moves its own task t from one label to another and no other    *)
(* task, while the connection of that task exists.                         *)
LEMMA WorkerMoves ==
  ASSUME TypeOK, NEW t \in Task, Worker(t), ~TaskUsesFreed(t)
  PROVE  /\ UNCHANGED <<channel, allocated, accPc, accCon>>
         /\ taskPc[t] \notin {"none", "queued"}
         /\ taskCon[t] \in allocated
         /\ \A u \in Task \ {t} : taskPc'[u] = taskPc[u] /\ taskCon'[u] = taskCon[u]
  <1> USE DEF TypeOK, At, Usable, Goto, Return, others, connVars, serverVars,
              acceptorVars, runtimeVars, Release, Take, Close, Lock, Unlock
  <1>1. CASE LockForRead(t) BY <1>1 DEF LockForRead
  <1>2. CASE Read(t) BY <1>2 DEF Read
  <1>3. CASE ReadNothing(t) BY <1>3 DEF ReadNothing
  <1>4. CASE CloseDead(t) BY <1>4 DEF CloseDead
  <1>5. CASE UnlockAndReturn(t) BY <1>5 DEF UnlockAndReturn
  <1>6. CASE ProcessRequest(t) BY <1>6 DEF ProcessRequest
  <1>7. CASE ProcessInvalid(t) BY <1>7 DEF ProcessInvalid
  <1>8. CASE PacketDone(t) BY <1>8 DEF PacketDone
  <1>9. CASE TakeForHandler(t) BY <1>9 DEF TakeForHandler
  <1>10. CASE Answer(t) BY <1>10 DEF Answer
  <1>11. CASE HandlerThrows(t) BY <1>11 DEF HandlerThrows
  <1>12. CASE ReleasePacket(t) BY <1>12 DEF ReleasePacket
  <1> QED
    BY <1>1, <1>2, <1>3, <1>4, <1>5, <1>6, <1>7, <1>8, <1>9, <1>10, <1>11, <1>12
       DEF Worker

-----------------------------------------------------------------------------
LEMMA TypeGeneric ==
  TypeOK <=> /\ GenericTypeOK(TaskPcs)
             /\ leaked \in [Conn -> Nat] /\ surplus \in [Conn -> Nat]
  BY DEF TypeOK, GenericTypeOK

LEMMA TypeInit == Init => TypeOK
  BY GenericTypeInit, TypeGeneric DEF Init, TaskPcs

LEMMA TypeStep == TypeOK /\ [Next]_vars => TypeOK'
  <1> SUFFICES ASSUME TypeOK, [Next]_vars PROVE TypeOK'
    OBVIOUS
  <1>1. ASSUME GenericStep, UNCHANGED historyVars \/ HistoryOfAllocated
        PROVE  TypeOK'
    <2>1. GenericTypeOK(TaskPcs)'
      BY <1>1, TypeGeneric, EnvironmentType, AcceptorType, SentinelType
         DEF GenericStep, TaskPcs
    <2>2. leaked' \in [Conn -> Nat] /\ surplus' \in [Conn -> Nat]
      BY <1>1 DEF HistoryOfAllocated, TypeOK, historyVars
    <2> QED
      BY <2>1, <2>2 DEF TypeOK, GenericTypeOK
  <1> USE DEF TypeOK, ConnTypeOK, ServerTypeOK, TaskPcs
  <1> USE DEF connVars, runtimeVars, serverVars, acceptorVars, netVars, others,
              historyVars
  <1>2. CASE FetchTask
    BY <1>2 DEF FetchTask, Fetch
  <1>3. ASSUME NEW t \in Task, Worker(t) PROVE TypeOK'
    <2> USE DEF At, Usable, Goto
    <2>1. CASE LockForRead(t) BY <2>1 DEF LockForRead, Lock
    <2>2. CASE Read(t) BY <2>2 DEF Read, Received, Unlock
    <2>3. CASE ReadNothing(t) BY <2>3 DEF ReadNothing, Release
    <2>4. CASE CloseDead(t) BY <2>4 DEF CloseDead, Close
    <2>5. CASE UnlockAndReturn(t) BY <2>5 DEF UnlockAndReturn, Unlock, Return
    <2>6. CASE ProcessRequest(t) BY <2>6 DEF ProcessRequest
    <2>7. CASE ProcessInvalid(t) BY <2>7 DEF ProcessInvalid, Close
    <2>8. CASE PacketDone(t) BY <2>8 DEF PacketDone
    <2>9. CASE TakeForHandler(t) BY <2>9 DEF TakeForHandler, Take
    <2>10. CASE Answer(t) BY <2>10 DEF Answer, Release
    <2>11. CASE HandlerThrows(t) BY <2>11 DEF HandlerThrows
    <2>12. CASE ReleasePacket(t) BY <2>12 DEF ReleasePacket, Release
    <2>13. CASE TaskUsesFreed(t) BY <2>13 DEF TaskUsesFreed, UseFreed
    <2> QED
      BY <1>3, <2>1, <2>2, <2>3, <2>4, <2>5, <2>6, <2>7, <2>8, <2>9, <2>10,
         <2>11, <2>12, <2>13 DEF Worker
  <1>4. CASE UNCHANGED vars
    BY <1>4 DEF vars
  <1> QED
    BY <1>1, <1>2, <1>3, <1>4, NextCases

(* The state is well typed, whatever connections, tasks and packets do. *)
THEOREM TypeCorrect == Spec => []TypeOK
  <1>1. Init => TypeOK
    BY TypeInit
  <1>2. TypeOK /\ [Next]_vars => TypeOK'
    BY TypeStep
  <1> QED
    BY <1>1, <1>2, PTL DEF Spec

-----------------------------------------------------------------------------
LEMMA SlotSteps == [Next]_vars => SlotStep
  <1> SUFFICES ASSUME [Next]_vars PROVE SlotStep
    OBVIOUS
  <1> USE DEF slotState, connVars, serverVars, others
  <1>1. ASSUME FetchTask PROVE UNCHANGED slotState
    BY <1>1 DEF FetchTask
  <1>2. ASSUME NEW t \in Task, Worker(t) PROVE UNCHANGED slotState
    BY <1>2 DEF Worker, LockForRead, Read, ReadNothing, CloseDead,
                UnlockAndReturn, ProcessRequest, ProcessInvalid, PacketDone,
                TakeForHandler, Answer, HandlerThrows, ReleasePacket,
                TaskUsesFreed, UseFreed, Release, Close, Take, Lock, Unlock
  <1>3. ASSUME UNCHANGED vars PROVE UNCHANGED slotState
    BY <1>3 DEF vars
  <1> QED
    BY <1>1, <1>2, <1>3, NextCases, GenericSlotStep DEF SlotStep

(* The slot table and the sentinels agree in every state. *)
LEMMA SlotInvHolds == Spec => []SlotInv
  <1>1. Init => SlotInv
    BY SlotInvInit DEF Init
  <1>2. TypeOK /\ SlotInv /\ [Next]_vars => SlotInv'
    BY SlotSteps, SlotInvStep DEF TypeOK
  <1> QED
    BY <1>1, <1>2, TypeCorrect, PTL DEF Spec

(* A live slot always belongs to exactly one existing object, although     *)
(* on_accept may fail here and a task outlives the packets it was          *)
(* dispatched for.                                                         *)
THEOREM SlotsAreOwned == Spec => []SlotOwnership
  <1>1. SlotInv => SlotOwnership
    BY DEF SlotInv
  <1> QED
    BY <1>1, SlotInvHolds, PTL

(* Here too every object has a sentinel that deletes it and no other,      *)
(* although references are lost or given back too often.                   *)
THEOREM SentinelsGuardTheirOwn == Spec => []SentinelGuardsOwn
  <1>1. SlotInv => SentinelGuardsOwn
    BY DEF SlotInv
  <1> QED
    BY <1>1, SlotInvHolds, PTL

(* The server of src/https.cpp implements SlotTable, like that of          *)
(* src/servers/http.cpp.                                                   *)
THEOREM ImplementsSlotTable == Spec => ImplementsTable
  <1>1. Init => Table!Init
    BY TableInit DEF Init
  <1>2. TypeOK /\ SlotInv /\ [Next]_vars => [Table!Next]_(Table!vars)
    BY SlotSteps, TableStep DEF TypeOK
  <1>3. Spec => []SlotInv
    BY SlotInvHolds, PTL
  <1> QED
    BY <1>1, <1>2, <1>3, TypeCorrect, PTL DEF Spec, ImplementsTable, Table!Spec

-----------------------------------------------------------------------------
(* lock_ excludes: the readers of c are the tasks at ReadingLabels, and    *)
(* only a task that leaves "queued" enters "read" without having been a    *)
(* reader before.                                                          *)
ReadingLabels == {"reading", "close", "unlock"}

ReadersOf(c) == Cardinality(TasksAt(ReadingLabels, c))

LEMMA ReadersMean ==
  ASSUME NEW c
  PROVE  /\ Readers(c) = TasksAt(ReadingLabels, c)
         /\ IsFiniteSet(Readers(c))
         /\ ReadersOf(c) \in Nat /\ ReadersOf(c)' \in Nat
  <1>1. Readers(c) = TasksAt(ReadingLabels, c)
    BY DEF Readers, TasksAt, ReadingLabels
  <1> QED
    BY <1>1, TasksFinite DEF ReadersOf

LEMMA ReadersExcludeMeans ==
  ReadIsExclusive <=> \A c \in Conn : ReadersOf(c) = IF c \in locked THEN 1 ELSE 0
  BY ReadersMean DEF ReadIsExclusive, ReadersOf

LEMMA ChannelStep == TypeOK /\ ChannelInv /\ [Next]_vars => ChannelInv'
  <1> SUFFICES ASSUME TypeOK, ChannelInv, [Next]_vars PROVE ChannelInv'
    OBVIOUS
  <1>1. CASE GenericStep
    BY <1>1, TypeGeneric, ChannelGeneric
  <1>2. CASE FetchTask
    BY <1>2, ChannelFetch DEF FetchTask, TypeOK
  <1>3. ASSUME NEW t \in Task, Worker(t), ~TaskUsesFreed(t) PROVE ChannelInv'
    BY <1>3, WorkerMoves, ChannelKept DEF TypeOK
  <1>4. ASSUME NEW t \in Task, TaskUsesFreed(t) PROVE UNCHANGED runtimeVars
    BY <1>4 DEF TaskUsesFreed
  <1>5. ASSUME UNCHANGED vars PROVE UNCHANGED runtimeVars
    BY <1>5 DEF vars
  <1>6. CASE UNCHANGED runtimeVars
    BY <1>6, ChannelKept DEF TypeOK, runtimeVars
  <1> QED
    BY <1>1, <1>2, <1>3, <1>4, <1>5, <1>6, NextCases

(* The generic server neither locks nor moves a reader. *)
LEMMA ReadersGeneric ==
  ASSUME TypeOK, GenericStep, NEW c
  PROVE  locked' = locked /\ ReadersOf(c)' = ReadersOf(c)
  <1> USE DEF connVars, runtimeVars
  <1>1. CASE DispatchClient
    <2>1. PICK t \in Task : /\ taskPc[t] = "none"
                            /\ taskPc' = [taskPc EXCEPT ![t] = "queued"]
                            /\ taskCon' = [taskCon EXCEPT ![t] = accCon]
      BY <1>1 DEF DispatchClient, Dispatch
    <2>2. TasksAt(ReadingLabels, c)' = TasksAt(ReadingLabels, c)
      BY <2>1 DEF TypeOK, TasksAt, ReadingLabels
    <2> QED
      BY <1>1, <2>2 DEF DispatchClient, WasActive, ReadersOf
  <1>2. ASSUME Environment \/ EpollWait \/ EpollAdd \/ TakeClient
               \/ AcceptorUsesFreed
        PROVE  UNCHANGED <<runtimeVars, locked>>
    BY <1>2 DEF Environment, Connect, Send, Hangup, GoIdle, Expire, EpollWait,
                EpollAdd, TakeClient, Take, AcceptorUsesFreed, UseFreed
  <1>3. ASSUME NEW e, \/ AcceptClient(e) \/ RejectClient(e) \/ AcceptAgain(e)
                      \/ AcceptNothing(e) \/ SkipDead(e) \/ LoadClient(e)
        PROVE  UNCHANGED <<runtimeVars, locked>>
    BY <1>3 DEF AcceptClient, Construct, RejectClient, AcceptAgain,
                AcceptNothing, SkipDead, LoadClient
  <1>4. ASSUME NEW d, Sentinel(d) PROVE UNCHANGED <<runtimeVars, locked>>
    BY <1>4 DEF Sentinel, SentinelStart, SentinelDecide, SentinelMark,
                SentinelDelete, Destroy
  <1>5. ASSUME UNCHANGED <<runtimeVars, locked>>
        PROVE  locked' = locked /\ ReadersOf(c)' = ReadersOf(c)
    BY <1>5 DEF ReadersOf, TasksAt
  <1> QED
    BY <1>1, <1>2, <1>3, <1>4, <1>5 DEF GenericStep, Acceptor

LEMMA ReadersWorker ==
  ASSUME TypeOK, ReadIsExclusive, NEW t \in Task, Worker(t), ~TaskUsesFreed(t),
         NEW c \in Conn
  PROVE  ReadersOf(c)' = IF c \in locked' THEN 1 ELSE 0
  <1> DEFINE d == taskCon[t]
             n == ReadersOf(c)
             old == Share(ReadingLabels, taskPc[t], d, c)
             new == Share(ReadingLabels, taskPc'[t], taskCon'[t], c)
  <1>1. /\ \A u \in Task \ {t} : taskPc'[u] = taskPc[u] /\ taskCon'[u] = taskCon[u]
        /\ d \in allocated
    BY WorkerMoves
  <1>2. ReadersOf(c)' = n - old + new
    BY <1>1, TasksStep DEF ReadersOf
  <1>3. n \in Nat /\ n = IF c \in locked THEN 1 ELSE 0
    BY ReadersMean, ReadersExcludeMeans
  <1>4. (IF c \in locked' THEN 1 ELSE 0) =
          (IF c \in locked THEN 1 ELSE 0) - old + new
    <2> USE <1>1 DEF TypeOK, ConnTypeOK, Share, ReadingLabels, At, Goto, Return,
                     connVars, runtimeVars, others
    <2>1. ASSUME d = c, taskPc[t] \in ReadingLabels PROVE c \in locked
      (* a reader is counted, so the lock is held *)
      <3>1. t \in TasksAt(ReadingLabels, c)
        BY <2>1 DEF TasksAt
      <3>2. Cardinality(TasksAt(ReadingLabels, c)) # 0
        BY <3>1, TasksFinite, FS_EmptySet
      <3> QED
        BY <3>2, <1>3 DEF ReadersOf
    <2>2. CASE LockForRead(t) BY <2>2 DEF LockForRead, Lock
    <2>3. CASE Read(t) BY <2>1, <2>3 DEF Read, Unlock
    <2>4. CASE ReadNothing(t) BY <2>4 DEF ReadNothing, Release
    <2>5. CASE CloseDead(t) BY <2>5 DEF CloseDead, Close
    <2>6. CASE UnlockAndReturn(t) BY <2>1, <2>6 DEF UnlockAndReturn, Unlock
    <2>7. CASE ProcessRequest(t) BY <2>7 DEF ProcessRequest
    <2>8. CASE ProcessInvalid(t) BY <2>8 DEF ProcessInvalid, Close
    <2>9. CASE PacketDone(t) BY <2>9 DEF PacketDone
    <2>10. CASE TakeForHandler(t) BY <2>10 DEF TakeForHandler, Take
    <2>11. CASE Answer(t) BY <2>11 DEF Answer, Release
    <2>12. CASE HandlerThrows(t) BY <2>12 DEF HandlerThrows
    <2>13. CASE ReleasePacket(t) BY <2>13 DEF ReleasePacket, Release
    <2> QED
      BY <2>2, <2>3, <2>4, <2>5, <2>6, <2>7, <2>8, <2>9, <2>10, <2>11, <2>12,
         <2>13 DEF Worker
  <1> QED
    BY <1>2, <1>3, <1>4

(* For every number of workers: while one of them reads a connection, no   *)
(* other does, and lock_ is held exactly then.                             *)
THEOREM ReadersExclude == Spec => []ReadIsExclusive
  <1> DEFINE Inv == ChannelInv /\ ReadIsExclusive
  <1>1. Init => Inv
    <2> SUFFICES ASSUME Init PROVE Inv
      OBVIOUS
    <2>1. /\ channel = << >> /\ locked = {}
          /\ \A t \in Task : taskPc[t] = "none"
      BY DEF Init, RuntimeInit, ConnInit
    <2>2. \A c : Cardinality(Readers(c)) = 0
      <3>1. \A c : Readers(c) = {}
        BY <2>1 DEF Readers
      <3> QED
        BY <3>1, FS_EmptySet
    <2>3. ChannelInv
      BY <2>1 DEF ChannelInv
    <2> QED
      BY <2>1, <2>2, <2>3 DEF ReadIsExclusive
  <1>2. ASSUME TypeOK, Inv, [Next]_vars PROVE Inv'
    <2> USE <1>2
    <2>1. ChannelInv'
      BY ChannelStep
    <2>2. ASSUME \A c \in Conn : ReadersOf(c)' = IF c \in locked' THEN 1 ELSE 0
          PROVE  ReadIsExclusive'
      <3>1. \A c : Readers(c)' = TasksAt(ReadingLabels, c)'
        BY DEF Readers, TasksAt, ReadingLabels
      <3> QED
        BY <2>2, <3>1 DEF ReadIsExclusive, ReadersOf
    <2>3. \A c \in Conn : ReadersOf(c) = IF c \in locked THEN 1 ELSE 0
      BY ReadersExcludeMeans
    <2>4. ASSUME locked' = locked, \A c \in Conn : ReadersOf(c)' = ReadersOf(c)
          PROVE  ReadIsExclusive'
      BY <2>2, <2>3, <2>4
    <2>5. CASE GenericStep
      <3>1. \A c \in Conn : locked' = locked /\ ReadersOf(c)' = ReadersOf(c)
        BY <2>5, ReadersGeneric
      <3>2. Conn = {} => ReadIsExclusive'
        BY DEF ReadIsExclusive
      <3> QED
        BY <2>1, <2>4, <3>1, <3>2
    <2>6. CASE FetchTask
      <3>0. /\ channel \in Seq(Task) /\ taskPc \in [Task -> TaskPcs]
            /\ ChannelInv /\ Fetch
        BY <2>6 DEF FetchTask, TypeOK
      <3>1. taskPc[Head(channel)] = "queued"
        BY <3>0, ChannelFetch
      <3>2. /\ taskPc' = [taskPc EXCEPT ![Head(channel)] = "read"]
            /\ UNCHANGED <<taskCon, locked>>
        BY <2>6 DEF FetchTask, Fetch, connVars
      <3>3. \A c : TasksAt(ReadingLabels, c)' = TasksAt(ReadingLabels, c)
        BY <3>1, <3>2 DEF TasksAt, ReadingLabels, TypeOK
      <3>4. \A c : ReadersOf(c)' = ReadersOf(c)
        BY <3>3 DEF ReadersOf
      <3> QED
        BY <2>1, <2>4, <3>2, <3>4
    <2>7. ASSUME NEW t \in Task, Worker(t), ~TaskUsesFreed(t)
          PROVE  ReadIsExclusive'
      BY <2>2, <2>7, ReadersWorker
    <2>8. ASSUME (\E t \in Task : TaskUsesFreed(t)) \/ UNCHANGED vars
          PROVE  ReadIsExclusive'
      <3>1. UNCHANGED <<locked, taskPc, taskCon>>
        BY <2>8 DEF TaskUsesFreed, UseFreed, vars, connVars, runtimeVars
      <3>2. \A c : ReadersOf(c)' = ReadersOf(c)
        BY <3>1 DEF ReadersOf, TasksAt
      <3> QED
        BY <2>4, <3>1, <3>2
    <2> QED
      BY <2>1, <2>5, <2>6, <2>7, <2>8, NextCases
  <1>3. Inv => ReadIsExclusive
    OBVIOUS
  <1> HIDE DEF Inv
  <1> QED
    BY <1>1, <1>2, <1>3, TypeCorrect, PTL DEF Spec

(* A sentinel's decision and a worker's critical section exclude each      *)
(* other: between SSL_read and the end of its scope no sentinel can give   *)
(* the connection up, although release() is called before close().         *)
THEOREM ReadersAreNotReaped == Spec => NoDecisionWhileReading
  <1>1. ASSUME TypeOK, SlotInv, ReadIsExclusive, [Next]_vars,
               NEW c \in Conn, sentinel[c] = "watch", sentinel'[c] = "mark"
        PROVE  Readers(c) = {}
    <2>1. SentinelDecide(c)
      BY <1>1, SlotSteps, DecideStep DEF TypeOK
    <2>2. c \notin locked
      BY <1>1, <2>1 DEF SentinelDecide, SlotInv, SentinelGuardsOwn
    <2>3. Cardinality(Readers(c)) = 0
      BY <1>1, <2>2 DEF ReadIsExclusive
    <2> QED
      BY <2>3, ReadersMean, FS_EmptySet
  <1>2. TypeOK /\ SlotInv /\ ReadIsExclusive /\ [Next]_vars =>
          [\A c \in Conn : sentinel[c] = "watch" /\ sentinel'[c] = "mark" =>
              Readers(c) = {}]_vars
    BY <1>1
  <1>3. Spec => []SlotInv
    BY SlotInvHolds, PTL
  <1> QED
    BY <1>2, <1>3, ReadersExclude, TypeCorrect, PTL DEF Spec, NoDecisionWhileReading

-----------------------------------------------------------------------------
(* What refs_ is: the holders, less one for every packet read. *)
HistoriesAreOfLive ==
    \A c \in Conn : c \notin allocated => leaked[c] = 0 /\ surplus[c] = 0

RefsInv == ChannelInv /\ HistoriesAreOfLive /\ RefsDrift

HeldBy(c) == Held(Holding, {"handle"}, c)
Counted(c) == refs[c] = HeldBy(c) + leaked[c] - surplus[c]

LEMMA CountedMeans == RefsDrift <=> \A c \in allocated : Counted(c)
  BY DEF RefsDrift, Counted, HeldBy, Held, TasksAt, EventHolders, HandlerHolders

LEMMA Labels == HoldingLabels(Holding, {"handle"})
  BY DEF HoldingLabels, Holding

LEMMA HistoriesStep ==
  TypeOK /\ HistoriesAreOfLive /\ [Next]_vars => HistoriesAreOfLive'
  <1> SUFFICES ASSUME TypeOK, HistoriesAreOfLive, [Next]_vars
               PROVE  HistoriesAreOfLive'
    OBVIOUS
  <1> USE DEF TypeOK, ConnTypeOK, historyVars
  <1>1. ASSUME UNCHANGED historyVars, allocated \subseteq allocated'
        PROVE  HistoriesAreOfLive'
    BY <1>1 DEF HistoriesAreOfLive
  <1>2. ASSUME HistoryOfAllocated PROVE HistoriesAreOfLive'
    BY <1>2 DEF HistoryOfAllocated, HistoriesAreOfLive
  <1>3. ASSUME Environment \/ Acceptor
               \/ \E e \in Conn \cup {Listener} : AcceptNothing(e)
        PROVE  allocated \subseteq allocated'
    BY <1>3 DEF Environment, Connect, Send, Hangup, GoIdle, Expire, Acceptor,
                EpollWait, EpollAdd, TakeClient, Take, DispatchClient, WasActive,
                AcceptorUsesFreed, UseFreed, AcceptClient, Construct,
                RejectClient, AcceptAgain, AcceptNothing, SkipDead, LoadClient,
                connVars
  <1>4. ASSUME FetchTask \/ UNCHANGED vars
               \/ \E t \in Task : TaskUsesFreed(t)
        PROVE  UNCHANGED <<historyVars, allocated>>
    BY <1>4 DEF FetchTask, TaskUsesFreed, UseFreed, vars, connVars, others
  <1>5. ASSUME NEW t \in Task, Worker(t), ~TaskUsesFreed(t)
        PROVE  HistoriesAreOfLive'
    <2>1. allocated' = allocated /\ taskCon[t] \in allocated
      BY <1>5, WorkerMoves
    <2>2. /\ leaked' = leaked \/ leaked' = [leaked EXCEPT ![taskCon[t]] = @ + 1]
          /\ surplus' = surplus \/ surplus' = [surplus EXCEPT ![taskCon[t]] = @ + 1]
      BY <1>5 DEF Worker, LockForRead, Read, ReadNothing, CloseDead,
                  UnlockAndReturn, ProcessRequest, ProcessInvalid, PacketDone,
                  TakeForHandler, Answer, HandlerThrows, ReleasePacket, others
    <2> QED
      BY <2>1, <2>2 DEF HistoriesAreOfLive
  <1> QED
    BY <1>1, <1>2, <1>3, <1>4, <1>5 DEF Next, Halted

LEMMA CountGeneric ==
  ASSUME TypeOK, SlotInv, RefsInv, GenericStep,
         UNCHANGED historyVars \/ HistoryOfAllocated,
         NEW c \in Conn, c \in allocated'
  PROVE  Counted(c)'
  <1> DEFINE h == HeldBy(c)
             k == HeldBy(c)'
  <1>1. /\ refs'[c] \in Int
        /\ refs'[c] - k = IF c \in allocated THEN refs[c] - h ELSE 0
    BY TypeGeneric, Labels, HeldStep DEF HeldBy
  <1>2. h \in Nat /\ k \in Nat
    BY HeldNat DEF HeldBy
  <1>3. /\ refs[c] \in Int /\ leaked[c] \in Nat /\ surplus[c] \in Nat
        /\ leaked'[c] = leaked[c] /\ surplus'[c] = surplus[c]
    BY DEF TypeOK, ConnTypeOK, HistoryOfAllocated, historyVars
  <1>4. IF c \in allocated THEN refs[c] = h + leaked[c] - surplus[c]
        ELSE leaked[c] = 0 /\ surplus[c] = 0
    BY CountedMeans DEF RefsInv, HistoriesAreOfLive, Counted
  <1>5. refs'[c] = k + leaked'[c] - surplus'[c]
    <2> HIDE DEF h, k
    <2> QED
      BY <1>1, <1>2, <1>3, <1>4
  <1> QED
    BY <1>5 DEF Counted

LEMMA CountWorker ==
  ASSUME TypeOK, TypeOK', NEW t \in Task, Worker(t), ~TaskUsesFreed(t),
         NEW c \in Conn, Counted(c)
  PROVE  Counted(c)'
  <1> DEFINE d == taskCon[t]
             H == {"handle"}
             h == HeldBy(c)
             k == HeldBy(c)'
             E == Share(Holding, taskPc'[t], taskCon'[t], c)
                  - Share(Holding, taskPc[t], d, c)
             G == Share(H, taskPc'[t], taskCon'[t], c) - Share(H, taskPc[t], d, c)
  <1>1. /\ UNCHANGED <<accPc, accCon>>
        /\ \A u \in Task \ {t} : taskPc'[u] = taskPc[u] /\ taskCon'[u] = taskCon[u]
        /\ d \in allocated
    BY WorkerMoves
  <1>2. /\ d \in Conn /\ refs \in [Conn -> Int]
        /\ leaked \in [Conn -> Nat] /\ surplus \in [Conn -> Nat]
        /\ taskPc \in [Task -> TaskPcs]
        /\ taskCon \in [Task -> Conn \cup {NoConn}]
    BY <1>1 DEF TypeOK, ConnTypeOK
  <1>3. refs'[c] - refs[c] =
          E + G + (leaked'[c] - leaked[c]) - (surplus'[c] - surplus[c])
    <2> USE <1>1, <1>2 DEF Share, Holding, At, Goto, Return, connVars,
                           runtimeVars, others, historyVars
    <2>1. CASE LockForRead(t) BY <2>1 DEF LockForRead, Lock
    <2>2. CASE Read(t) BY <2>2 DEF Read, Unlock
    <2>3. CASE ReadNothing(t) BY <2>3 DEF ReadNothing, Release
    <2>4. CASE CloseDead(t) BY <2>4 DEF CloseDead, Close
    <2>5. CASE UnlockAndReturn(t) BY <2>5 DEF UnlockAndReturn, Unlock
    <2>6. CASE ProcessRequest(t) BY <2>6 DEF ProcessRequest
    <2>7. CASE ProcessInvalid(t) BY <2>7 DEF ProcessInvalid, Close
    <2>8. CASE PacketDone(t) BY <2>8 DEF PacketDone
    <2>9. CASE TakeForHandler(t) BY <2>9 DEF TakeForHandler, Take
    <2>10. CASE Answer(t) BY <2>10 DEF Answer, Release
    <2>11. CASE HandlerThrows(t) BY <2>11 DEF HandlerThrows
    <2>12. CASE ReleasePacket(t) BY <2>12 DEF ReleasePacket, Release
    <2> QED
      BY <2>1, <2>2, <2>3, <2>4, <2>5, <2>6, <2>7, <2>8, <2>9, <2>10, <2>11,
         <2>12 DEF Worker
  <1>4. h \in Nat /\ k \in Nat
    BY HeldNat DEF HeldBy
  <1>5. E \in Int /\ G \in Int
    BY DEF Share
  <1>6. k = h + E + G
    <2>1. k = h - Share(Holding, taskPc[t], d, c) - Share(H, taskPc[t], d, c)
              + Share(Holding, taskPc'[t], taskCon'[t], c)
              + Share(H, taskPc'[t], taskCon'[t], c)
      BY <1>1, HeldTask DEF HeldBy
    <2>2. \A L, pc, e : Share(L, pc, e, c) \in Nat
      BY DEF Share
    <2> HIDE DEF h, k, H, d
    <2> QED
      BY <2>1, <2>2, <1>4
  <1>7. /\ refs[c] \in Int /\ refs'[c] \in Int
        /\ leaked[c] \in Nat /\ leaked'[c] \in Nat
        /\ surplus[c] \in Nat /\ surplus'[c] \in Nat
    BY DEF TypeOK, ConnTypeOK
  <1>8. refs[c] = h + leaked[c] - surplus[c]
    BY DEF Counted
  <1>9. refs'[c] = k + leaked'[c] - surplus'[c]
    <2> HIDE DEF h, k, E, G
    <2> QED
      BY <1>3, <1>4, <1>5, <1>6, <1>7, <1>8
  <1> QED
    BY <1>9 DEF Counted

(* What the reference count of an HTTP/2 connection really is, for every   *)
(* number of workers, packets and lost handlers: it misses one for every   *)
(* packet that was read, and nothing else.                                 *)
THEOREM RefsMissOnePerPacket == Spec => []RefsDrift
  <1>1. Init => RefsInv
    <2> SUFFICES ASSUME Init PROVE RefsInv
      OBVIOUS
    <2>1. /\ channel = << >> /\ allocated = {}
          /\ leaked = [c \in Conn |-> 0] /\ surplus = [c \in Conn |-> 0]
      BY DEF Init, RuntimeInit, ConnInit
    <2> QED
      BY <2>1 DEF RefsInv, ChannelInv, HistoriesAreOfLive, RefsDrift
  <1>2. ASSUME TypeOK, TypeOK', SlotInv, RefsInv, [Next]_vars PROVE RefsInv'
    <2> USE <1>2
    <2>1. ChannelInv' /\ HistoriesAreOfLive'
      BY ChannelStep, HistoriesStep DEF RefsInv
    <2>2. ASSUME NEW c \in Conn, c \in allocated' PROVE Counted(c)'
      <3>0. ASSUME c \in allocated PROVE Counted(c)
        BY <3>0, CountedMeans DEF RefsInv
      <3>1. ASSUME GenericStep, UNCHANGED historyVars \/ HistoryOfAllocated
            PROVE  Counted(c)'
        BY <2>2, <3>1, CountGeneric
      <3>2. CASE FetchTask
        <4>1. UNCHANGED <<refs, allocated, leaked, surplus>>
          BY <3>2 DEF FetchTask, connVars, others, historyVars
        <4>2. HeldBy(c)' = HeldBy(c)
          BY <3>2, TypeGeneric, Labels, HeldFetch
             DEF FetchTask, others, RefsInv, HeldBy
        <4> QED
          BY <2>2, <3>0, <4>1, <4>2 DEF Counted
      <3>3. ASSUME NEW t \in Task, Worker(t), ~TaskUsesFreed(t) PROVE Counted(c)'
        <4>1. c \in allocated
          BY <2>2, <3>3, WorkerMoves
        <4> QED
          BY <3>0, <3>3, <4>1, CountWorker
      <3>4. CASE UNCHANGED <<refs, allocated, historyVars, runtimeVars, acceptorVars>>
        <4>1. HeldBy(c)' = HeldBy(c)
          BY <3>4 DEF HeldBy, Held, TasksAt, AcceptorHolds, runtimeVars, acceptorVars
        <4> QED
          BY <2>2, <3>0, <3>4, <4>1 DEF Counted, historyVars
      <3>5. ASSUME (\E t \in Task : TaskUsesFreed(t)) \/ UNCHANGED vars
            PROVE  UNCHANGED <<refs, allocated, historyVars, runtimeVars, acceptorVars>>
        BY <3>5 DEF TaskUsesFreed, UseFreed, vars, connVars, others
      <3> QED
        BY <3>1, <3>2, <3>3, <3>4, <3>5, NextCases
    <2>3. RefsDrift'
      BY <2>2 DEF RefsDrift, Counted, HeldBy, Held, TasksAt, EventHolders,
                  HandlerHolders, TypeOK, ConnTypeOK
    <2> QED
      BY <2>1, <2>3 DEF RefsInv
  <1>3. RefsInv => RefsDrift
    BY DEF RefsInv
  <1>4. Spec => []SlotInv
    BY SlotInvHolds, PTL
  <1> QED
    BY <1>1, <1>2, <1>3, <1>4, TypeCorrect, PTL DEF Spec
=============================================================================
