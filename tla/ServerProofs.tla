---------------------------- MODULE ServerProofs ----------------------------
(***************************************************************************)
(* What can be proved of server<T> without knowing on_read: types, the     *)
(* slot table, and that it implements SlotTable.  HttpServerProofs and     *)
(* HttpsServerProofs cite these lemmas for the steps of their instances.   *)
(***************************************************************************)
EXTENDS Server, FiniteSetTheorems, TLAPS

USE ConnAssumption, RuntimeAssumption, ServerAssumption
    DEF ConnAssumption, RuntimeAssumption, ServerAssumption

(* The types of the generic part, for tasks with any set of labels Pcs     *)
(* that includes those at which every task begins.                         *)
GenericTypeOK(Pcs) ==
    /\ ConnTypeOK
    /\ ServerTypeOK
    /\ channel \in Seq(Task)
    /\ taskPc \in [Task -> Pcs]
    /\ taskCon \in [Task -> Conn \cup {NoConn}]

LEMMA GenericTypeInit ==
  ASSUME NEW Pcs, "none" \in Pcs, ConnInit, RuntimeInit, ServerInit
  PROVE  GenericTypeOK(Pcs)
  <1>1. ConnTypeOK
    <2>1. allocated \subseteq Conn /\ locked \subseteq Conn /\ undefined \in BOOLEAN
      BY DEF ConnInit
    <2>2. refs \in [Conn -> Int]
      BY DEF ConnInit
    <2>3. closed \in [Conn -> BOOLEAN] /\ idle \in [Conn -> BOOLEAN]
      BY DEF ConnInit
    <2> QED
      BY <2>1, <2>2, <2>3 DEF ConnTypeOK
  <1>2. ServerTypeOK
    BY FS_EmptySet DEF ServerInit, ServerTypeOK, Slots
  <1>3. channel \in Seq(Task) /\ taskPc \in [Task -> Pcs]
    BY DEF RuntimeInit
  <1>4. taskCon \in [Task -> Conn \cup {NoConn}]
    BY DEF RuntimeInit
  <1> QED
    BY <1>1, <1>2, <1>3, <1>4 DEF GenericTypeOK

LEMMA EnvironmentType ==
  ASSUME NEW Pcs, GenericTypeOK(Pcs), Environment
  PROVE  GenericTypeOK(Pcs)'
  <1> USE DEF GenericTypeOK, ConnTypeOK, ServerTypeOK
  <1> USE DEF connVars, runtimeVars, serverVars, acceptorVars, netVars
  <1>1. CASE Connect
    BY <1>1 DEF Connect
  <1>2. ASSUME NEW c \in Conn, Send(c) PROVE GenericTypeOK(Pcs)'
    BY <1>2 DEF Send, Edge
  <1>3. ASSUME NEW c \in Conn, Hangup(c) PROVE GenericTypeOK(Pcs)'
    BY <1>3 DEF Hangup, Edge
  <1>4. ASSUME NEW c \in Conn, GoIdle(c) PROVE GenericTypeOK(Pcs)'
    BY <1>4 DEF GoIdle, Expire
  <1> QED
    BY <1>1, <1>2, <1>3, <1>4 DEF Environment

(* Taking an event leaves room in events. *)
LEMMA BatchStep ==
  ASSUME ServerTypeOK, NEW e, batch' = batch \ {e}
  PROVE  batch' \subseteq Conn \cup {Listener} /\ Cardinality(batch') <= MaxConnections
  <1>1. batch \subseteq Conn \cup {Listener} /\ Cardinality(batch) <= MaxConnections
    BY DEF ServerTypeOK
  <1>2. IsFiniteSet(Conn \cup {Listener})
    BY AddressAssumption, FS_AddElement
  <1>3. IsFiniteSet(batch)
    BY <1>1, <1>2, FS_Subset
  <1>4. /\ Cardinality(batch) \in Nat /\ Cardinality(batch') \in Nat
        /\ Cardinality(batch') <= Cardinality(batch)
    BY <1>3, FS_Subset, FS_CardinalityType
  <1>5. MaxConnections \in Nat
    OBVIOUS
  <1> QED
    BY <1>1, <1>4, <1>5

LEMMA AcceptorType ==
  ASSUME NEW Pcs, {"none", "queued"} \subseteq Pcs, GenericTypeOK(Pcs),
         Acceptor \/ \E e \in Conn \cup {Listener} : AcceptNothing(e)
  PROVE  GenericTypeOK(Pcs)'
  <1> USE DEF GenericTypeOK, ConnTypeOK, ServerTypeOK
  <1> USE DEF connVars, runtimeVars, serverVars, acceptorVars, netVars
  <1>1. CASE EpollWait
    BY <1>1 DEF EpollWait, Available
  <1>2. CASE EpollAdd
    BY <1>2 DEF EpollAdd
  <1>3. CASE TakeClient
    BY <1>3 DEF TakeClient, Take, Usable
  <1>4. CASE DispatchClient
    BY <1>4 DEF DispatchClient, WasActive, Dispatch, Usable
  <1>5. CASE AcceptorUsesFreed
    BY <1>5 DEF AcceptorUsesFreed, UseFreed
  <1>6. ASSUME NEW e \in Conn \cup {Listener}, AcceptClient(e)
        PROVE  GenericTypeOK(Pcs)'
    <2>1. batch' = batch \ {e}
      BY <1>6 DEF AcceptClient
    <2>2. batch' \subseteq Conn \cup {Listener} /\ Cardinality(batch') <= MaxConnections
      BY <2>1, BatchStep
    <2> HIDE DEF ServerTypeOK
    <2>3. ConnTypeOK' /\ UNCHANGED runtimeVars
      BY <1>6 DEF AcceptClient, Construct
    <2>4. ServerTypeOK'
      BY <1>6, <2>2 DEF ServerTypeOK, AcceptClient
    <2> QED
      BY <2>3, <2>4
  <1>7. ASSUME NEW e \in Conn \cup {Listener},
               RejectClient(e) \/ AcceptAgain(e) \/ AcceptNothing(e)
        PROVE  GenericTypeOK(Pcs)'
    <2>1. batch' = batch \ {e}
      BY <1>7 DEF RejectClient, AcceptAgain, AcceptNothing
    <2>2. batch' \subseteq Conn \cup {Listener} /\ Cardinality(batch') <= MaxConnections
      BY <2>1, BatchStep
    <2> QED
      BY <1>7, <2>2 DEF RejectClient, AcceptAgain, AcceptNothing
  <1>8. ASSUME NEW c \in Conn, SkipDead(c) \/ LoadClient(c)
        PROVE  GenericTypeOK(Pcs)'
    BY <1>8, BatchStep DEF SkipDead, LoadClient
  <1> QED
    BY <1>1, <1>2, <1>3, <1>4, <1>5, <1>6, <1>7, <1>8 DEF Acceptor

LEMMA SentinelType ==
  ASSUME NEW Pcs, GenericTypeOK(Pcs), NEW c \in Conn, Sentinel(c)
  PROVE  GenericTypeOK(Pcs)'
  <1> USE DEF GenericTypeOK, ConnTypeOK, ServerTypeOK
  <1> USE DEF connVars, runtimeVars, serverVars, acceptorVars, netVars
  <1>1. CASE SentinelStart(c)
    BY <1>1 DEF SentinelStart
  <1>2. CASE SentinelDecide(c)
    BY <1>2 DEF SentinelDecide
  <1>3. CASE SentinelMark(c)
    BY <1>3 DEF SentinelMark
  <1>4. CASE SentinelDelete(c)
    <2>1. refs' \in [Conn -> Int]
      <3>1. refs' = [refs EXCEPT ![guarded[c]] = 0]
        BY <1>4 DEF SentinelDelete, Destroy
      <3>2. CASE guarded[c] \in Conn
        BY <3>1, <3>2
      <3>3. CASE guarded[c] = NoConn
        <4>1. refs' = refs
          BY <3>1, <3>3
        <4> QED
          BY <4>1
      <3> QED
        BY <3>2, <3>3
    <2>2. ConnTypeOK'
      BY <1>4, <2>1 DEF SentinelDelete, Destroy
    <2>3. ServerTypeOK'
      BY <1>4 DEF SentinelDelete
    <2> QED
      BY <1>4, <2>2, <2>3 DEF SentinelDelete
  <1> QED
    BY <1>1, <1>2, <1>3, <1>4 DEF Sentinel

-----------------------------------------------------------------------------
(* SlotOwnership and SentinelGuardsOwn are inductive together: the owner   *)
(* of a live slot must be the only object with that slot number, and the   *)
(* sentinel that frees the slot must be the one it belongs to.             *)

SlotInv == SlotOwnership /\ SentinelGuardsOwn

slotState == <<slotCon, slotDead, index, sentinel, guarded, allocated>>

(* The steps that take part in the life of a slot. *)
SlotStep ==
    \/ UNCHANGED slotState
    \/ \E e \in Conn \cup {Listener} : AcceptClient(e)
    \/ \E c \in Conn : \/ SentinelStart(c) \/ SentinelDecide(c)
                       \/ SentinelMark(c) \/ SentinelDelete(c)

(* The steps of the generic server are of that kind. *)
GenericStep ==
    \/ Environment \/ Acceptor
    \/ \E e \in Conn \cup {Listener} : AcceptNothing(e)
    \/ \E c \in Conn : Sentinel(c)

LEMMA GenericSlotStep == GenericStep => SlotStep
  <1> USE DEF slotState, connVars, runtimeVars, serverVars, acceptorVars, netVars
  <1>1. ASSUME Environment PROVE UNCHANGED slotState
    BY <1>1 DEF Environment, Connect, Send, Hangup, GoIdle, Expire
  <1>2. ASSUME EpollWait \/ EpollAdd \/ TakeClient \/ DispatchClient
               \/ AcceptorUsesFreed
        PROVE  UNCHANGED slotState
    BY <1>2 DEF EpollWait, EpollAdd, TakeClient, Take, DispatchClient,
                WasActive, AcceptorUsesFreed, UseFreed
  <1>3. ASSUME NEW e, RejectClient(e) \/ AcceptAgain(e) \/ AcceptNothing(e)
                      \/ SkipDead(e) \/ LoadClient(e)
        PROVE  UNCHANGED slotState
    BY <1>3 DEF RejectClient, AcceptAgain, AcceptNothing, SkipDead, LoadClient
  <1> QED
    BY <1>1, <1>2, <1>3 DEF GenericStep, Acceptor, Sentinel, SlotStep

(* Only the sentinel's own decision takes it from "watch" to "mark". *)
LEMMA DecideStep ==
  ASSUME ServerTypeOK, SlotStep,
         NEW c \in Conn, sentinel[c] = "watch", sentinel'[c] = "mark"
  PROVE  SentinelDecide(c)
  <1> USE DEF ServerTypeOK
  <1>1. ~UNCHANGED slotState
    BY DEF slotState
  <1>2. ASSUME NEW e, AcceptClient(e) PROVE sentinel'[c] # "mark"
    BY <1>2 DEF AcceptClient
  <1>3. ASSUME NEW d \in Conn,
               SentinelStart(d) \/ SentinelMark(d) \/ SentinelDelete(d)
        PROVE  sentinel'[c] # "mark"
    BY <1>3 DEF SentinelStart, SentinelMark, SentinelDelete
  <1>4. ASSUME NEW d \in Conn, SentinelDecide(d) PROVE d = c
    BY <1>4 DEF SentinelDecide
  <1> QED
    BY <1>1, <1>2, <1>3, <1>4 DEF SlotStep

LEMMA SlotInvInit == ConnInit /\ ServerInit => SlotInv
  BY DEF ConnInit, ServerInit, SlotInv, SlotOwnership, SentinelGuardsOwn

LEMMA SlotInvStep ==
  ASSUME ConnTypeOK, ServerTypeOK, SlotInv, SlotStep
  PROVE  SlotInv'
  <1> USE DEF ServerTypeOK, ConnTypeOK
  <1>1. CASE UNCHANGED slotState
    BY <1>1 DEF slotState, SlotInv, SlotOwnership, SentinelGuardsOwn
  <1>2. ASSUME NEW e \in Conn \cup {Listener}, AcceptClient(e) PROVE SlotInv'
    <2>1. PICK c \in Conn, i \in Slots :
            /\ sentinel[c] = "none"
            /\ slotDead[i]
            /\ allocated' = allocated \cup {c}
            /\ slotCon' = [slotCon EXCEPT ![i] = c]
            /\ slotDead' = [slotDead EXCEPT ![i] = FALSE]
            /\ index' = [index EXCEPT ![c] = i]
            /\ sentinel' = [sentinel EXCEPT ![c] = "start"]
      BY <1>2 DEF AcceptClient, Fresh, FirstDead, Construct
    <2>2. UNCHANGED guarded
      BY <1>2 DEF AcceptClient
    <2>3. SlotOwnership'
      BY <2>1 DEF SlotInv, SlotOwnership
    <2>4. SentinelGuardsOwn'
      BY <2>1, <2>2 DEF SlotInv, SentinelGuardsOwn
    <2> QED
      BY <2>3, <2>4 DEF SlotInv
  <1>3. ASSUME NEW c \in Conn, SentinelStart(c) PROVE SlotInv'
    <2>1. slotCon[index[c]] = c
      BY <1>3 DEF SentinelStart, SlotInv, SlotOwnership
    <2> QED
      BY <1>3, <2>1 DEF SentinelStart, SlotInv, SlotOwnership,
                        SentinelGuardsOwn, connVars
  <1>4. ASSUME NEW c \in Conn, SentinelDecide(c) PROVE SlotInv'
    BY <1>4 DEF SentinelDecide, SlotInv, SlotOwnership, SentinelGuardsOwn,
                connVars
  <1>5. ASSUME NEW c \in Conn, SentinelMark(c) PROVE SlotInv'
    <2>1. guarded[c] = c /\ slotCon[index[c]] = c
      BY <1>5 DEF SentinelMark, SlotInv, SlotOwnership, SentinelGuardsOwn
    <2>2. SlotOwnership'
      BY <1>5, <2>1 DEF SentinelMark, SlotInv, SlotOwnership, connVars
    <2>3. SentinelGuardsOwn'
      BY <1>5 DEF SentinelMark, SlotInv, SentinelGuardsOwn, connVars
    <2> QED
      BY <2>2, <2>3 DEF SlotInv
  <1>6. ASSUME NEW c \in Conn, SentinelDelete(c) PROVE SlotInv'
    <2>1. guarded[c] = c
      BY <1>6 DEF SentinelDelete, SlotInv, SentinelGuardsOwn
    <2> QED
      BY <1>6, <2>1 DEF SentinelDelete, Destroy, SlotInv, SlotOwnership,
                        SentinelGuardsOwn
  <1> QED
    BY <1>1, <1>2, <1>3, <1>4, <1>5, <1>6 DEF SlotStep

-----------------------------------------------------------------------------
(* The simulation of SlotTable: a client that is accepted occupies a slot, *)
(* a sentinel's store of bit 63 vacates it, and the other steps stutter,   *)
(* those of a sentinel before its decision included.                       *)
LEMMA TableInit == ConnInit /\ ServerInit => Table!Init
  BY DEF ConnInit, ServerInit, Table!Init, SlotOwner

LEMMA TableStep ==
  ASSUME ConnTypeOK, ServerTypeOK, SlotInv, SlotStep
  PROVE  [Table!Next]_(Table!vars)
  <1> USE DEF ServerTypeOK, ConnTypeOK
  <1>1. ASSUME UNCHANGED <<slotCon, slotDead, allocated>>
        PROVE  UNCHANGED Table!vars
    BY <1>1 DEF Table!vars, SlotOwner
  <1>2. ASSUME NEW e \in Conn \cup {Listener}, AcceptClient(e)
        PROVE  \E i \in Slots, c \in Conn : Table!Occupy(i, c)
    <2>1. PICK c \in Conn, i \in Slots :
            /\ c \notin allocated
            /\ slotDead[i]
            /\ allocated' = allocated \cup {c}
            /\ slotCon' = [slotCon EXCEPT ![i] = c]
            /\ slotDead' = [slotDead EXCEPT ![i] = FALSE]
      BY <1>2 DEF AcceptClient, Fresh, FirstDead, Construct
    <2>2. SlotOwner[i] = NoConn /\ SlotOwner' = [SlotOwner EXCEPT ![i] = c]
      BY <2>1 DEF SlotOwner
    <2>3. Table!Occupy(i, c)
      BY <2>1, <2>2 DEF Table!Occupy
    <2> QED
      BY <2>3
  <1>3. ASSUME NEW c \in Conn, SentinelMark(c) PROVE Table!Vacate(index[c])
    <2>1. /\ guarded[c] = c /\ slotCon[index[c]] = c /\ ~slotDead[index[c]]
          /\ index[c] \in Slots
      BY <1>3 DEF SentinelMark, SlotInv, SlotOwnership, SentinelGuardsOwn
    <2>2. /\ SlotOwner[index[c]] # NoConn
          /\ SlotOwner' = [SlotOwner EXCEPT ![index[c]] = NoConn]
      BY <1>3, <2>1 DEF SentinelMark, SlotOwner
    <2>3. UNCHANGED allocated
      BY <1>3 DEF SentinelMark, connVars
    <2> QED
      BY <2>2, <2>3 DEF Table!Vacate
  <1>4. ASSUME NEW c \in Conn, SentinelDelete(c) PROVE Table!Delete(c)
    <2>1. guarded[c] = c /\ c \in allocated /\ sentinel[c] = "delete"
      BY <1>4 DEF SentinelDelete, SlotInv, SentinelGuardsOwn
    <2>2. \A i \in Slots : SlotOwner[i] # c
      BY <2>1 DEF SlotOwner, SlotInv, SlotOwnership
    <2>3. allocated' = allocated \ {c} /\ UNCHANGED SlotOwner
      BY <1>4, <2>1 DEF SentinelDelete, Destroy, SlotOwner
    <2> QED
      BY <2>1, <2>2, <2>3 DEF Table!Delete
  <1>5. ASSUME NEW c \in Conn, SentinelStart(c) \/ SentinelDecide(c)
        PROVE  UNCHANGED <<slotCon, slotDead, allocated>>
    BY <1>5 DEF SentinelStart, SentinelDecide, connVars
  <1>6. CASE UNCHANGED slotState
    BY <1>1, <1>6 DEF slotState
  <1>7. ASSUME NEW c \in Conn PROVE index[c] \in Slots
    OBVIOUS
  <1> QED
    BY <1>1, <1>2, <1>3, <1>4, <1>5, <1>6, <1>7 DEF SlotStep, Table!Next

-----------------------------------------------------------------------------
(* The tasks of c at the labels L.  What the instances count, the holders  *)
(* of references and the readers, is of this form; a step of one task      *)
(* changes their number by that task's share.                              *)
TasksAt(L, c) == {t \in Task : taskCon[t] = c /\ taskPc[t] \in L}
Share(L, pc, d, c) == IF d = c /\ pc \in L THEN 1 ELSE 0

(* A set that differs from another in one element at most. *)
LEMMA CardinalityStep ==
  ASSUME NEW S, NEW T, NEW x, IsFiniteSet(S), IsFiniteSet(T), S \ {x} = T \ {x}
  PROVE  Cardinality(T) = Cardinality(S) - (IF x \in S THEN 1 ELSE 0)
                          + (IF x \in T THEN 1 ELSE 0)
  <1>1. /\ Cardinality(S) \in Nat /\ Cardinality(T) \in Nat
        /\ Cardinality(S \ {x}) = IF x \in S THEN Cardinality(S) - 1
                                  ELSE Cardinality(S)
        /\ Cardinality(T \ {x}) = IF x \in T THEN Cardinality(T) - 1
                                  ELSE Cardinality(T)
    BY FS_RemoveElement, FS_CardinalityType
  <1> QED
    BY <1>1

LEMMA TasksFinite ==
  ASSUME NEW L, NEW c
  PROVE  /\ IsFiniteSet(TasksAt(L, c)) /\ IsFiniteSet(TasksAt(L, c)')
         /\ Cardinality(TasksAt(L, c)) \in Nat
         /\ Cardinality(TasksAt(L, c)') \in Nat
  <1>1. TasksAt(L, c) \subseteq Task /\ TasksAt(L, c)' \subseteq Task
    BY DEF TasksAt
  <1>2. ASSUME NEW S, S \subseteq Task
        PROVE  IsFiniteSet(S) /\ Cardinality(S) \in Nat
    BY <1>2, FS_Subset, FS_CardinalityType
  <1> QED
    BY <1>1, <1>2

LEMMA TasksStep ==
  ASSUME NEW t \in Task, NEW L, NEW c,
         \A u \in Task \ {t} : taskPc'[u] = taskPc[u] /\ taskCon'[u] = taskCon[u]
  PROVE  Cardinality(TasksAt(L, c)') =
           Cardinality(TasksAt(L, c)) - Share(L, taskPc[t], taskCon[t], c)
           + Share(L, taskPc'[t], taskCon'[t], c)
  <1>1. TasksAt(L, c) \ {t} = TasksAt(L, c)' \ {t}
    BY DEF TasksAt
  <1>2. /\ Share(L, taskPc[t], taskCon[t], c) = IF t \in TasksAt(L, c) THEN 1 ELSE 0
        /\ Share(L, taskPc'[t], taskCon'[t], c) =
             IF t \in TasksAt(L, c)' THEN 1 ELSE 0
    BY DEF Share, TasksAt
  <1>3. Cardinality(TasksAt(L, c)') =
          Cardinality(TasksAt(L, c)) - (IF t \in TasksAt(L, c) THEN 1 ELSE 0)
          + (IF t \in TasksAt(L, c)' THEN 1 ELSE 0)
    BY <1>1, TasksFinite, CardinalityStep
  <1> QED
    BY <1>2, <1>3

-----------------------------------------------------------------------------
(* The head of the channel still is a queued task when a worker takes it,  *)
(* and no task is queued twice: so none is run twice.                      *)
ChannelInv ==
    /\ \A i \in 1 .. Len(channel) : taskPc[channel[i]] = "queued"
    /\ \A i, j \in 1 .. Len(channel) : channel[i] = channel[j] => i = j

(* A step that adds no task to the channel and changes no label of one     *)
(* that waits there.                                                       *)
LEMMA ChannelKept ==
  ASSUME channel \in Seq(Task), ChannelInv, UNCHANGED channel,
         \A t \in Task : taskPc[t] = "queued" => taskPc'[t] = taskPc[t]
  PROVE  ChannelInv'
  <1>1. \A i \in 1 .. Len(channel) : channel[i] \in Task
    OBVIOUS
  <1> QED
    BY <1>1 DEF ChannelInv

LEMMA ChannelDispatch ==
  ASSUME NEW Pcs, channel \in Seq(Task), taskPc \in [Task -> Pcs], ChannelInv,
         NEW c, Dispatch(c)
  PROVE  ChannelInv'
  <1>1. PICK t \in Task : /\ taskPc[t] = "none"
                          /\ channel' = Append(channel, t)
                          /\ taskPc' = [taskPc EXCEPT ![t] = "queued"]
    BY DEF Dispatch
  <1>2. \A i \in 1 .. Len(channel) : channel[i] # t
    BY <1>1 DEF ChannelInv
  <1>3. /\ Len(channel') = Len(channel) + 1
        /\ \A i \in 1 .. Len(channel) : channel'[i] = channel[i]
        /\ channel'[Len(channel) + 1] = t
    BY <1>1
  <1> QED
    BY <1>1, <1>2, <1>3 DEF ChannelInv

LEMMA ChannelFetch ==
  ASSUME NEW Pcs, channel \in Seq(Task), taskPc \in [Task -> Pcs], ChannelInv, Fetch
  PROVE  /\ ChannelInv'
         /\ Head(channel) \in Task /\ taskPc[Head(channel)] = "queued"
  <1>1. /\ channel # << >>
        /\ channel' = Tail(channel)
        /\ taskPc' = [taskPc EXCEPT ![Head(channel)] = "read"]
    BY DEF Fetch
  <1>2. /\ Len(channel') = Len(channel) - 1
        /\ \A i \in 1 .. Len(channel') : channel'[i] = channel[i + 1]
        /\ Head(channel) = channel[1]
    BY <1>1
  <1>3. \A i \in 1 .. Len(channel') : channel'[i] # Head(channel)
    BY <1>2 DEF ChannelInv
  <1> QED
    BY <1>1, <1>2, <1>3 DEF ChannelInv

LEMMA ChannelGeneric ==
  ASSUME NEW Pcs, GenericTypeOK(Pcs), ChannelInv, GenericStep
  PROVE  ChannelInv'
  <1> USE DEF runtimeVars
  <1>1. CASE DispatchClient
    BY <1>1, ChannelDispatch DEF DispatchClient, GenericTypeOK
  <1>2. ASSUME Environment \/ EpollWait \/ EpollAdd \/ TakeClient
               \/ AcceptorUsesFreed
        PROVE  UNCHANGED runtimeVars
    BY <1>2 DEF Environment, Connect, Send, Hangup, GoIdle, EpollWait, EpollAdd,
                TakeClient, AcceptorUsesFreed
  <1>3. ASSUME NEW e, \/ AcceptClient(e) \/ RejectClient(e) \/ AcceptAgain(e)
                      \/ AcceptNothing(e) \/ SkipDead(e) \/ LoadClient(e)
        PROVE  UNCHANGED runtimeVars
    BY <1>3 DEF AcceptClient, RejectClient, AcceptAgain, AcceptNothing, SkipDead,
                LoadClient
  <1>4. ASSUME NEW c, Sentinel(c) PROVE UNCHANGED runtimeVars
    BY <1>4 DEF Sentinel, SentinelStart, SentinelDecide, SentinelMark,
                SentinelDelete
  <1>5. ASSUME UNCHANGED runtimeVars PROVE ChannelInv'
    BY <1>5, ChannelKept DEF GenericTypeOK
  <1> QED
    BY <1>1, <1>2, <1>3, <1>4, <1>5 DEF GenericStep, Acceptor

-----------------------------------------------------------------------------
(* References.  Every instance holds one for each task at the labels L,    *)
(* one more for each at the labels H, and the acceptor's own.  The generic *)
(* steps change refs_ and the holders alike, and give nobody a reference   *)
(* to a new object.                                                        *)
Held(L, H, c) ==
    Cardinality(TasksAt(L, c)) + Cardinality(TasksAt(H, c)) + AcceptorHolds(c)

LEMMA HeldNat ==
  ASSUME NEW L, NEW H, NEW c
  PROVE  /\ Held(L, H, c) \in Nat /\ Held(L, H, c)' \in Nat
         /\ AcceptorHolds(c) \in Nat /\ AcceptorHolds(c)' \in Nat
  BY TasksFinite DEF Held, AcceptorHolds

LEMMA HeldUnmoved ==
  ASSUME NEW L, NEW H, NEW c, UNCHANGED <<taskPc, taskCon>>
  PROVE  Held(L, H, c)' - Held(L, H, c) = AcceptorHolds(c)' - AcceptorHolds(c)
  <1>1. TasksAt(L, c)' = TasksAt(L, c) /\ TasksAt(H, c)' = TasksAt(H, c)
    BY DEF TasksAt
  <1>2. AcceptorHolds(c) \in Nat /\ AcceptorHolds(c)' \in Nat
    BY HeldNat
  <1> QED
    BY <1>1, <1>2, TasksFinite DEF Held

(* The labels L and H of an instance. *)
HoldingLabels(L, H) ==
    /\ {"queued", "read"} \subseteq L /\ "none" \notin L
    /\ {"none", "queued", "read"} \cap H = {}

LEMMA HeldDispatch ==
  ASSUME NEW Pcs, GenericTypeOK(Pcs), DispatchClient,
         NEW L, NEW H, HoldingLabels(L, H), NEW c \in Conn
  PROVE  UNCHANGED refs /\ Held(L, H, c)' = Held(L, H, c)
  <1> USE DEF GenericTypeOK
  <1>1. PICK t \in Task : /\ taskPc[t] = "none"
                          /\ taskPc' = [taskPc EXCEPT ![t] = "queued"]
                          /\ taskCon' = [taskCon EXCEPT ![t] = accCon]
    BY DEF DispatchClient, Dispatch
  <1>2. UNCHANGED refs /\ accPc = "taken" /\ accPc' = "loop"
    BY DEF DispatchClient, WasActive
  <1>3. \A u \in Task \ {t} : taskPc'[u] = taskPc[u] /\ taskCon'[u] = taskCon[u]
    BY <1>1
  <1>4. taskPc'[t] = "queued" /\ taskCon'[t] = accCon
    BY <1>1
  <1>5. /\ Cardinality(TasksAt(L, c)') = Cardinality(TasksAt(L, c))
             - Share(L, taskPc[t], taskCon[t], c)
             + Share(L, taskPc'[t], taskCon'[t], c)
        /\ Cardinality(TasksAt(H, c)') = Cardinality(TasksAt(H, c))
             - Share(H, taskPc[t], taskCon[t], c)
             + Share(H, taskPc'[t], taskCon'[t], c)
    BY <1>3, TasksStep
  <1>6. /\ Share(L, taskPc[t], taskCon[t], c) = 0
        /\ Share(L, taskPc'[t], taskCon'[t], c) = IF accCon = c THEN 1 ELSE 0
        /\ Share(H, taskPc[t], taskCon[t], c) = 0
        /\ Share(H, taskPc'[t], taskCon'[t], c) = 0
    BY <1>1, <1>4 DEF Share, HoldingLabels
  <1>7. /\ AcceptorHolds(c) = IF accCon = c THEN 1 ELSE 0
        /\ AcceptorHolds(c)' = 0
    BY <1>2 DEF AcceptorHolds
  <1>8. /\ Cardinality(TasksAt(L, c)')
             = Cardinality(TasksAt(L, c)) + (IF accCon = c THEN 1 ELSE 0)
        /\ Cardinality(TasksAt(H, c)') = Cardinality(TasksAt(H, c))
    BY <1>5, <1>6, TasksFinite
  <1> QED
    BY <1>2, <1>7, <1>8, TasksFinite DEF Held

LEMMA HeldFetch ==
  ASSUME NEW Pcs, GenericTypeOK(Pcs), ChannelInv, Fetch, UNCHANGED acceptorVars,
         NEW L, NEW H, HoldingLabels(L, H), NEW c \in Conn
  PROVE  Held(L, H, c)' = Held(L, H, c)
  <1> USE DEF GenericTypeOK
  <1>1. taskPc[Head(channel)] = "queued"
    BY ChannelFetch
  <1>2. UNCHANGED taskCon /\ taskPc' = [taskPc EXCEPT ![Head(channel)] = "read"]
    BY DEF Fetch
  <1>3. TasksAt(L, c)' = TasksAt(L, c) /\ TasksAt(H, c)' = TasksAt(H, c)
    BY <1>1, <1>2 DEF TasksAt, HoldingLabels
  <1> QED
    BY <1>3 DEF Held, AcceptorHolds, acceptorVars

LEMMA HeldStep ==
  ASSUME NEW Pcs, GenericTypeOK(Pcs), SlotInv, GenericStep,
         NEW L, NEW H, HoldingLabels(L, H), NEW c \in Conn, c \in allocated'
  PROVE  /\ refs'[c] \in Int
         /\ refs'[c] - Held(L, H, c)' =
              IF c \in allocated THEN refs[c] - Held(L, H, c) ELSE 0
  <1> USE DEF GenericTypeOK, ConnTypeOK, connVars, runtimeVars, acceptorVars
  <1>t. /\ Held(L, H, c) \in Nat /\ Held(L, H, c)' \in Nat
        /\ AcceptorHolds(c) \in Nat /\ AcceptorHolds(c)' \in Nat
    BY HeldNat
  <1> DEFINE Goal == /\ refs'[c] \in Int
                     /\ refs'[c] - Held(L, H, c)' =
                          IF c \in allocated THEN refs[c] - Held(L, H, c) ELSE 0
  <1>u. ASSUME UNCHANGED <<taskPc, taskCon, allocated>>, refs'[c] \in Int,
               refs'[c] - refs[c] = AcceptorHolds(c)' - AcceptorHolds(c)
        PROVE  Goal
    <2>1. Held(L, H, c)' - Held(L, H, c) = AcceptorHolds(c)' - AcceptorHolds(c)
      BY <1>u, HeldUnmoved
    <2>2. refs[c] \in Int /\ c \in allocated
      BY <1>u
    <2> DEFINE h == Held(L, H, c)
               k == Held(L, H, c)'
               r == refs[c]
               q == refs'[c]
    <2>3. k - h = q - r /\ h \in Nat /\ k \in Nat /\ r \in Int /\ q \in Int
      BY <2>1, <2>2, <1>t, <1>u
    <2>4. q - k = r - h
      <3> HIDE DEF h, k, r, q
      <3> QED BY <2>3
    <2> QED
      BY <2>2, <2>3, <2>4
  <1>1. ASSUME UNCHANGED <<taskPc, taskCon, allocated, refs, accPc, accCon>>
        PROVE  Goal
    BY <1>1, <1>u DEF AcceptorHolds
  <1>2. CASE EpollAdd
    <2>1. /\ UNCHANGED <<taskPc, taskCon, refs, allocated>>
          /\ accPc = "adding" /\ accPc' = "loop"
      BY <1>2 DEF EpollAdd
    <2> QED
      BY <2>1, <1>u DEF AcceptorHolds
  <1>3. CASE TakeClient
    <2>1. /\ UNCHANGED <<taskPc, taskCon, accCon, allocated>>
          /\ accPc = "loaded" /\ accPc' = "taken"
          /\ refs' = [refs EXCEPT ![accCon] = @ + 1]
      BY <1>3 DEF TakeClient, Take
    <2>2. refs'[c] = refs[c] + (IF accCon = c THEN 1 ELSE 0)
      BY <2>1
    <2> QED
      BY <2>1, <2>2, <1>u DEF AcceptorHolds
  <1>4. CASE DispatchClient
    <2>1. UNCHANGED <<refs, allocated>>
      BY <1>4 DEF DispatchClient, WasActive
    <2>2. Held(L, H, c)' = Held(L, H, c)
      BY <1>4, HeldDispatch
    <2> QED
      BY <2>1, <2>2
  <1>5. ASSUME NEW e \in Conn \cup {Listener}, AcceptClient(e)
        PROVE  Goal
    <2>1. PICK n \in Conn : /\ n \notin allocated
                            /\ \A t \in Task : taskCon[t] # n
                            /\ allocated' = allocated \cup {n}
                            /\ refs' = [refs EXCEPT ![n] = 0]
      BY <1>5 DEF AcceptClient, Fresh, Construct
    <2>2. /\ UNCHANGED <<taskPc, taskCon>>
          /\ accPc = "loop" /\ accPc' = "adding"
      BY <1>5 DEF AcceptClient, Handling
    <2>3. AcceptorHolds(c) = 0 /\ AcceptorHolds(c)' = 0
      BY <2>2 DEF AcceptorHolds
    <2>4. Held(L, H, c)' = Held(L, H, c)
      BY <2>2, <2>3, <1>t, HeldUnmoved
    <2>5. CASE c # n
      BY <2>1, <2>4, <2>5
    <2>6. CASE c = n
      <3>1. TasksAt(L, c) = {} /\ TasksAt(H, c) = {}
        BY <2>1, <2>6 DEF TasksAt
      <3>2. Held(L, H, c) = 0
        BY <3>1, <2>3, FS_EmptySet DEF Held
      <3> QED
        BY <2>1, <2>4, <2>6, <3>2
    <2> QED
      BY <2>5, <2>6
  <1>6. ASSUME NEW e \in Conn, LoadClient(e) PROVE Goal
    <2>1. /\ UNCHANGED <<taskPc, taskCon, refs, allocated>>
          /\ accPc = "loop" /\ accPc' = "loaded"
      BY <1>6 DEF LoadClient, Handling
    <2> QED
      BY <2>1, <1>u DEF AcceptorHolds
  <1>7. ASSUME NEW d \in Conn, SentinelDelete(d) PROVE Goal
    <2>1. guarded[d] = d
      BY <1>7 DEF SentinelDelete, SlotInv, SentinelGuardsOwn
    <2>2. /\ UNCHANGED <<taskPc, taskCon, accPc, accCon>>
          /\ allocated' = allocated \ {d}
          /\ refs' = [refs EXCEPT ![d] = 0]
      BY <1>7, <2>1 DEF SentinelDelete, Destroy
    <2>3. c \in allocated /\ refs'[c] = refs[c]
      BY <2>2
    <2>4. Held(L, H, c)' = Held(L, H, c)
      BY <2>2 DEF Held, TasksAt, AcceptorHolds
    <2> QED
      BY <2>3, <2>4
  <1>8. ASSUME Environment \/ EpollWait \/ AcceptorUsesFreed
        PROVE  UNCHANGED <<taskPc, taskCon, allocated, refs, accPc, accCon>>
    BY <1>8 DEF Environment, Connect, Send, Hangup, GoIdle, Expire, EpollWait,
                AcceptorUsesFreed, UseFreed
  <1>9. ASSUME NEW e, \/ RejectClient(e) \/ AcceptAgain(e) \/ AcceptNothing(e)
                      \/ SkipDead(e) \/ SentinelStart(e) \/ SentinelDecide(e)
                      \/ SentinelMark(e)
        PROVE  UNCHANGED <<taskPc, taskCon, allocated, refs, accPc, accCon>>
    BY <1>9 DEF RejectClient, AcceptAgain, AcceptNothing, SkipDead,
                SentinelStart, SentinelDecide, SentinelMark
  <1> QED
    BY <1>1, <1>2, <1>3, <1>4, <1>5, <1>6, <1>7, <1>8, <1>9
       DEF GenericStep, Acceptor, Sentinel

(* A worker that moves the task t of a live object changes what c is held  *)
(* by as its label does.                                                   *)
LEMMA HeldTask ==
  ASSUME NEW t \in Task, NEW L, NEW H, NEW c, UNCHANGED <<accPc, accCon>>,
         \A u \in Task \ {t} : taskPc'[u] = taskPc[u] /\ taskCon'[u] = taskCon[u]
  PROVE  Held(L, H, c)' = Held(L, H, c)
           - Share(L, taskPc[t], taskCon[t], c) - Share(H, taskPc[t], taskCon[t], c)
           + Share(L, taskPc'[t], taskCon'[t], c)
           + Share(H, taskPc'[t], taskCon'[t], c)
  <1>1. /\ Cardinality(TasksAt(L, c)') = Cardinality(TasksAt(L, c))
             - Share(L, taskPc[t], taskCon[t], c)
             + Share(L, taskPc'[t], taskCon'[t], c)
        /\ Cardinality(TasksAt(H, c)') = Cardinality(TasksAt(H, c))
             - Share(H, taskPc[t], taskCon[t], c)
             + Share(H, taskPc'[t], taskCon'[t], c)
    BY TasksStep
  <1>2. AcceptorHolds(c)' = AcceptorHolds(c) /\ AcceptorHolds(c) \in Nat
    BY HeldNat DEF AcceptorHolds
  <1>3. \A M, pc, d : Share(M, pc, d, c) \in Nat
    BY DEF Share
  <1> QED
    BY <1>1, <1>2, <1>3, TasksFinite DEF Held
=============================================================================
