------------------------------ MODULE Runtime ------------------------------
(***************************************************************************)
(* rite::runtime (include/runtime.hpp, src/runtime.cpp): NumWorkers        *)
(* threads take tasks from one FIFO channel and run each to its end.       *)
(*                                                                         *)
(* A member of Task is one std::function put in the channel: the bound     *)
(* on_read call for the connection taskCon[t].  A worker has no state of   *)
(* its own beyond the task it runs, so a running task stands for its       *)
(* worker, and at most NumWorkers tasks run.  The channel, jt::mpsc, is a  *)
(* library: it is modelled from its use as an unbounded FIFO queue; the    *)
(* number of tasks that exist at once is bounded by Task.                  *)
(***************************************************************************)
EXTENDS Connection, Sequences

CONSTANTS
    Task,         \* tasks that can exist at once (a bound)
    NumWorkers    \* num_workers_

ASSUME RuntimeAssumption ==
    /\ IsFiniteSet(Task)
    /\ NumWorkers \in Nat \ {0}

VARIABLES
    channel,   \* thread_pool_: the tasks no worker has taken yet
    taskPc,    \* where each task is; "none" when it does not exist
    taskCon    \* the connection pointer bound in the task

runtimeVars == <<channel, taskPc, taskCon>>

RuntimeInit ==
    /\ channel = << >>
    /\ taskPc = [t \in Task |-> "none"]
    /\ taskCon = [t \in Task |-> NoConn]

Running == {t \in Task : taskPc[t] \notin {"none", "queued"}}

(* dispatch(std::bind(on_read, this, c)) *)
Dispatch(c) ==
    \E t \in Task :
        /\ taskPc[t] = "none"
        /\ channel' = Append(channel, t)
        /\ taskPc' = [taskPc EXCEPT ![t] = "queued"]
        /\ taskCon' = [taskCon EXCEPT ![t] = c]

(* A free worker returns from consumer.wait() and starts the task. *)
Fetch ==
    /\ channel # << >>
    /\ Cardinality(Running) < NumWorkers
    /\ channel' = Tail(channel)
    /\ taskPc' = [taskPc EXCEPT ![Head(channel)] = "read"]
    /\ UNCHANGED taskCon

(* The running task t moves on to label pc. *)
Goto(t, pc) ==
    /\ taskPc' = [taskPc EXCEPT ![t] = pc]
    /\ UNCHANGED <<channel, taskCon>>

(* task() returns: its worker is free again. *)
Return(t) ==
    /\ taskPc' = [taskPc EXCEPT ![t] = "none"]
    /\ taskCon' = [taskCon EXCEPT ![t] = NoConn]
    /\ UNCHANGED channel
=============================================================================
