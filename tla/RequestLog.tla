----------------------------- MODULE RequestLog -----------------------------
(***************************************************************************)
(* What a connection promises: the requests that the peer's frames carry   *)
(* are handled one after the other, each once, in the order in which their *)
(* streams end, and nothing else is handled.  Packets do not occur here.   *)
(* Of peers that are not Plain, and of a connection that has failed,       *)
(* nothing is promised.                                                    *)
(***************************************************************************)
EXTENDS H2Frames

VARIABLES
    frames,  \* what this peer sends
    handled, \* the requests handled so far
    failed   \* the connection has given up

logVars == <<frames, handled, failed>>

LogInit == handled = << >> /\ ~failed

HandleNext ==
    /\ ~failed /\ ~failed'
    /\ Len(handled) < Len(RequestsOf(frames))
    /\ handled' = Append(handled, RequestsOf(frames)[Len(handled) + 1])
    /\ UNCHANGED frames

Fail ==
    /\ failed'
    /\ UNCHANGED <<frames, handled>>

NoPromise == (failed \/ ~Plain(frames)) /\ UNCHANGED frames

LogSpec == LogInit /\ [][HandleNext \/ Fail \/ NoPromise]_logVars
=============================================================================
