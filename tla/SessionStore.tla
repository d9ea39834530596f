---------------------------- MODULE SessionStore ----------------------------
(***************************************************************************)
(* What the session extension promises: as long as the requests of a       *)
(* session come one after the other, the session keeps all that they have  *)
(* set, if its text has neither '=' nor a newline.  What a request sets is *)
(* named for the request.                                                  *)
(***************************************************************************)
CONSTANTS Id, Request

VARIABLES
    stored, \* of each session: what has been set
    alone   \* sessions whose requests never met, and were never cut off

Init == stored = [s \in Id |-> {}] /\ alone = Id

(* A request of a session has ended, and may have set something. *)
Save(s, r) ==
    /\ s \in alone
    /\ stored' = [stored EXCEPT ![s] = @ \cup {r}]
    /\ UNCHANGED alone

(* Requests of sessions meet, or the program ends while some are saved:    *)
(* from then on there is no promise about them.                            *)
Spoil ==
    /\ alone' \subseteq alone
    /\ stored' \in [Id -> SUBSET Request]
    /\ \A s \in alone' : stored'[s] = stored[s]

Next == Spoil \/ \E s \in Id, r \in Request : Save(s, r)

Spec == Init /\ [][Next]_<<stored, alone>>
=============================================================================
