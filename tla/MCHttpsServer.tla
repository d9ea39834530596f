---------------------------- MODULE MCHttpsServer ----------------------------
(***************************************************************************)
(* Instances of HttpsServer for TLC.                                       *)
(***************************************************************************)
EXTENDS HttpsServer, TLC

(* Objects and tasks are compared for equality only. *)
Symmetry == Permutations(Conn) \cup Permutations(Task)
=============================================================================
