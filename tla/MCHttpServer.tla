---------------------------- MODULE MCHttpServer ----------------------------
(***************************************************************************)
(* Instances of HttpServer for TLC.                                        *)
(***************************************************************************)
EXTENDS HttpServer, TLC

(* Objects and tasks are compared for equality only. *)
Symmetry == Permutations(Conn) \cup Permutations(Task)
=============================================================================
