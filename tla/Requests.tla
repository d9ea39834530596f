------------------------------ MODULE Requests ------------------------------
(***************************************************************************)
(* Requests as handlers see them (include/http/request.hpp), and the       *)
(* endpoints they are for (behaviour.hpp, endpoint.hpp).  The regular      *)
(* expression of an endpoint is the set of paths that it matches.          *)
(***************************************************************************)
EXTENDS SequencesExt, Integers

CONSTANTS
    Request,   \* one for each http_request that a server hands to the layer
    Endpoints  \* endpoints_, in the order in which they were added

ASSUME EndpointAssumption ==
    /\ Len(Endpoints) \in Nat /\ DOMAIN Endpoints = 1 .. Len(Endpoints)
    /\ \A i \in DOMAIN Endpoints :
        {"method", "path", "asynchronous", "thread_pool"} \subseteq DOMAIN Endpoints[i]

(* Those that match, of which find_endpoint takes the first. *)
Matching(request) ==
    {i \in DOMAIN Endpoints :
        request.method \in Endpoints[i].method /\ request.path \in Endpoints[i].path}

(* eNoEndpoint is 0. *)
FindEndpoint(request) ==
    LET found == Matching(request)
    IN IF found = {} THEN 0 ELSE CHOOSE i \in found : \A j \in found : i <= j

(* Whether cookie_jar of the request knows a cookie: the header's name     *)
(* must be in lower case (HTTP/2 demands it, clients of HTTP/1.1 write     *)
(* Cookie), and the names after the first have a space before them.        *)
Recognised(cookie) == cookie.header = "cookie" /\ cookie.before = 0

(* How a deferred or asynchronous handler runs. *)
Policy(endpoint) ==
    CASE endpoint.thread_pool -> "pool"
      [] endpoint.asynchronous /\ ~endpoint.thread_pool -> "async"
      [] OTHER -> "deferred"
=============================================================================
