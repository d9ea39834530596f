------------------------------ MODULE MCLayer ------------------------------
(***************************************************************************)
(* Instances of Layer for TLC: endpoints, and requests for them.           *)
(***************************************************************************)
EXTENDS Layer, TLC

CONSTANTS r1, r2, r3, c1, c2, s1

Endpoint(path, launch, sets, streams, file, status) ==
    [method |-> {"GET"}, path |-> {path}, asynchronous |-> launch = "async",
     thread_pool |-> launch = "pool", sets |-> sets, throws |-> FALSE,
     streams |-> streams, file |-> file, status |-> status]

(* Bodies, values of all kinds, the usage example of http_response, an     *)
(* empty last buffer (for odin itself); a file of one chunk and a half,    *)
(* and one after a buffer; a response without an end; what throws; the     *)
(* pool.                                                                   *)
TestEndpoints ==
    <<Endpoint("/__server/", "deferred", "none", <<Body(1)>>, -1, "ok"),
      Endpoint("/set", "deferred", "plain", <<Body(5)>>, -1, "ok"),
      Endpoint("/equals", "async", "equals", <<Body(1)>>, -1, "ok"),
      Endpoint("/newline", "deferred", "newline", <<Body(1)>>, -1, "other"),
      Endpoint("/usage", "async", "none", <<Body(1), Stream(2), Finish>>, -1, "client_error"),
      Endpoint("/__server/empty", "deferred", "none", <<Stream(1), Finish>>, -1, "client_error"),
      Endpoint("/long", "async", "plain", << >>, 3, "ok"),
      Endpoint("/closed", "async", "none", <<Stream(1)>>, 1, "ok"),
      Endpoint("/never", "async", "none", <<Stream(1)>>, -1, "ok"),
      [Endpoint("/throw", "deferred", "plain", << >>, -1, "ok") EXCEPT !.throws = TRUE],
      [Endpoint("/lost", "async", "none", << >>, -1, "ok") EXCEPT !.throws = TRUE],
      Endpoint("/pool", "pool", "none", <<Body(1)>>, -1, "ok")>>

NoCookie == [header |-> "none", before |-> 0, id |-> "none"]
Cookie(id) == [header |-> "cookie", before |-> 0, id |-> id]

Get(path, client, cookie) ==
    [method |-> "GET", path |-> path, client |-> client, http2 |-> client = c2, cookie |-> cookie]

Two(first, second) == r1 :> first @@ r2 :> second
Three(first, second, third) == Two(first, second) @@ r3 :> third

Arrivals ==
    {\* a session, which goes on as soon as the client has its cookie
     Two(Get("/set", c1, NoCookie), Get("/long", c2, Cookie(r1))),
     Two(Get("/newline", c1, NoCookie), Get("/equals", c2, Cookie(r1))),
     \* one that exists; a header and a place in which its cookie is not found
     Two(Get("/set", c1, Cookie(s1)), Get("/__server/", c2, Cookie(s1))),
     Two(Get("/set", c1, [Cookie(s1) EXCEPT !.header = "Cookie"]),
         Get("/set", c2, [Cookie(s1) EXCEPT !.before = 1])),
     \* two streams, or two requests, of one connection
     Two(Get("/nowhere", c2, NoCookie), Get("/__server/", c2, NoCookie)),
     Two(Get("/long", c1, NoCookie), Get("/nowhere", c1, NoCookie)),
     \* responses that do not end well
     Two(Get("/closed", c1, NoCookie), Get("/never", c2, NoCookie)),
     \* handlers that throw
     Two(Get("/throw", c1, NoCookie), Get("/long", c1, Cookie(s1))),
     Two(Get("/set", c2, Cookie(s1)), Get("/throw", c2, Cookie(s1))),
     Two(Get("/set", c1, Cookie(s1)), Get("/lost", c1, Cookie(s1))),
     \* the pool
     Two(Get("/nowhere", c2, NoCookie), Get("/pool", c1, NoCookie))}

(* Enough to fill the records of odin, of all statuses; without an         *)
(* endpoint, or an answer.                                                 *)
Records ==
    {Three(Get("/set", c1, NoCookie), Get("/set", c1, Cookie(r1)), Get("/set", c1, Cookie(r2))),
     Two(Get("/__server/empty", c1, NoCookie), Get("/usage", c1, NoCookie)),
     Two(Get("/usage", c1, NoCookie), Get("/newline", c2, NoCookie)),
     Two(Get("/lost", c1, NoCookie), Get("/nowhere", c1, NoCookie))}

(* Responses that end, and do not, on one connection and on two.           *)
Endings ==
    {Two(Get("/never", c2, NoCookie), Get("/__server/empty", c2, NoCookie)),
     Two(Get("/never", c1, NoCookie), Get("/throw", c2, NoCookie)),
     Two(Get("/closed", c2, NoCookie), Get("/lost", c2, NoCookie))}

(* All of them.  The rate is computed during Records only.                 *)
Tests == Arrivals \cup Records \cup Endings
=============================================================================
