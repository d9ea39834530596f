------------------------------- MODULE Layer -------------------------------
(***************************************************************************)
(* layer::handle (include/http/behaviour.hpp) with the session and odin    *)
(* extensions attached, called by on_read of both servers with its finish  *)
(* callback.  A request has a worker, which runs handle and on_read to     *)
(* their end, and a handler: the function given to std::async, which runs  *)
(* in the worker, in a thread of its own, or in the user's pool.  Without  *)
(* an endpoint the worker calls the finish callback itself.                *)
(*                                                                         *)
(* A worker of HTTP/2 goes on reading, with lock_ held, until the peer is  *)
(* gone; writes of handlers wait for lock_ meanwhile.  Handlers, requests  *)
(* or streams, of one connection overlap when several workers read from    *)
(* it.  A packet that has been read but waits for lock_ to be processed    *)
(* counts as not yet come; terminate() and EOF of HTTP/1.1 are in the      *)
(* modules of the servers.                                                 *)
(***************************************************************************)
EXTENDS Session, Odin, ResponseStream, FiniteSets

CONSTANTS
    Client,  \* connections
    Failing, \* connections on which a write may fail
    Traffic, \* requests that may come: functions on some of Request to records
    Admin,   \* paths that start with odin's admin_path
    Inserts, \* insertions into payload that serialize makes for a response
    Rated    \* bound: traffic during which odin computes the rate

(* Requests are finitely many and, like the endpoints, well formed. *)
ASSUME LayerAssumption ==
    /\ IsFiniteSet(Request)
    /\ \A i \in DOMAIN Endpoints :
        /\ Endpoints[i].sets \in {"none"} \cup Settable /\ Endpoints[i].throws \in BOOLEAN
        /\ Endpoints[i].streams \in Seq([len : Nat, last : BOOLEAN])
        /\ Endpoints[i].file \in Nat \cup {NoFile}
    /\ \A t \in Traffic :
        /\ DOMAIN t \subseteq Request
        /\ \A r \in DOMAIN t : t[r].client \in Client /\ t[r].http2 \in BOOLEAN
        /\ \A q, r \in DOMAIN t : t[q].client = t[r].client => t[q].http2 = t[r].http2
    /\ Inserts \in Nat \ {0}

VARIABLES
    traffic,   \* the records of the requests
    worker,    \* where the worker of each request is
    handler,   \* and its handler
    refs_,     \* of each connection
    cookieSet, \* requests whose response has a Set-Cookie header
    inserted,  \* insertions made for each response
    payload,   \* of hpack.tx of each connection: the insertions, <<request, number>>
    block,     \* those in the HEADERS frame of each response
    wire,      \* of each connection: whose response was written (on HTTP/2 its head),
               \* without repetitions
    hungup,    \* connections whose peer is gone
    together,  \* history: connections on which two requests were handled at a time
    reread,    \* history: connections from which a worker has read a second packet, or EOF
    misused,   \* history: connections that were used, or released, without a reference
    exited,    \* the program has ended
    undefined  \* a future was used that is gone: nothing is promised any more

placeVars == <<worker, handler>>
writeVars == <<cookieSet, inserted, payload, block, wire>>
clientVars == <<refs_, hungup, reread, misused>>
vars == <<sessionVars, odinVars, streamVars, traffic, placeVars, clientVars,
          writeVars, together, exited, undefined>>

Http2(r) == traffic[r].http2
ClientOf(r) == traffic[r].client
EndpointOf(r) == FindEndpoint(traffic[r])
Found(r) == EndpointOf(r) # 0
IsAdmin(r) == traffic[r].path \in Admin
PolicyOf(r) == IF Found(r) THEN Policy(Endpoints[EndpointOf(r)]) ELSE "none"
Active(r) == worker[r] \in {"handle", "release", "save", "write"}
Unlocked(c) == \A q \in Request : worker[q] = "read" => ClientOf(q) # c
Insertion == Request \X (1 .. Inserts)

TypeOK ==
    /\ SessionTypeOK /\ OdinTypeOK /\ StreamTypeOK
    /\ traffic \in Traffic
    /\ worker \in [Request -> {"idle", "handle", "release", "save", "write",
                               "again", "read", "edge", "gone"}]
    /\ handler \in [Request -> {"none", "pooled", "run", "head", "serialized", "framed", "body",
                                "frames", "sent", "closing", "post", "timing", "ended", "thrown"}]
    /\ refs_ \in [Client -> Int]
    /\ hungup \subseteq Client /\ reread \subseteq Client /\ misused \subseteq Client
    /\ cookieSet \subseteq Request /\ together \subseteq Client
    /\ inserted \in [Request -> 0 .. Inserts]
    /\ payload \in [Client -> Seq(Insertion)] /\ block \in [Request -> Seq(Insertion)]
    /\ wire \in [Client -> Seq(Request)]
    /\ exited \in BOOLEAN /\ undefined \in BOOLEAN

Init ==
    /\ SessionInit /\ OdinInit /\ StreamInit
    /\ traffic \in Traffic
    /\ worker = [r \in Request |-> "idle"] /\ handler = [r \in Request |-> "none"]
    /\ refs_ = [c \in Client |-> 0] /\ hungup = {} /\ reread = {} /\ misused = {}
    /\ cookieSet = {} /\ inserted = [r \in Request |-> 0]
    /\ payload = [c \in Client |-> << >>] /\ block = [r \in Request |-> << >>]
    /\ wire = [c \in Client |-> << >>]
    /\ together = {} /\ exited = FALSE /\ undefined = FALSE

Running == ~exited /\ ~undefined

GoWorker(r, place) ==
    /\ worker' = [worker EXCEPT ![r] = place]
    /\ UNCHANGED <<handler, traffic, together>>

GoHandler(r, place) ==
    /\ handler' = [handler EXCEPT ![r] = place]
    /\ UNCHANGED <<worker, traffic, together>>

Touch(c) == misused' = IF refs_[c] > 0 THEN misused ELSE misused \cup {c}

(* The connection is written to, or asked for its address. *)
UseClient(r) ==
    /\ Touch(ClientOf(r))
    /\ UNCHANGED <<refs_, hungup, reread>>

TakeUp(r, n) == refs_' = [refs_ EXCEPT ![ClientOf(r)] = @ + n]

(* refs_ is an atomic member: releasing uses the connection as well. *)
GiveBack(r) ==
    /\ Touch(ClientOf(r))
    /\ refs_' = [refs_ EXCEPT ![ClientOf(r)] = @ - 1]

-----------------------------------------------------------------------------
(* The worker.                                                             *)

(* The cookie of a session is known from an earlier response.              *)
Known(cookie) ==
    cookie.id \in Request =>
        cookie.id \in cookieSet /\ cookie.id \in ToSet(wire[ClientOf(cookie.id)])

(* The request is in a packet that a worker reads for an event, with the   *)
(* reference that the acceptor has taken up; on_read takes another one for *)
(* finish.                                                                 *)
ReadByWorker(r) ==
    /\ Http2(r) => Unlocked(ClientOf(r))
    /\ TakeUp(r, 2)
    /\ worker' = [worker EXCEPT ![r] = "handle"]
    /\ UNCHANGED reread

(* Or a worker that still reads gets it, and has no reference left; the    *)
(* event of the packet is yet to come.                                     *)
ReadByReader(r) ==
    /\ \E q \in Request :
           /\ worker[q] = "read" /\ ClientOf(q) = ClientOf(r)
           /\ worker' = [worker EXCEPT ![r] = "handle", ![q] = "edge"]
    /\ TakeUp(r, 1)
    /\ reread' = reread \cup {ClientOf(r)}

(* A deferred handler of HTTP/2 that throws: on_read drops the packet. *)
DropsPacket(q) == handler[q] = "thrown" /\ PolicyOf(q) # "async"

(* Or it follows another request in the packet of that. *)
ReadInPacket(r) ==
    /\ \E q \in Request :
           /\ worker[q] = "release" /\ Http2(q) /\ ClientOf(q) = ClientOf(r) /\ ~DropsPacket(q)
           /\ worker' = [worker EXCEPT ![r] = "handle", ![q] = "gone"]
    /\ TakeUp(r, 1)
    /\ UNCHANGED reread

(* on_read has a request; then handle: on_request of the extensions,       *)
(* find_endpoint and the launch.  Without an endpoint, finish is called    *)
(* with the answer of the 404 handler.                                     *)
Handle(r) ==
    /\ Running /\ worker[r] = "idle" /\ r \in DOMAIN traffic /\ Known(traffic[r].cookie)
    /\ ClientOf(r) \notin hungup
    /\ ReadByWorker(r) \/ ReadByReader(r) \/ ReadInPacket(r)
    /\ together' = IF \E q \in Request : worker[q] = "handle" /\ ClientOf(q) = ClientOf(r)
                   THEN together \cup {ClientOf(r)} ELSE together
    /\ Load(r, traffic[r].cookie)
    /\ Count(IsAdmin(r))
    /\ handler' = [handler EXCEPT ![r] = CASE ~Found(r) -> "head"
                                           [] PolicyOf(r) = "pool" -> "pooled"
                                           [] OTHER -> "run"]
    /\ IF Found(r) THEN UNCHANGED streamVars ELSE Respond(r, <<Body(1)>>, NoFile)
    /\ UNCHANGED <<traffic, hungup, misused, writeVars, exited, undefined>>

After(r) == IF Http2(r) THEN "save" ELSE "release"

(* Defect: the future of an asynchronous handler is not waited for. *)
HandleReturnsAtOnce(r) ==
    /\ Running /\ worker[r] = "handle"
    /\ PolicyOf(r) \notin {"pool", "async"} => handler[r] \in {"ended", "thrown"}
    /\ undefined' = (PolicyOf(r) = "pool" /\ handler[r] \notin {"pooled", "ended"})
    /\ GoWorker(r, After(r))
    /\ UNCHANGED <<sessionVars, odinVars, streamVars, clientVars, writeVars, exited>>

(* Defect: the future is waited for, whoever runs the handler. *)
HandleReturnsAlwaysWaiting(r) ==
    /\ Running /\ worker[r] = "handle"
    /\ handler[r] \in {"ended", "thrown"}
    /\ GoWorker(r, After(r))
    /\ UNCHANGED <<sessionVars, odinVars, streamVars, clientVars, writeVars, exited, undefined>>

(* The handler has run in this thread, or the destructor of the future     *)
(* waits for its thread.  Nothing waits for the pool, and what it runs is  *)
(* destroyed with the future.                                              *)
HandleReturns(r) ==
    /\ Running /\ worker[r] = "handle"
    /\ handler[r] \in {"ended", "thrown"} \/ PolicyOf(r) = "pool"
    /\ undefined' = (PolicyOf(r) = "pool" /\ handler[r] \notin {"pooled", "ended"})
    /\ GoWorker(r, After(r))
    /\ UNCHANGED <<sessionVars, odinVars, streamVars, clientVars, writeVars, exited>>

(* The last copy of the request goes out of scope: on HTTP/2 before the    *)
(* event's reference is released, on HTTP/1.1 after it.                    *)
ReleaseEvent(r) ==
    /\ Running /\ worker[r] = "release"
    /\ GiveBack(r)
    /\ GoWorker(r, IF Http2(r) THEN "again" ELSE "save")
    /\ UNCHANGED <<sessionVars, odinVars, streamVars, hungup, reread, writeVars, exited, undefined>>

(* HTTP/2: the loop of on_read goes on to the next packet. *)
LockForRead(r) ==
    /\ Running /\ worker[r] = "again" /\ Unlocked(ClientOf(r))
    /\ GoWorker(r, "read")
    /\ UNCHANGED <<sessionVars, odinVars, streamVars, clientVars, writeVars, exited, undefined>>

ReturnEof(r) ==
    /\ Running /\ worker[r] = "read"
    /\ GiveBack(r)
    /\ hungup' = hungup \cup {ClientOf(r)} /\ reread' = reread \cup {ClientOf(r)}
    /\ GoWorker(r, "gone")
    /\ UNCHANGED <<sessionVars, odinVars, streamVars, writeVars, exited, undefined>>

Hangup(r) == ReturnEof(r) /\ ClientOf(r) \notin hungup
ReadEnds(r) == ReturnEof(r) /\ ClientOf(r) \in hungup

(* The event of a packet that another worker has taken: the acceptor takes *)
(* up a reference, and a worker comes to read.                             *)
TakeEvent(r) ==
    /\ Running /\ worker[r] = "edge"
    /\ TakeUp(r, 1)
    /\ GoWorker(r, "again")
    /\ UNCHANGED <<sessionVars, odinVars, streamVars, hungup, reread, misused, writeVars,
                   exited, undefined>>

AfterSave(r) == IF Http2(r) THEN "release" ELSE "gone"

Save(r) ==
    /\ Running /\ worker[r] = "save"
    /\ \/ RemoveFile(r) /\ GoWorker(r, AfterSave(r))
       \/ Truncate(r) /\ GoWorker(r, "write")
    /\ UNCHANGED <<odinVars, streamVars, clientVars, writeVars, exited, undefined>>

SaveEnd(r) ==
    /\ Running /\ worker[r] = "write"
    /\ Write(r)
    /\ GoWorker(r, AfterSave(r))
    /\ UNCHANGED <<odinVars, streamVars, clientVars, writeVars, exited, undefined>>

-----------------------------------------------------------------------------
(* The handler.                                                            *)

(* A thread of the pool calls get() on the future, if it still exists. *)
PoolRuns(r) ==
    /\ Running /\ handler[r] = "pooled"
    /\ IF worker[r] = "handle" THEN GoHandler(r, "run") /\ UNCHANGED undefined
       ELSE undefined' = TRUE /\ UNCHANGED <<placeVars, traffic, together>>
    /\ UNCHANGED <<sessionVars, odinVars, streamVars, clientVars, writeVars, exited>>

(* The endpoint's handler returns a response; pre_send of the extensions. *)
Run(r) ==
    LET endpoint == Endpoints[EndpointOf(r)]
    IN /\ Running /\ handler[r] = "run" /\ ~endpoint.throws
       /\ Respond(r, endpoint.streams, endpoint.file)
       /\ IF endpoint.sets = "none" THEN UNCHANGED sessionVars
          ELSE SetValue(r, endpoint.sets)
       /\ cookieSet' = IF Recognised(traffic[r].cookie) THEN cookieSet ELSE cookieSet \cup {r}
       /\ CountStatus(IsAdmin(r), endpoint.status)
       /\ GoHandler(r, "head")
       /\ UNCHANGED <<clientVars, inserted, payload, block, wire, exited, undefined>>

(* An exception: it stays in the future of an asynchronous handler; it     *)
(* leaves the thread, which ends the program, from a pool and from on_read *)
(* of HTTP/1.1; on_read of HTTP/2 catches it.                              *)
Throw(r) ==
    /\ handler' = [handler EXCEPT ![r] = "thrown"]
    /\ IF PolicyOf(r) = "pool" \/ (PolicyOf(r) # "async" /\ ~Http2(r))
       THEN exited' = TRUE /\ CutOff
       ELSE UNCHANGED <<sessionVars, exited>>
    /\ UNCHANGED <<odinVars, traffic, worker, clientVars, writeVars, together, undefined>>

RunThrows(r) ==
    /\ Running /\ handler[r] = "run" /\ Endpoints[EndpointOf(r)].throws
    /\ Throw(r)
    /\ UNCHANGED streamVars

Wrote(r) ==
    wire' = [wire EXCEPT ![ClientOf(r)] = IF @ # << >> /\ Last(@) = r THEN @ ELSE Append(@, r)]

Inserted(r) ==
    /\ inserted' = [inserted EXCEPT ![r] = @ + 1]
    /\ GoHandler(r, IF inserted[r] + 1 < Inserts THEN "head" ELSE "serialized")
    /\ UNCHANGED <<sessionVars, odinVars, streamVars, clientVars, cookieSet, block, wire,
                   exited, undefined>>

(* Defect: the encoder is emptied before it is filled. *)
SerializeAnew(r) ==
    /\ Running /\ handler[r] = "head" /\ Http2(r)
    /\ payload' = [payload EXCEPT ![ClientOf(r)] =
           IF inserted[r] = 0 THEN << <<r, 1>> >> ELSE Append(@, <<r, inserted[r] + 1>>)]
    /\ Inserted(r)

(* An insertion of hpack.tx.serialize.  No lock is held. *)
Serialize(r) ==
    /\ Running /\ handler[r] = "head" /\ Http2(r)
    /\ payload' = [payload EXCEPT ![ClientOf(r)] = Append(@, <<r, inserted[r] + 1>>)]
    /\ Inserted(r)

(* hpack.tx.finish moves the payload into a frame; no lock is held. *)
FinishHeaders(r) ==
    /\ Running /\ handler[r] = "serialized"
    /\ block' = [block EXCEPT ![r] = payload[ClientOf(r)]]
    /\ payload' = [payload EXCEPT ![ClientOf(r)] = << >>]
    /\ GoHandler(r, "framed")
    /\ UNCHANGED <<sessionVars, odinVars, streamVars, clientVars, cookieSet, inserted, wire,
                   exited, undefined>>

(* The frame is written under lock_. *)
WriteHeaders(r) ==
    /\ Running /\ handler[r] = "framed" /\ Unlocked(ClientOf(r))
    /\ UseClient(r) /\ Wrote(r)
    /\ GoHandler(r, "body")
    /\ UNCHANGED <<sessionVars, odinVars, streamVars, cookieSet, inserted, payload, block,
                   exited, undefined>>

WriteHead(r) ==
    /\ Running /\ handler[r] = "head" /\ ~Http2(r)
    /\ UseClient(r) /\ Wrote(r)
    /\ GoHandler(r, "body")
    /\ UNCHANGED <<sessionVars, odinVars, streamVars, cookieSet, inserted, payload, block,
                   exited, undefined>>

AfterBuffer(buffer) == IF buffer.last THEN "sent" ELSE "body"

(* trigger(chunk) reads from a closed file. *)
ReadClosedFile(r) ==
    /\ Running /\ handler[r] = "body" /\ ReadsClosed(r)
    /\ undefined' = TRUE
    /\ UNCHANGED <<sessionVars, odinVars, streamVars, traffic, placeVars, clientVars, writeVars,
                   together, exited>>

(* HTTP/1.1: the loop over buffers. *)
WriteBody(r) ==
    /\ Running /\ handler[r] = "body" /\ ~Http2(r)
    /\ WriteBuffer(r)
    /\ UseClient(r) /\ Wrote(r)
    /\ GoHandler(r, AfterBuffer(Head(Triggered(r))))
    /\ UNCHANGED <<sessionVars, odinVars, cookieSet, inserted, payload, block, exited, undefined>>

(* HTTP/2: the loop over buffers, and the one over frames in it, which     *)
(* takes lock_ for each of them.                                           *)
NextBuffer(r) ==
    /\ Running /\ handler[r] = "body" /\ Http2(r)
    /\ CutBuffer(r)
    /\ GoHandler(r, IF buf'[r].len > 0 THEN "frames" ELSE AfterBuffer(buf'[r]))
    /\ UNCHANGED <<sessionVars, odinVars, clientVars, writeVars, exited, undefined>>

WriteData(r) ==
    /\ Running /\ handler[r] = "frames" /\ Unlocked(ClientOf(r))
    /\ WriteFrame(r)
    /\ UseClient(r)
    /\ GoHandler(r, IF offset'[r] < buf[r].len THEN "frames" ELSE AfterBuffer(buf[r]))
    /\ UNCHANGED <<sessionVars, odinVars, writeVars, exited, undefined>>

(* The write of a frame fails: the finish event, and an exception. *)
WriteFails(r) ==
    /\ Running /\ handler[r] = "frames" /\ Unlocked(ClientOf(r))
    /\ ClientOf(r) \in Failing
    /\ Throw(r)
    /\ UNCHANGED streamVars

(* The end of the finish callback: release and, on HTTP/2, a write to      *)
(* streams_ of the connection after that.                                  *)
ReleaseFinish(r) ==
    /\ Running /\ handler[r] = "sent"
    /\ GiveBack(r)
    /\ GoHandler(r, CASE Http2(r) -> "closing" [] ~Http2(r) /\ Found(r) -> "post" [] OTHER -> "ended")
    /\ UNCHANGED <<sessionVars, odinVars, streamVars, hungup, reread, writeVars, exited, undefined>>

CloseStream(r) ==
    /\ Running /\ handler[r] = "closing"
    /\ UseClient(r)
    /\ GoHandler(r, IF Found(r) THEN "post" ELSE "ended")
    /\ UNCHANGED <<sessionVars, odinVars, streamVars, writeVars, exited, undefined>>

(* post_send of odin, which asks the connection for its address. *)
PostSend(r) ==
    /\ Running /\ handler[r] = "post"
    /\ IF IsAdmin(r) THEN UNCHANGED <<odinVars, clientVars>> /\ GoHandler(r, "ended")
       ELSE PushRing(r) /\ UseClient(r) /\ GoHandler(r, "timing")
    /\ UNCHANGED <<sessionVars, streamVars, writeVars, exited, undefined>>

RecordTiming(r) ==
    /\ Running /\ handler[r] = "timing"
    /\ PushTiming(r, {q \in Request : handler[q] = "timing"})
    /\ GoHandler(r, "ended")
    /\ UNCHANGED <<sessionVars, streamVars, clientVars, writeVars, exited, undefined>>

-----------------------------------------------------------------------------
RateStep ==
    /\ Running /\ traffic \in Rated
    /\ ReadCount \/ ResetCount
    /\ UNCHANGED <<sessionVars, streamVars, traffic, placeVars, clientVars, writeVars,
                   together, exited, undefined>>

WorkerStep(r) ==
    \/ HandleReturns(r) \/ ReleaseEvent(r) \/ Save(r) \/ SaveEnd(r)
    \/ LockForRead(r) \/ ReadEnds(r)

HandlerStep(r) ==
    \/ Run(r) \/ RunThrows(r)
    \/ WriteHead(r) \/ Serialize(r) \/ FinishHeaders(r) \/ WriteHeaders(r)
    \/ ReadClosedFile(r) \/ WriteBody(r) \/ NextBuffer(r) \/ WriteData(r) \/ WriteFails(r)
    \/ ReleaseFinish(r) \/ CloseStream(r) \/ PostSend(r) \/ RecordTiming(r)

(* The handler waits for a buffer that nobody streams, or for lock_, which *)
(* a worker holds in SSL_read while the peer has nothing to say.           *)
Stuck(r) ==
    \/ handler[r] = "body" /\ Starved(r)
    \/ /\ handler[r] \in {"framed", "frames"}
       /\ ~Unlocked(ClientOf(r)) /\ ClientOf(r) \notin hungup

(* No request is left, or the program has ended, or nothing is promised. *)
Quiet ==
    /\ ~Running \/ \A r \in Request : Active(r) => Stuck(r)
    /\ UNCHANGED vars

Next ==
    \/ \E r \in Request : Handle(r) \/ WorkerStep(r) \/ Hangup(r) \/ TakeEvent(r)
                         \/ PoolRuns(r) \/ HandlerStep(r)
    \/ RateStep
    \/ Quiet

Spec == Init /\ [][Next]_vars

(* The operating system lets some thread go on that can; writing takes     *)
(* finite time.  It is not assumed that requests come, that the pool runs, *)
(* or that any particular thread does.                                     *)
Fairness == WF_vars(\E r \in Request : HandlerStep(r) \/ WorkerStep(r))

FairSpec == Spec /\ Fairness

-----------------------------------------------------------------------------
(* What handle does for a request in any thread, the hooks after the       *)
(* response included, it does with a reference to the connection, although *)
(* finish has given its own one back: the worker still has that of the     *)
(* event, since the destructor of the future waits.  And when no request   *)
(* of a connection is handled, all have been given back, but for those of  *)
(* handlers that threw.  Not so once a worker has read from the connection *)
(* for a second time: on_read releases a reference for every packet.       *)
Unfinished(c) ==
    {r \in DOMAIN traffic : ClientOf(r) = c /\ handler[r] \in {"thrown", "pooled"}}
HeldWhileUsed ==
    ~undefined =>
        /\ misused \subseteq reread
        /\ \A c \in Client \ reread :
               (\A r \in DOMAIN traffic : ClientOf(r) = c => ~Active(r))
                   => refs_[c] = Cardinality(Unfinished(c))

Total(pieces) ==
    LET sum[n \in 0 .. Len(pieces)] == IF n = 0 THEN 0 ELSE sum[n - 1] + pieces[n].len
    IN sum[Len(pieces)]

Answered(r) == handler[r] \in {"sent", "closing", "post", "timing", "ended"}

StreamsOf(r) == IF Found(r) THEN Endpoints[EndpointOf(r)].streams ELSE <<Body(1)>>
FileOf(r) == IF Found(r) THEN Endpoints[EndpointOf(r)].file ELSE NoFile
LastOnlyAtEnd(buffers) == \A i \in DOMAIN buffers : buffers[i].last <=> i = Len(buffers)

(* Only the last buffer is marked as the last, or all is left to a file;   *)
(* on HTTP/2, what that buffer or the last chunk has is not empty.         *)
WellFormed(r) ==
    LET streams == StreamsOf(r)
        file == FileOf(r)
    IN IF file = NoFile
       THEN /\ streams # << >> /\ LastOnlyAtEnd(streams)
            /\ Http2(r) => Last(streams).len > 0
       ELSE /\ streams = << >>
            /\ Http2(r) => \A k \in 0 .. file : file # k * ChunkSize

(* A client gets all that a well-formed response streams, or all of its    *)
(* file, in frames of at most FrameSize on HTTP/2, and only the last write *)
(* ends the response.                                                      *)
AnswerIsWhole ==
    \A r \in Request : Answered(r) /\ WellFormed(r) =>
        LET file == IF FileOf(r) = NoFile THEN 0 ELSE FileOf(r)
        IN /\ Total(sent[r]) = Total(StreamsOf(r)) + file
           /\ Http2(r) => \A i \in DOMAIN sent[r] : sent[r][i].len \in 1 .. FrameSize
           /\ sent[r] # << >> /\ \A i \in DOMAIN sent[r] : sent[r][i].end <=> i = Len(sent[r])

(* However handlers of one connection interleave, each piece of a header   *)
(* block is sent once, in one of the blocks of that connection, or still   *)
(* to be sent; and with pieces of nobody else, as long as no two requests  *)
(* of a connection are handled at a time.                                  *)
HeadersAreSentOnce ==
    \A r \in DOMAIN traffic :
        LET c == ClientOf(r)
            own == [k \in 1 .. inserted[r] |-> <<r, k>>]
            blocks(k) == {q \in DOMAIN traffic : ClientOf(q) = c /\ <<r, k>> \in ToSet(block[q])}
            waiting(k) == IF <<r, k>> \in ToSet(payload[c]) THEN 1 ELSE 0
        IN /\ \A k \in 1 .. inserted[r] : Cardinality(blocks(k)) + waiting(k) = 1
           /\ c \notin together => block[r] \in {<< >>, own} /\ IsInjective(wire[c])

(* Every request that is not for odin itself is counted once: it is in the *)
(* rate or waits to be, unless one came while the rate was computed.  Those *)
(* that are served are those that got an answer from an endpoint, and the  *)
(* statuses are between them and all that had an endpoint.                 *)
CountsAddUp ==
    LET counted == {r \in Request : worker[r] # "idle" /\ ~IsAdmin(r)}
        served == {r \in counted : handler[r] = "ended" /\ Found(r)}
    IN /\ ~late => sampled + request_count_ = Cardinality(counted)
       /\ requests_served_ = Cardinality(served)
       /\ status_code_["ok"] + status_code_["client_error"] + status_code_["server_error"] \in
              Cardinality({r \in served : Endpoints[EndpointOf(r)].status \in StatusClass})
              .. Cardinality({r \in counted : Found(r)})

(* The list of requests and the timings are of the newest ones: each has   *)
(* as many as it can hold, without repetition, and what the smaller one    *)
(* has, the larger one has too when no post_send is under way, unless a    *)
(* request has passed another between the two locks.                       *)
RecentAreRecorded ==
    LET timed == {timings_[i] : i \in 0 .. Timings - 1} \ {NoTiming}
        between == {r \in Request : handler[r] = "timing"}
        Least(m, n) == IF m < n THEN m ELSE n
    IN /\ IsInjective(ring_buffer_)
       /\ Len(ring_buffer_) = Least(RingSize, requests_served_ + Cardinality(between))
       /\ Cardinality(timed) = Least(Timings, requests_served_)
       /\ ~passed /\ between = {} =>
              IF RingSize <= Timings THEN ToSet(ring_buffer_) \subseteq timed
              ELSE timed \subseteq ToSet(ring_buffer_)

(* The session extension keeps what the requests of a session set, unless  *)
(* it has a '=' or a newline in it, as long as no two of them overlap,     *)
(* from the first hook of the one until the copy of it is destroyed, after *)
(* its response has been sent.  A request opens the file, which empties    *)
(* it: from then on its values count.                                      *)
Writers(s) == {r \in writing : id_[r] = s}
Stored ==
    [s \in Id |-> Plain(IF exited \/ Writers(s) = {} THEN files[s]
                        ELSE UNION {values_[r] : r \in Writers(s)})]

Store == INSTANCE SessionStore WITH stored <- Stored

ImplementsStore == Store!Spec

(* Handling ends, of all requests, unless the program ends or is undefined:*)
(* a worker or handler waits for ever only for a buffer that nobody        *)
(* streams, or for lock_.                                                  *)
EveryRequestEnds == <>[](~Running \/ \A r \in Request : Active(r) => Stuck(r))
=============================================================================
