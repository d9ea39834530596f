# A TLA+ model of rite

rite is a web-server framework: an acceptor thread per server waits in `epoll_wait`,
puts events into a channel, and a pool of workers reads, parses, calls the
application and answers. Connections are plain pointers shared by all those
threads; a thread per connection (the *sentinel*) deletes each of them when nobody
needs it any more. The modules here model that machinery, which has no tests, and
state what has to hold between the threads. Others follow a request through HTTP/2 and
HPACK, the behaviour layer with its extensions, and back to the client.

## Inventory

| part | source | state | operations | properties that make it correct |
|---|---|---|---|---|
| connection object | `include/connection.hpp` | `refs_`, `closed_`, `last_active_`/`keep_alive_`, `lock_`, `cv_` | constructor, destructor, `take`, `release`, `close`, `was_active`, `idle`, `lock` | nobody uses it after its deletion; the count is the number of holders |
| runtime | `src/runtime.cpp` | a FIFO channel of `std::function`, worker threads | `dispatch`, the worker loop | every task runs, each once, in order of dispatch |
| server | `include/server.hpp` | `connections_` (bit 63 marks a free slot), the epoll set, one acceptor thread, one sentinel per connection | accept, find a slot, dispatch a client event, watch, mark, delete | a slot has one owner; live slots do not dangle; an event reaches its client; what is held is not deleted; what is finished is |
| HTTP/1.1 server | `src/servers/http.cpp` | a buffer per worker | `on_accept`, `on_read` | references balance on every path |
| HTTPS server | `src/https.cpp` | as above, and the connection's `lock_` | `on_accept`, `on_read` (a loop) | references balance; one reader at a time; a request that was read is answered |
| HTTP/2 connection | `src/protocols/h2/connection.cpp` | `state_`, `unfinished_frame_`, `streams_`, `request`, HPACK tables | `read_frame`, `process`, `finish_stream`, `terminate` | packets cut anywhere give the same frames; a request is handled once and with its own headers |
| HPACK | `src/protocols/h2/hpack.cpp` | the dynamic table, the buffer of the serializer, the static table of the process | `parse`, `header_by_index`, `serialize`, `finish` | the decoder's table agrees with the encoder's |
| Huffman, HEADERS payload | `src/protocols/h2/huffman.cpp`, `headers.cpp` | none | encode, decode | decode inverts encode |
| response streaming | `include/http/response.hpp`, `buffer.hpp` | the channel of buffers, the event callbacks | `body`, `stream`, `trigger` | all that was streamed is sent, then the end, once |
| layer and endpoints | `include/http/behaviour.hpp`, `endpoint.hpp` | extensions, endpoints | `handle` | `finish` is called once for each request; the documented launch policy |
| parser, request, cookies, query | `src/http/parser.cpp` ... | none | parse | a cookie that is sent is known |
| session extension | `modules/session` | a file per session | `on_request`, `save` | an update is not lost |
| odin extension | `modules/odin` | counters, a ring of requests, an array of timings | `on_request`, `pre_send`, `post_send`, `calculate_rps` | every request is counted once; the newest ones are kept |

How they interact: the acceptor calls `on_accept` of its server, stores the
object in a slot, starts its sentinel, and registers the socket with the slot's
number. For a client's event it looks the slot up, takes a reference and
dispatches `on_read`; a worker runs it and gives the reference back, with a second
one around the handler. The sentinel waits on the object's condition variable,
marks the slot free, and deletes the object. Except for `lock_`, the
only synchronisation is by the atomics `refs_` and `closed_`; the slot table has none.

A worker that has a request calls `layer::handle` with a callback, `finish`, that writes the
response. `handle` calls `on_request` of each extension, finds the endpoint, and
gives a function to `std::async`: the endpoint's handler, `pre_send`, `finish`, `post_send`. The
response is a channel of buffers, so a handler may go on producing while `finish` writes. The request,
and with it the session that its destructor saves, lives until both the worker and that function are done with it.

What is hard here is listed line by line under `hazards` in `PROJECT.json`:
the window between looking up a slot and taking a reference, the reuse of slots
and addresses, stale and edge-triggered events, the balance of references on every
exit of `on_read`, a lock held across a blocking read, exceptions in handlers, state that handlers of one
connection or one session share (the HPACK encoder, the session's file, odin's records), two tables at two ends of a
connection that have to agree, and that everything that was accepted is deleted and answered in the end.

## Modules

| module | models | extends |
|---|---|---|
| `Connection` | `connection<T>`: one operator per member function | - |
| `Runtime` | `rite::runtime`: channel and workers | `Connection` |
| `SlotTable` | abstract: what a server promises of its slots and objects | - |
| `Server` | acceptor, sentinel, slot table, epoll and peers, for any `on_read` | `Runtime`; instantiates `SlotTable` |
| `HttpServer` | `server<http>`: `Server` with the steps of its `on_read`; a complete specification | `Server` |
| `HttpsServer` | `server<https>`: the same with the read loop of HTTPS | `Server` |
| `H2Frames` | frames, and the requests a sequence of frames means; no state | - |
| `RequestLog` | abstract: what a connection promises of its requests | `H2Frames` |
| `H2Connection` | `connection<h2::protocol>`, fed by the loop of `on_read` | `H2Frames`; instantiates `RequestLog` |
| `VariableInteger`, `Huffman` | `variable_integer<N>`, `class huffman` with its table of codes; operators only | - |
| `HpackTable` | static table, lookups, strings, the serializer; operators only | `VariableInteger`, `Huffman` |
| `Hpack` | `parser<h2::hpack>` on several connections with HEADERS payloads, and the peers | `HpackTable` |
| `Requests` | endpoints, cookies and launch policies; operators only | - |
| `SessionStore` | abstract: what the session extension promises | - |
| `Session` | `session_handle` and its file | `Requests` |
| `Odin` | the hooks of odin and the thread of the rate | `Requests` |
| `ResponseStream` | `http_response`'s channel and the loops of both finish callbacks | `Requests` |
| `Layer` | `layer::handle` with all of these; a complete specification | `Session`, `Odin`, `ResponseStream`; instantiates `SessionStore` |
| `ServerProofs` | lemmas about `Server` for any `on_read`: types, slots, references | `Server` |
| `HttpServerProofs`, `HttpsServerProofs` | theorems about the two servers | the server, `ServerProofs` |
| `LayerProofs` | theorems about `Layer`: types, references, odin's counters and records, responses, sessions | `Layer`, `Flattening` |
| `Flattening` | lemmas about recursive functions and sequences of any length, `FlattenSeq` among them | - |
| `H2ConnectionProofs` | theorems about `H2Connection`: types, failures, the requests of a connection | `H2Connection`, `Flattening` |
| `CodecProofs` | theorems about `VariableInteger` and `Huffman`: decoding inverts encoding | `HpackTable`, `Flattening` |
| `HpackProofs` | theorems about `Hpack`: types, failures, the two tables, what is decoded | `Hpack`, `CodecProofs` |
| `MCHttpServer`, `MCHttpsServer`, `MCH2Connection`, `MCHpack`, `MCLayer` | symmetry, scripts of peers, headers, endpoints and requests | the modules they are named for |

`server<T>` is a class template with a virtual `on_read`; accordingly `Server` has
variables and actions but no next-state relation. The two servers define `Worker(t)`
and put it beside the groups `Environment`, `Acceptor` and `Sentinel(c)`.

### State and code

- `Conn` is a set of object addresses. `allocated` says which are live;
  `AcceptClient` may use an address again only when no task, event or sentinel
  refers to it (`Fresh`). A real allocator can be worse: it may hand out an address
  that a stale pointer still has. Such a pointer is caught when it is used
  (`UseFreed`) if the address is still free.
- `undefined` is set when a deleted object is used. From then on C++ promises
  nothing; the model stops (`Halted`), so the other properties speak of the behaviour
  up to that point.
- `slotCon`, `slotDead` are the pointer and bit 63 of `connections_[i]`; `index[c]`
  is the number in `ev.data.u64` and in the sentinel's argument.
- `accPc`, `sentinel[c]`, `taskPc[t]` say where each thread is: labels are placed
  before each access to something another thread can change. `AcceptClient` is one
  step up to the start of the sentinel because nobody else knows the object before;
  `EpollAdd`, after it, is another one, and the sentinel may be faster.
- `Reapable` is the test of line 200. The predicate that `wait_until` evaluates is
  looser, but its outcome only decides when line 200 is evaluated.
- Time: `idle[c]` is the answer of `idle()`; `Expire` sets it, `was_active`
  resets it. No property compares durations, so nothing else about clocks is kept.
- The condition variable has no state. A waiter has a deadline, and evaluates its
  predicate at the deadline at the latest; a lost notification is a late decision.
- epoll: `registered`, `ready`, `batch`. Client sockets are edge triggered: an edge is
  put in `ready` on arrival only, and consumed by `epoll_wait`. The listener is level
  triggered. The events of a batch are handled in any order, which includes the
  kernel's.
- `inbox[c]` counts unread segments and `eof[c]` says that the peer is gone; `recv`
  takes at most `ReadSize` of them, and waits when there is neither.
- A running task stands for its worker, at most `NumWorkers` run.
- `leaked[c]` and `surplus[c]` are history: references lost with a handler that
  threw, and releases at the end of the HTTPS loop body. No guard depends on them except for the
  bounds `MaxLeaks` and `MaxPackets`.

`H2Connection` stands beside the two servers. `HttpsServer` has the lock, the references and
the life of the object, and abstracts what a packet contains; `H2Connection` has the packets,
frames and streams, and lets the object live. There:

- Bytes are units `<<n, k>>` (the k-th of frame n), so that a parser that has lost its place shows.
  `wire` is what has not been read from the socket, `packet[w]` is `pos .. end` of
  a worker. `Receive` may cut anywhere.
- One action per outcome of `process`, which runs wholly under `lock_`: the connection
  state, the outcomes of `read_frame` (`FrameRefused`, `FrameIncomplete`, `FrameComplete`) and the frame type
  are the guards. Moving `request` out (`MoveRequest`) is a step of its own, since the lock is free there.
- `Throw` is the handler of `std::exception` in `on_read`: it closes, drops the packet, and reads on. So
  the model goes on after a failure too.
- The switch over frame types creates a stream for any identifier before it looks at the type;
  the test for DATA on an unknown stream is therefore never true and has no action.
- `cut` and `raced` are history variables: a packet ended within a frame header or the preface;
  a packet was received while another worker still had one.
- If bytes that are no header are read as one, any frame can result; the model stops (`Garbled`).

`Hpack` has octets on the wire and texts everywhere else (a text is written by its
`Spelling`). The peers' actions, `Encode...` and `Send`, are RFC 7541's encoder, since the repository has no
other definition of what its decoder reads; `EncodeResponse` is its own serializer, read back by its own parser.

- The parser reads one field in a step, in the order of the code: the bits of the first octet choose the action,
  `ByIndex` and `LiteralField` are what it reads, and `ReadError` is every error or exception.
- `static` is the size of the static table: `operator[]` with index 0 inserts an entry for good, into a table that is shared by
  all connections.
- `exited` is the assertion in the constructor of a HEADERS payload.
- `unusual` is history: a peer did one of the things that `FailsOnlyByThese` lists.

`Layer` starts where a server has a request. A request has a worker, which runs `handle` and
the end of `on_read`, and a handler, the function given to `std::async`:

- `worker[r]` and `handler[r]` say where both are. A deferred handler runs in the worker. An
  asynchronous one has its own thread, but the destructor of its future, at the end of `handle`, waits for it (`HandleReturns`).
  What is dispatched to a pool refers to a future in the frame of `handle`; `undefined` is set when a thread of the
  pool uses it too late.
- `refs_[c]` is the count of the connection, and `misused` is history: the connections that were used, or released, when it was not positive. The
  worker of an HTTP/2 request reads on (`LockForRead`), with no reference of its own any more, since `https.cpp:153` is in the loop. So there are three ways
  for a request to come: to a worker with a new event (`ReadByWorker`), to one that is still reading (`ReadByReader`; the event then
  brings another worker, `TakeEvent`), or behind another request in one packet (`ReadInPacket`). `reread` is history: the connections from which a packet, or the end of file, was read by a
  worker that had read one before.
- `Unlocked(c)`: a worker in `SSL_read` has `lock_`, and every write of an HTTP/2 handler waits for it, the HEADERS frame and each DATA frame. `Hangup` is the peer going away,
  which ends the wait.
- `payload[c]` is `hpack.tx.payload` of a connection, as the sequence of insertions `<<r, k>>` into it, the k-th one for the response of r; `block[r]` is what
  the HEADERS frame of `r` got. `Serialize` is one insertion, `FinishHeaders` the move, `WriteHeaders` the write. `wire[c]` is whose response was written, without repetitions.
- A buffer is its length and `last`. The chunk event of the file server is the only producer that runs while `finish` writes;
  `Triggered` is the channel after it. The event stays registered when it has closed its file (`Closed`): if it is triggered once more, it reads
  from a `FILE` that is gone (`ReadClosedFile`, `undefined`). That happens when something was streamed before the file.
- A session's file has a set of entries, each the request that set it and how its text is written. `ReadBack` is what the constructor makes of the lines: a
  line is cut at its second `=`, and a value ends at a newline, behind which the rest is read as an entry of its own. `Truncate` and `Write` are the opening and the closing
  of the stream; two writers overlay each other's entries (`rest`).
- `late`, `passed`, `together`, `reread` and `alone` are history variables for the properties.

## Runs

All bounds are constants of the modules. `Task` bounds the tasks that exist at
once (the channel itself is unbounded: `Dispatch` waits in the model when no
member of `Task` is free), `MaxBacklog` the clients that wait, `MaxInbox` the unread segments,
`MaxLeaks` the handlers of a connection that throw, `MaxPackets` the packets read
on one HTTPS connection.

| run | shows | instance |
|---|---|---|
| `http_slots` | `TypeOK`, `SlotOwnership`, `SentinelGuardsOwn`, `UnreadIsNoticed`, `ImplementsTable` | two addresses, two slots, one of them with the listener's number, one worker: slots are filled, freed and filled again while events of the earlier client are on their way; a third client finds no slot free; edges of registration, arrival and end of file fall together |
| `http_tasks` | `RefsCountHolders`, `DecideOnlyUnheld`, `HangupIsReaped` | one slot, two workers, three tasks: both workers serve one connection while a third event is queued, and one handler throws; one of the tasks may sit in `recv` for ever |
| `https_safety` | `TypeOK`, `SlotOwnership`, `RefsDrift`, `ReadIsExclusive`, `NoDecisionWhileReading` | one slot, two workers in the loop of one connection, three packets: enough for `refs_` to become negative with a handler running |
| `http_freed` | violates `DeallocatedIsSkipped` | one slot |
| `http_epolldata` | violates `ClientEventsReachClients` | one slot, whose number is that of the listener |
| `https_drift` | violates `HandlerKeepsConnection` | two workers, three packets |
| `https_stall` | violates `PacketIsProcessed` under fairness | two workers, two packets |
| `h2_frames` | `TypeOK`, `ImplementsLog`, `OnlyCutsFail`, `NothingIsLeft` | two workers, two streams; every conforming script of up to four frames (header blocks of several frames, empty and long DATA, trailers), and every script of up to two frames with errors; all ways to cut them into packets |
| `hpack_tables` | `TypeOK`, `DecodesWhatWasSent`, `TablesAgree`, `FailsOnlyByThese`, `IntegersRoundTrip`, `HuffmanRoundTrips` | two connections; three fields of an RFC peer with a table of two small entries and updates to 40 and 0 octets, in one block or several, in one frame or two; blocks of the serializer; blocks with an unknown index, gibberish, and index 0; frames with padding and priority |
| `layer_requests` | `TypeOK`, `HeldWhileUsed`, `AnswerIsWhole`, `HeadersAreSentOnce`, `CountsAddUp`, `RecentAreRecorded`, `ImplementsStore`, `EveryRequestEnds` under fairness | `Arrivals`: eleven pairs of requests, with a new session and one that exists, cookies that are not recognised, values of all kinds, two streams of a connection, two requests of an HTTP/1.1 connection, responses that do not end well, handlers and writes that fail, a pool; `Records`: a triple and three pairs of all classes of status, without an endpoint, without an answer, and one computation of the rate; `Endings`: responses without an end beside others, on one connection and on two |
| `h2_workers` | violates `ContinuesLastPacket` | two workers, one request with a body |
| `h2_trailers` | violates `HeadersAreSaved` | conforming scripts of up to four frames |

Why these are enough: the threads meet at one slot or one connection. Two
clients at one slot after another, or at two slots, give every conflict about
slots, as each action looks at one slot, and the search at those below it; two
workers and a further event give every conflict about one connection. What does not
depend on the numbers is proved for all of them. `Conn` and `Task` are symmetric in the safety
runs (they are only compared for equality); the liveness runs use no symmetry. A server
never stops, and `CHECK_DEADLOCK` stays on in every run.

For HTTP/2, a header of two units and payloads of up to three are the smallest that can
be cut at every kind of place and twice within one payload. The first frame is always SETTINGS; three more are
enough for a block in two frames, for a body in two frames, and for two streams
whose frames alternate.

`h2_frames` says of two workers that they do no harm as long as no packet is
received while another is being processed, a worker that is alone does none;
`h2_workers` shows the harm when they overlap.

For HPACK, a table of 72 octets has room for two entries, so that a third field evicts one at the peer and an update evicts one
or all; the second connection says something only to disturb the first (by index 0). Codes of 5, 6, 10 and 13 bits leave
every remainder that matters for the padding. Integers are checked up to 4200, for all four prefixes, which is one, two and three octets; `Width` is 24
instead of 32, since TLC's numbers end at 2^31: the wrap of the last static index only needs a width larger than any index.

For the layer, two requests give every conflict about one session, one encoder or one counter, as each action of a request looks at what it shares with one
other; three fill the list of requests (`RingSize` 1) and the timings (2) beyond their limits. `ChunkSize` and `FrameSize` are 2: bodies of
none, one, half a chunk more than one, and several frames occur. A response makes two insertions (`Inserts`), the fewest between which
another handler's can fall; the code makes some for each header. During `Records` the rate is computed once (`MaxRates`, `Rated`), which meets the
requests anywhere; the other traffic differs in nothing that `CountsAddUp` looks at.

What the passing properties of HPACK and of the layer say of the code:

- **The decoder's table** is not the peer's, since nothing is evicted on insertion: the peer's is its prefix (`TablesAgree`),
  and as long as that holds an index means the same to both. A size update is compared with a number of entries;
  only an update to a size below the number of entries removes anything.
- **What the parser cannot read** (`FailsOnlyByThese`): index 61 (`www-authenticate`, by itself or as a name), index 0 (which also
  changes the static table for all connections), a field cut in two by the end of a frame, a frame without a fragment (it ends the program), and padding of more octets than
  precede the fragment (`reserve` of a negative number). Everything else is decoded as it was sent.
- **A response is whole** (`AnswerIsWhole`) if it is well formed: nothing but its last buffer is marked as the last, or all of it is left to a file; on HTTP/2, something is in that last buffer. Then all
  of it is written, in frames that fit, and only the last write ends it. Of the others the model shows that what is streamed after a `body()`, as in the usage example of `response.hpp:28`, is never sent, since `body()` is a last buffer, at which
  both consumers stop; that an HTTP/2 stream whose last buffer is empty (`buffer::finish()`, or the last chunk of a file of whole chunks) is never ended, contrary to the comment at `https.cpp:111`, since END_STREAM is set in the loop
  over frames, which has no turn; and that a file is read after it was closed when something was streamed before it.
- **Headers** (`HeadersAreSentOnce`), each insertion for itself, are never lost and never sent twice, whatever handlers do to the shared payload; if no two requests of a connection are handled at a
  time, each block has all of its own and nothing else. Otherwise it may be cut in two, or be in the frame of another stream: `hpack.tx` has no lock, two handlers insert into one payload, and the first that is done takes it all.
- **References** (`HeldWhileUsed`): up to the second packet that a worker reads, a connection is used with a reference by everything that runs for a request, and afterwards
  exactly those of handlers that threw or never ran are missing. What `finish` and odin's `post_send` do after the release of `finish` is covered by the event's reference, because the
  worker waits for the handler; the comments that an asynchronous endpoint does not (`behaviour.hpp:125`, `endpoint.hpp:103`) are
  wrong, and the code depends on it. From the second packet on there is no such reference: the worker has released it and reads on, the handler gives back
  `finish`'s at `https.cpp:137`, and goes on to use the connection. `RefsDrift` and `https_drift` are about the same in `HttpsServer`, with the sentinel.
- **The session** (`ImplementsStore`) keeps what was set in plain values, as long as its requests come one after the other. It is saved when the last copy of the request is destroyed, after the response: a client that goes on
  at once overlaps with its own earlier request, and then each has its own copy of the values and saves it all, which undoes what the other has saved. The end of the program between the opening of the file, which empties it,
  and its closing loses the session. A value with a newline or `=` is read back cut. All three are in the model, and set aside by the property.
- **The counters of odin** (`CountsAddUp`) add up, for requests that are not counted between the reading and the reset of the rate; those are in no second's count.
  Requests that fail or find no endpoint are counted, but never served.
- **Handling ends** (`EveryRequestEnds`), except in the two ways that `Stuck` names: a handler waits for a buffer that nobody streams, or for `lock_` while another worker waits for the peer. The second one is `https_stall`.

What the violated properties say of the code:

- **A client can be deleted while its event is handled** (`http_freed`). The check at
  `server.hpp:169` says "Event was dispatched for client that has already been
  deallocated", but the reference is taken only at line 176; a
  keep-alive deadline in between deletes the object.
- **Slot numbers and descriptor numbers are confused** (`http_epolldata`).
  `event.data.fd == fd.server` is also true for a client's event when its slot
  has the descriptor's number. The event is lost, and with it (edge
  triggered) the request. With 100 slots and descriptor 3 this is the fourth client.
- **HTTPS drops references it never took** (`https_drift`). `https.cpp:153` is in
  the loop. After a few packets the handler's reference does not keep the connection any more.
- **HTTPS waits for its peer with the lock held** (`https_stall`). While one worker
  waits in `SSL_read`, the other cannot process or answer the request it has read.
- **Two workers exchange packets** (`h2_workers`). Packets are read in order, but the lock is free
  before they are processed. A frame cut by a packet is continued with the wrong one.
- **Trailers replace the request's headers** (`h2_trailers`). The request is handled as `/error`.

Two more facts the model shows without a run of their own: a frame header cut by a packet fails the
connection, and on an established one ends the program (`Exit`; `OnlyCutsFail` is exact about it); and after
`terminate()` the loop goes on, so that requests can still be handled (`RequestLog` therefore promises nothing after a failure).

### Fairness

`FairSpec` of `HttpServer` assumes that the operating system runs each thread that can take a step (weak
fairness of `Acceptor`, `FetchTask`, each `Worker(t)`, each `Sentinel(c)`), that
time passes (`GoIdle`), and that epoll serves its ready list in rotation, so that
a socket that is ready again and again is in some batch (strong fairness of
`EpollWait` with `c` in the batch). It is assumed of no peer that it sends,
and nothing is assumed of who gets a contended lock.
In `HttpsServer`, `SF_vars(PacketDone(t))` says that a packet has finitely many frames:
the loop over them ends if the worker gets to run.

`HangupIsReaped` (run `http_tasks`) needs no more than that: a worker that waits in `recv` gets its end of
file, gives its reference back, and closes; if a reference was lost with a
handler that threw, the property does not apply, and that is stated in it.

`FairSpec` of `Layer` assumes only that the threads as a whole go on as long as one of them can (weak fairness of one disjunction): that a
write returns and a handler comes to its end. It is not assumed of a particular thread, of clients, of the
thread of the rate, or of a pool. `EveryRequestEnds` follows because a worker waits for its own handler only, and a handler for nothing but what `Stuck` names; it promises no end of those two waits.

## Proofs

The theorems hold for every value of the constants that satisfies the assumptions of the modules:

- `ConnAssumption`, `AddressAssumption`, `RuntimeAssumption`, `ServerAssumption`, `HttpAssumption`, `HttpsAssumption`: `NoConn` and `Listener` are no members of `Conn`,
  there is at least one slot and one worker, addresses and tasks are finitely many, a read takes at least one segment, numbers are naturals.
- `FramesAssumption`, `H2Assumption`: header, preface and a worker's buffer have at least one octet, and scripts are sequences of frames.
- `EndpointAssumption`, `StreamAssumption`, `OdinAssumption`, `LayerAssumption`: `Endpoints` is a sequence of records with the fields that are
  used, what an endpoint streams is a sequence of buffers, chunks and frames have at least one octet, the ring and the array at least
  one entry, requests are finitely many, `Traffic` consists of functions on some of them, the requests of a connection have one protocol, and a response makes at
  least one insertion.
- `WidthAssumption`, `CodeAssumption`, `TextAssumption`, `HpackAssumption`, `SpellingAssumption`: an unsigned integer has at least eight bits;
  each code of the table has the bits that its length says, no more than 31, none begins another, and up to seven ones are no code; different texts
  are spelled differently, with less than a quarter of `Modulus` octets; tables and updates are smaller than `Modulus`, and what is
  written as a literal has a spelling. `CodeAssumption` has no parameter: TLC evaluates it on the table itself, for all pairs of octets.

Nothing is assumed of how many clients, slots, workers, requests, connections or sessions there are, how long scripts are, or how they are cut.

| module | theorem | statement |
|---|---|---|
| `HttpServerProofs` | `TypeCorrect` | `Spec => []TypeOK` |
| | `SlotsAreOwned` | `Spec => []SlotOwnership` |
| | `SentinelsGuardTheirOwn` | `Spec => []SentinelGuardsOwn` |
| | `ImplementsSlotTable` | `Spec => ImplementsTable` |
| | `RefsAreExact` | `Spec => []RefsCountHolders` |
| | `HeldIsNotReaped` | `Spec => DecideOnlyUnheld` |
| | `UnreadHasEvent` | `Spec => []UnreadIsNoticed` |
| `HttpsServerProofs` | `TypeCorrect` | `Spec => []TypeOK` |
| | `SlotsAreOwned` | `Spec => []SlotOwnership` |
| | `SentinelsGuardTheirOwn` | `Spec => []SentinelGuardsOwn` |
| | `ImplementsSlotTable` | `Spec => ImplementsTable` |
| | `ReadersExclude` | `Spec => []ReadIsExclusive` |
| | `ReadersAreNotReaped` | `Spec => NoDecisionWhileReading` |
| | `RefsMissOnePerPacket` | `Spec => []RefsDrift` |
| `LayerProofs` | `TypeCorrect` | `Spec => []TypeOK` |
| | `ConnectionsAreHeld` | `Spec => []HeldWhileUsed` |
| | `CountersAddUp` | `Spec => []CountsAddUp` |
| | `NewestAreRecorded` | `Spec => []RecentAreRecorded` |
| | `EachHeaderIsSentOnce` | `Spec => []HeadersAreSentOnce` |
| | `AnswersAreWhole` | `Spec => []AnswerIsWhole` |
| | `SessionsAreKept` | `Spec => ImplementsStore` |
| `H2ConnectionProofs` | `TypeCorrect` | `Spec => []TypeOK` |
| | `OnlyCutsMakeItFail` | `Spec => []OnlyCutsFail` |
| | `NothingIsLeftBehind` | `Spec => []NothingIsLeft` |
| | `LogImplemented` | `Spec => ImplementsLog` |
| `CodecProofs` | `IntegerCodecIsSound` | `EveryIntegerRoundTrips`: for every number below `Modulus`, every prefix and whatever follows |
| | `HuffmanCodeIsSound` | `EveryTextRoundTrips`: for every text |
| `HpackProofs` | `TypeCorrect` | `Spec => []TypeOK` |
| | `SentIsDecoded` | `Spec => []DecodesWhatWasSent` |
| | `TableOfParserAgrees` | `Spec => []TablesAgree` |
| | `FailuresAreThese` | `Spec => []FailsOnlyByThese` |
| | `IntegersAlwaysRoundTrip` | `Spec => []IntegersRoundTrip` |
| | `HuffmanAlwaysRoundTrips` | `Spec => []HuffmanRoundTrips` |

### The servers

*Slots.* `SlotOwnership` is not inductive alone: when a sentinel starts it copies the slot's
pointer, and what it later marks and deletes is that copy. `SentinelGuardsOwn`
relates the copy to the object; it needs `SlotOwnership` for the moment of copying
(the slot still has the sentinel's own object). The two together are inductive
(`SlotInv`), and each of the two theorems is a part of it.

*`SlotTable`.* The owner of a slot is its pointer if bit 63 is not set, and nobody otherwise. `AcceptClient` is `Occupy`: the slot was free
because the search looks at bit 63, and nobody owns an object that does not exist by `SlotOwnership`. `SentinelMark` is `Vacate`, and `SentinelDelete` is `Delete`: after the
mark no slot is the object's. All other steps, those of `on_read` included, stutter.

*References.* Counting needs to know that a step moves one task into or out of a set of holders:
`ChannelInv` says that the channel has each queued task once, so that `Fetch`
starts a task that was a holder already. `LeaksAreOfLive` says that an address that is
used again starts with no lost references. A freshly constructed object has no
holders because `Fresh` excludes every reference. `RefsInv` is their conjunction with
`RefsCountHolders`, and it is inductive given `TypeOK` and `SlotInv`.
The same counting is done for HTTPS with one more term, the releases that the loop does once
for each packet (`surplus`): `refs_` is then exactly known, although it is not the number of holders.

*The sentinel.* `DecideOnlyUnheld` follows from `RefsAreExact`: the last read of `refs_`
was at most 0, all four terms of the sum are natural numbers, so each set of holders is empty.
The theorem does not exclude the acceptor's window of `http_freed`, in which no reference
has been taken yet.

*Readers of HTTPS.* `ReadIsExclusive` says that a connection is locked exactly when one task is at a label of the critical
section; it is inductive with `ChannelInv`. `NoDecisionWhileReading` follows, since the sentinel's decision is taken with the mutex of the same object.

*Events.* `UnreadIsNoticed` holds when `ReadSize >= MaxInbox`, that is for clients whose unread data fits
into one `recv`: two arrivals may share an edge, and one `recv` may take what two events were for, but no data stays
behind without an event. `EventInv` adds that only existing sockets are registered (an address that is used again
inherits no registration) and that the acceptor holds no client between two events. `SlotInv` sends the
event to its own connection: a slot with bit 63 set means, for a client that still exists, that its sentinel is about to delete it.
What exceeds one `recv` is not covered, nor an end of file whose edge was shared with data: a worker reads the data
and returns, and the connection stays until its keep-alive period ends (`HangupIsReaped`).

### The layer

*Types* (`Typed`). `TypeOK` is not inductive: `find_endpoint` has to return an endpoint whenever it returns something (`EndpointIsOne`, by the well-ordering of the
naturals). `StreamTyped` says that what is in the channel is the end of what was streamed (`TakeEnds`); `Places` relates the worker's label to the handler's,
and to the life of the session_handle; `RecordTypeOK` has the types of the ring and the timings, which `OdinTypeOK` leaves open.

*References.* `References` says, for each connection without a second packet (`reread`), that `refs_` is the number of events held (`EventHolders`) plus that of `finish`'s references
(`FinishHolders`), both read off the labels of its requests; a step changes at most one or two labels (`BalanceMoves`). Each use is then with a positive count,
because whoever uses the connection is in `handle` with its event or holds `finish`'s, and a worker which has left
`handle` leaves no handler in progress, unless it is in a pool (`Waited`). That is where the destructor of the future is used: without it (mutant
`HandleReturnsAtOnce`) the lemma `WorkerWaits` is false, on which the uses after `finish` depend.

*Counters and records of odin.* `Counts` writes each counter as the cardinality of a set of requests (`Counted`, `Served`, `WithStatus`); a step moves
at most one request into one of them (`CardinalityStep`). For the two records, `Records` says which entries of both are in use, that none is there
twice, and how they are ordered (`InOrder`): the ring starts with the requests that are between the two locks, and goes on with those that are in the timings, in
the same order, as long as nobody has passed another. `Slot(j)` is the place of the j-th newest timing, and moves on with the index (`SlotMoves`).

*Headers.* `Headers` says where an insertion can be: in the payload of its connection (`WaitAt`) or in one block of it (`SentIn`), never in both or two (`SentOnce`) and never in
none (`NotLost`), for any interleaving of insertions and moves. `Separate` is about connections whose requests did not overlap: at most one of them
is active (`OneActive`), so that the payload is what it has inserted so far, in order (`OwnHeaders`), and empty when no handler is between its first insertion and the move. No lock is used in the argument, because none is held in the code.

*Answers.* What a consumer has taken of the channel is what was streamed before what is left in it (`TakenOf`), and every turn of a loop appends one
buffer to that (`TakeAppends`). `Answering` says how far a response is: between two buffers all that was taken is written (`BetweenBuffers`), within one all but the
rest of it (`WithinBuffer`), and after the loop the buffer taken last was the first last one, which was written as the end unless it was an empty one on HTTP/2 (`AllWritten`). That is so of every response. Of a well-formed one,
`StreamLeft` knows what there is to take: what the endpoint has streamed, or whole chunks of the file with the rest still to read, and after the last read a last buffer at the end, which is empty only if the file is
a number of whole chunks. Lengths are summed by a recursive function, of which `TotalAppend` is all that is needed: the sum is the length of
as many octets put together (`TotalIsLength`), so `Flattening` applies.

*Sessions.* The session's content is, for `SessionStore`, what the file has in plain values, or what the request that has opened the file is going to write of them. The step that saves is
then `Truncate`, unless the request has set nothing plain. The invariant `Sessions` says that the requests of a session that never met are one at a time
(`OneByOne`), and that the copy one has differs from the file, in plain values, by nothing but what it has set itself (`Copied`) until it has opened the file, which
is empty then (`Emptied`), so that the entries that `Write` leaves behind are none. What is cut of other values on the way (`ReadBack`) is not plain, and leaves the plain ones as they are (`PlainReadBack`). All steps about sessions that have met,
and the end of the program while a file is open, are `Spoil`.

### The HTTP/2 connection

*Types* (`Typed`). What is read as a frame header is one of the script's frames, and an unfinished frame has less than its length:
`read_frame` takes no more than is missing.

*Where the connection stands.* `Begin(fs)[n]` is where frame n begins in what the peer sends; `SentIsLaid` says that the units from there on are its header
and payload, and that the next frame begins where it ends. `At(n)` is how far the connection has used up what was sent, when
it is at frame n: at its beginning, or after what `unfinished` has of it. `InStep(n)` says that the one worker with a packet has the
units from `At(n)` to what has been received, that `state` is the one before frame n (`StateAt`), that `unfinished` is the beginning of its payload, and that,
unless a packet was cut within a header or the preface, what has not been received does not begin within one. `SyncInv` is that there is such an n as long as nothing failed
and no packets overlapped, and that a failure comes after a cut. It is inductive: each outcome of `read_frame` keeps n or goes on to n + 1, and `FrameRefused` needs a header that is
not complete, since `Conforming` peers respect `MaxFrameSize` (`RefusedIsCut`).

*What has been made of the frames.* `NothingIsLeft` and `ImplementsLog` compare `handled` with `RequestsOf(frames)`, which puts all frames
together. `Content(k)` says it for the first k frames: `headers`, `data`, `decoded`, `request` and `handled` are the first k parts (`FirstParts`) of
`BlockParts`, `BodyParts` and `RequestParts`, except that the block in progress is still in `decoded`, and a stream that is over has given its body away. `LogInv` joins it to
`InStep`. When a stream ends after k frames, its first k parts are all of them because no frame of the stream follows (`NothingAfter`), its block has
:path and :method (`PseudoThere`), and no CONTINUATION comes without its HEADERS (`NoBlockBefore`), so the request is the one that `RequestsOf` has at this place.

*Refinement.* `MoveRequest` is `HandleNext`: by `LogInv`, what it appends is the next of `RequestsOf(frames)`. A step that sets
`closed`, `lost` or `raced` is `Fail`, steps after a failure and those of peers that are not Plain are `NoPromise`, and the others stutter.

*`Flattening`.* `FlattenSeq` is a recursive function of the community modules. What it yields for a sequence of any length is proved without induction over data: `Flattens(f, parts, n)` says that
each f[i], up to n, is the one before with part i more; two such functions agree because of the least place where they would
differ, and one exists because of the least n that has none (`LeastNatural`). The frame lemmas above argue in the same way, about the first frame that would be an exception.

### HPACK

*The codecs.* `IntegerEncode`, `IntegerDecode`, `Bits`, `Number`, `Octets` and the loop of `HuffmanDecode` are recursive functions. That one exists is shown
once (`SolutionExists` of `Flattening`: if each value is determined by the one before, so is the function), and what it yields by an invariant over its
domain: a set that has 0, and n + 1 with each n, is everything up to the bound (`UpToInduction`), because otherwise it had a least exception. For integers, after i octets the decoder
has the value of the first i groups, and the weight of the next; below `Modulus` no remainder is lost. For Huffman's code, the decoder is at the beginning of a codeword, or
within one: bits that begin a codeword are no codeword themselves, so that the test for a known code succeeds at its last bit and not earlier, and the padding, up to seven
ones, yields nothing.

*Scripts.* What a peer has encoded of a block is a script, a sequence of parts, each of them a field or an update, with a *view* for each place between them: the
peer's table and its list of fields there (`IsScript`). `ReadsAs(octets, from, to)` says what the parser makes of one part, whatever follows it and whatever table it has, as long as
that begins with the table of `from`: it finds the peer's header, and `to` has it in addition. One lemma per form of field proves that what the
peer writes reads like this (`IndexedReads`, `IncrementalReads`, `LiteralReads`, `UpdateReads`), and one for each form of the serializer (`SerializedReads`). An eviction, by an insertion or an update,
leaves a prefix of the peer's table (`EvictedIs`); the parser, which drops less than the peer, still begins with it: entries have 32 octets at least, so that a table
with a limit of n octets has no more than n entries (`SizeOfAtLeast`), and none of these is dropped.

*Frames.* Fields are cut into frames anywhere; unless the peer was unusual, the frames together hold whole parts (`Parted`, `Remains`). `Follows(c)` says for each stage of a connection at which part
of the script the parser is: it has read the first k parts, `decoded_` is the k-th view's fields, `header_map_` begins with its table, and what is left in `payload` and
`frames` is the rest. `Understood` is that for all connections that are usual (their peers did nothing listed, and nobody has looked up index 0), with the types, and it
is inductive: a step of one connection leaves the others alone, but for `static`, with which they stop being usual. The theorems follow: at "done" nothing remains, so that the view is
the last one, and "failed" is no stage of a usual connection.

### Only model-checked

- `HangupIsReaped` and `EveryRequestEnds`: liveness is out of the prover's reach, and so is the fairness that `PacketIsProcessed` is about.
- That the violated properties are violated: a counterexample of a small instance is all that is needed.

`ImplementsTable` of `HttpsServer` is proved only: with one slot, as in `https_safety`, it says little, and `http_slots` has the same table with two.

The provers cannot use the induction theorems of the library. What is said of recursive functions and sequences of any length is proved by least counterexamples in first-order
logic instead, as described under `Flattening` and *The codecs*.

## Not modelled, and why

- Descriptor numbers of clients, failing system calls other than `accept` and the TLS handshake, and shutdown
  (the program has none).
- The bytes of requests and responses other than header blocks; an `on_read` of HTTP/1.1 that finds two requests in one read.
- In `HttpServer` and `HttpsServer`, handlers run within their task and throw only as asynchronous ones do; `Layer` has the policies, without the object's life.
- Acknowledgements of HTTP/2, and errors of writing other than that of a DATA frame (the code looks at no other).
- `std::exit` in `HttpsServer` (it is in `H2Connection`).
- More than five octets in an HPACK integer (they shift beyond the width), the values of priority, and
  `max_table_size`, which nothing reads.
- Data races within one insertion into a `std::vector` (`hpack.tx.payload`; between insertions everything may happen) or a `std::unordered_map` (the static table, `streams_`).
- Padding of DATA frames (`H2Connection`), and the error for a HEADERS frame with priority that is shorter than the four octets of it (`headers.cpp:36`; `Hpack`): malformed input.
- A session handler that calls `save()` itself, keys with `=` or a newline, and the types of session values.
- Percentiles, pages and style sheet of odin, query strings, the texts of status lines and headers, `set_content_length`, middlewares
  (never called): sequential code over text.
- Where `handle` is given a request by HTTP/2 whose frames two workers have mixed up: that is `H2Connection`.

## Plan

In order of importance; what is done is marked.

1. [done] `Connection`, `Runtime`, `Server`, `HttpServer`: the life cycle of connections.
2. [done] `ServerProofs`, `HttpServerProofs`: slots, references and events for all instances.
3. [done] `HttpsServer`: the loop, its lock, the drift of references.
4. [done] `H2Frames`, `RequestLog`, `H2Connection`: requests against packets; overlap of workers.
5. [done] `VariableInteger`, `Huffman`, `HpackTable`, `Hpack`: the decoder against RFC 7541's encoder and the serializer.
6. [done] `ResponseStream`: producer, channel and the two consumers.
7. [done] `Requests`, `Session`, `Odin`, `Layer`: a request through the layer and its extensions.
8. [done] `LayerProofs`: types, references, counters, records, header blocks, responses and sessions for all numbers of requests, connections and endpoints.
9. [done] `SlotTable`: what a server promises of its slots, implemented by both servers, with the step simulation proved.
10. [done] `HttpsServerProofs`: slots, references and the exclusion of readers for all instances.
11. [done] `Flattening`, `H2ConnectionProofs`: what `read_frame` bounds, that only cuts fail, and that the connection implements
    `RequestLog`, for all scripts and packets.
12. [done] `CodecProofs`, `HpackProofs`: integers and Huffman's code for all numbers and texts; that the parser understands its peers, for all blocks, frames and
    table sizes.
