--------------------------- MODULE ResponseStream ---------------------------
(***************************************************************************)
(* The body of http_response (include/http/response.hpp): buffers in a     *)
(* channel, some of which a chunk event streams only when they are asked   *)
(* for; and what the finish callbacks of servers/http.cpp and https.cpp    *)
(* write of them.  A buffer is its length and its flag, which are what the *)
(* consumers look at.                                                      *)
(***************************************************************************)
EXTENDS Requests

CONSTANTS
    ChunkSize, \* 16384: octets that the file handler reads at a time
    FrameSize  \* 16384: octets of a DATA frame

ASSUME StreamAssumption == ChunkSize \in Nat \ {0} /\ FrameSize \in Nat \ {0}

VARIABLES
    channel,     \* of each response: buffers streamed and not taken
    unread,      \* octets left in the file of the chunk event, or one of the two below
    buf, offset, \* the buffer that the HTTP/2 consumer cuts up, and how far
    sent,        \* lengths written, and whether they ended the stream
    streamed     \* history: all buffers streamed

streamVars == <<channel, unread, buf, offset, sent, streamed>>

NoFile == -1 \* there is no chunk event
Closed == -2 \* there is one, but it has closed its file

Buffer(len, last) == [len |-> len, last |-> last]
Body(len) == Buffer(len, TRUE)
Stream(len) == Buffer(len, FALSE)
Finish == Buffer(0, TRUE)

StreamTypeOK ==
    \A r \in Request :
        /\ \A i \in DOMAIN streamed[r] :
               streamed[r][i].len \in Nat /\ streamed[r][i].last \in BOOLEAN
        /\ IsSuffix(channel[r], streamed[r])
        /\ unread[r] \in Nat \cup {NoFile, Closed} /\ offset[r] \in 0 .. buf[r].len

StreamInit ==
    /\ channel = [r \in Request |-> << >>] /\ streamed = [r \in Request |-> << >>]
    /\ unread = [r \in Request |-> NoFile]
    /\ buf = [r \in Request |-> Stream(0)] /\ offset = [r \in Request |-> 0]
    /\ sent = [r \in Request |-> << >>]

(* The handler streams buffers, and may leave the rest to a chunk event    *)
(* that reads a file of so many octets.                                    *)
Respond(r, buffers, file) ==
    /\ channel' = [channel EXCEPT ![r] = buffers]
    /\ streamed' = [streamed EXCEPT ![r] = buffers]
    /\ unread' = [unread EXCEPT ![r] = file]
    /\ UNCHANGED <<buf, offset, sent>>

(* What the chunk event of the file handler streams, if there is one. *)
ChunkOf(rest) ==
    IF rest < 0 THEN << >>
    ELSE IF rest < ChunkSize THEN <<Body(rest)>> ELSE <<Stream(ChunkSize)>>

(* The channel after trigger(chunk). *)
Triggered(r) == channel[r] \o ChunkOf(unread[r])

(* trigger reads from a FILE that an earlier one has closed: the event     *)
(* stays registered, and buffers streamed before it kept the loop going.   *)
ReadsClosed(r) == unread[r] = Closed

(* wait, which never ends without a buffer. *)
Starved(r) == Triggered(r) = << >> /\ ~ReadsClosed(r)

(* trigger and wait. *)
TakeBuffer(r) ==
    /\ ~ReadsClosed(r) /\ ~Starved(r)
    /\ channel' = [channel EXCEPT ![r] = Tail(Triggered(r))]
    /\ streamed' = [streamed EXCEPT ![r] = @ \o SubSeq(Triggered(r), Len(channel[r]) + 1, Len(Triggered(r)))]
    /\ unread' = [unread EXCEPT ![r] = IF @ = NoFile THEN NoFile
                                       ELSE IF @ < ChunkSize THEN Closed ELSE @ - ChunkSize]

Written(r, len, end) == sent' = [sent EXCEPT ![r] = Append(@, [len |-> len, end |-> end])]

(* HTTP/1.1: one turn of the loop; without MSG_MORE at the end. *)
WriteBuffer(r) ==
    /\ TakeBuffer(r)
    /\ Written(r, Head(Triggered(r)).len, Head(Triggered(r)).last)
    /\ UNCHANGED <<buf, offset>>

(* HTTP/2: the outer loop, and a turn of the inner one. *)
CutBuffer(r) ==
    /\ TakeBuffer(r)
    /\ buf' = [buf EXCEPT ![r] = Head(Triggered(r))]
    /\ offset' = [offset EXCEPT ![r] = 0]
    /\ UNCHANGED sent

(* Defect: the end is looked for beyond the buffer. *)
EndsStreamBeyond(r, slice) == offset[r] + slice > buf[r].len /\ buf[r].last

EndsStream(r, slice) == offset[r] + slice >= buf[r].len /\ buf[r].last

WriteFrame(r) ==
    LET rest == buf[r].len - offset[r]
        slice == IF rest < FrameSize THEN rest ELSE FrameSize
    IN /\ rest > 0
       /\ Written(r, slice, EndsStream(r, slice))
       /\ offset' = [offset EXCEPT ![r] = @ + slice]
       /\ UNCHANGED <<channel, unread, buf, streamed>>
=============================================================================
