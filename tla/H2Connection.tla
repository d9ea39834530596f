---------------------------- MODULE H2Connection ----------------------------
(***************************************************************************)
(* connection<h2::protocol> (src/protocols/h2/connection.cpp) and the loop *)
(* of server<https>::on_read (src/https.cpp) that feeds it: packets of any *)
(* size are cut from the bytes a peer sends, and each call of process,     *)
(* made under lock_, consumes a preface, a frame, or a part of one.        *)
(* Between reading a packet, the calls of process and the move of          *)
(* the member request the lock is free.                                    *)
(*                                                                         *)
(* Bytes, frames and requests are those of H2Frames.  Left out: what the   *)
(* server writes, and stream::state, which is written and never read.  The *)
(* connection object outlives the model; when it does not is the subject   *)
(* of HttpsServer.                                                         *)
(***************************************************************************)
EXTENDS H2Frames

CONSTANTS
    Worker,       \* workers whose on_read runs for this connection
    Script,       \* the sequences of frames a peer may send
    PrefaceSize,  \* units of the client preface
    MaxPacket     \* size of a worker's buffer, in units

ASSUME H2Assumption ==
    /\ Script \subseteq Seq(Frame)
    /\ PrefaceSize \in Nat \ {0}
    /\ MaxPacket \in Nat \ {0}

VARIABLES
    frames,     \* what this peer sends
    wire,       \* units that have not been received yet
    cut,        \* history: a packet ended within a header or the preface
    raced,      \* history: a packet was received while another was processed
    pc,         \* where each worker is in on_read
    packet,     \* the rest of its packet, from pos to end
    state,      \* state_
    unfinished, \* unfinished_frame_
    decoded,    \* hpack.rx.decoded_: fragments of the current header block
    headers,    \* streams_[id].headers
    data,       \* streams_[id].data
    request,    \* the member request, as a sequence of at most one
    handled,    \* the requests given to behaviour_->handle, in that order
    closed,     \* closed_
    lost        \* "exited": std::exit; "garbled": bytes that are no header
                \* have been read as one, which is followed no further

netVars == <<frames, wire, cut, raced>>
streamVars == <<decoded, headers, data, request>>
vars == <<netVars, pc, packet, state, unfinished, streamVars, handled, closed, lost>>

(* The preface and the frames fs. *)
Sent(fs) ==
    Units(0, 1, PrefaceSize)
    \o FlattenSeq([n \in DOMAIN fs |-> Units(n, 1, HeaderSize + fs[n].length)])

NoFrame == [frame |-> 0, data |-> << >>]
TypeOK ==
    /\ frames \in Script
    /\ wire \in Seq(UnitSet)
    /\ cut \in BOOLEAN /\ raced \in BOOLEAN
    /\ pc \in [Worker -> {"read", "process", "request"}]
    /\ packet \in [Worker -> Seq(UnitSet)]
    /\ state \in {"CLIENT_PREFACE", "WAIT_CLIENT_SETTINGS", "IDLE"}
    /\ unfinished \in [frame : 0 .. Len(frames), data : Seq(UnitSet)]
    /\ decoded \in Seq(Nat)
    /\ headers \in [Stream -> Seq(Nat)]
    /\ data \in [Stream -> Seq(UnitSet)]
    /\ request \in Seq(Request) /\ Len(request) <= 1
    /\ handled \in Seq(Request)
    /\ closed \in BOOLEAN
    /\ lost \in {"no", "exited", "garbled"}

Init ==
    /\ frames \in Script
    /\ wire = Sent(frames)
    /\ cut = FALSE /\ raced = FALSE
    /\ pc = [w \in Worker |-> "read"]
    /\ packet = [w \in Worker |-> << >>]
    /\ state = "CLIENT_PREFACE"
    /\ unfinished = NoFrame
    /\ decoded = << >>
    /\ headers = [s \in Stream |-> << >>]
    /\ data = [s \in Stream |-> << >>]
    /\ request = << >>
    /\ handled = << >>
    /\ closed = FALSE
    /\ lost = "no"

-----------------------------------------------------------------------------
(* on_read.                                                                *)

AllRead == \A w \in Worker : pc[w] = "read"

(* A boundary in front of unit u separates a header from itself. *)
Splits(u) == u[2] > 1 /\ u[2] <= IF u[1] = 0 THEN PrefaceSize ELSE HeaderSize

(* SSL_read, under lock_. *)
Receive(w) ==
    /\ lost = "no"
    /\ pc[w] = "read"
    /\ \E len \in 1 .. Len(wire) :
        /\ len <= MaxPacket
        /\ packet' = [packet EXCEPT ![w] = SubSeq(wire, 1, len)]
        /\ wire' = SubSeq(wire, len + 1, Len(wire))
        /\ cut' = (cut \/ (len < Len(wire) /\ Splits(wire[len + 1])))
    /\ raced' = (raced \/ ~AllRead)
    /\ pc' = [pc EXCEPT ![w] = "process"]
    /\ UNCHANGED <<frames, state, unfinished, streamVars, handled, closed, lost>>

(* process returns eEof: the worker goes on reading. *)
PacketDone(w) ==
    /\ lost = "no"
    /\ pc[w] = "process"
    /\ packet[w] = << >>
    /\ pc' = [pc EXCEPT ![w] = "read"]
    /\ UNCHANGED <<netVars, packet, state, unfinished, streamVars, handled, closed, lost>>

(* An exception drops the packet and closes the connection, which is read  *)
(* from all the same.                                                      *)
Throw(w) ==
    /\ closed' = TRUE
    /\ packet' = [packet EXCEPT ![w] = << >>]
    /\ pc' = [pc EXCEPT ![w] = "read"]
    /\ UNCHANGED <<netVars, handled, lost>>

(* The request is moved out of the connection and handled.  When another   *)
(* worker has moved it, it has no stream id and value() throws.            *)
MoveRequest(w) ==
    /\ lost = "no"
    /\ pc[w] = "request"
    /\ request # << >>
    /\ handled' = handled \o request
    /\ request' = << >>
    /\ pc' = [pc EXCEPT ![w] = "process"]
    /\ UNCHANGED <<netVars, packet, state, unfinished, decoded, headers, data, closed, lost>>

RequestGone(w) ==
    /\ lost = "no"
    /\ pc[w] = "request"
    /\ request = << >>
    /\ Throw(w)
    /\ UNCHANGED <<state, unfinished, streamVars>>

-----------------------------------------------------------------------------
(* process.                                                                *)

Processing(w, s) ==
    /\ lost = "no"
    /\ pc[w] = "process"
    /\ packet[w] # << >>
    /\ state = s

PrefaceArrived(w) ==
    /\ Len(packet[w]) >= PrefaceSize
    /\ SubSeq(packet[w], 1, PrefaceSize) = Units(0, 1, PrefaceSize)

(* Defect: another state than the one that waits for SETTINGS. *)
PrefaceOpen(w) ==
    /\ Processing(w, "CLIENT_PREFACE")
    /\ PrefaceArrived(w)
    /\ packet' = [packet EXCEPT ![w] = SubSeq(@, PrefaceSize + 1, Len(@))]
    /\ state' = "OPEN"
    /\ UNCHANGED <<netVars, pc, unfinished, streamVars, handled, closed, lost>>

Preface(w) ==
    /\ Processing(w, "CLIENT_PREFACE")
    /\ PrefaceArrived(w)
    /\ packet' = [packet EXCEPT ![w] = SubSeq(@, PrefaceSize + 1, Len(@))]
    /\ state' = "WAIT_CLIENT_SETTINGS"
    /\ UNCHANGED <<netVars, pc, unfinished, streamVars, handled, closed, lost>>

PrefaceInvalid(w) ==
    /\ Processing(w, "CLIENT_PREFACE")
    /\ ~PrefaceArrived(w)
    /\ Throw(w)
    /\ UNCHANGED <<state, unfinished, streamVars>>

(* read_frame. *)
Continuing == unfinished # NoFrame

HeaderArrived(w) ==
    /\ Len(packet[w]) >= HeaderSize
    /\ packet[w][1][1] # 0
    /\ SubSeq(packet[w], 1, HeaderSize) = Units(packet[w][1][1], 1, HeaderSize)

FrameNumber(w) == IF Continuing THEN unfinished.frame ELSE packet[w][1][1]

(* Defect: a header at the very end of the packet is refused. *)
FrameRefusedAtEnd(w) ==
    /\ ~Continuing
    /\ \/ Len(packet[w]) <= HeaderSize
       \/ HeaderArrived(w) /\ frames[FrameNumber(w)].length > MaxFrameSize

(* eInvalid (a header that is not complete) or eTooBig: nothing is used up. *)
FrameRefused(w) ==
    /\ ~Continuing
    /\ \/ Len(packet[w]) < HeaderSize
       \/ HeaderArrived(w) /\ frames[FrameNumber(w)].length > MaxFrameSize

(* Any length, type and flags may result: not followed further. *)
Garbled(w) ==
    /\ lost = "no"
    /\ pc[w] = "process"
    /\ state # "CLIENT_PREFACE"
    /\ ~Continuing
    /\ Len(packet[w]) >= HeaderSize
    /\ ~HeaderArrived(w)
    /\ lost' = "garbled"
    /\ UNCHANGED <<netVars, pc, packet, state, unfinished, streamVars, handled, closed>>

(* What the call of read_frame reads: the payload so far, with what the    *)
(* packet adds to it, and the rest of the packet.                          *)
Payload(w) == IF Continuing THEN packet[w]
              ELSE SubSeq(packet[w], HeaderSize + 1, Len(packet[w]))

(* Defect: what has been read of the frame before is not subtracted. *)
MissingForgotten(w) == frames[FrameNumber(w)].length

Missing(w) == frames[FrameNumber(w)].length - Len(unfinished.data)

Taken(w) == IF Len(Payload(w)) < Missing(w) THEN Len(Payload(w)) ELSE Missing(w)
Accumulated(w) == unfinished.data \o SubSeq(Payload(w), 1, Taken(w))
Rest(w) == SubSeq(Payload(w), Taken(w) + 1, Len(Payload(w)))

(* A frame, or a part of one, can be read. *)
FrameReadable(w, s) ==
    /\ Processing(w, s)
    /\ Continuing \/ HeaderArrived(w)
    /\ ~FrameRefused(w)

(* eInsufficientData: wait for the next packet. *)
FrameIncomplete(w) ==
    /\ \E s \in {"WAIT_CLIENT_SETTINGS", "IDLE"} : FrameReadable(w, s)
    /\ Len(Accumulated(w)) < frames[FrameNumber(w)].length
    /\ unfinished' = [frame |-> FrameNumber(w), data |-> Accumulated(w)]
    /\ packet' = [packet EXCEPT ![w] = Rest(w)]
    /\ UNCHANGED <<netVars, pc, state, streamVars, handled, closed, lost>>

FrameComplete(w, s) ==
    /\ FrameReadable(w, s)
    /\ Len(Accumulated(w)) >= frames[FrameNumber(w)].length

(* Defect: the rest of the packet is dropped with the frame. *)
ConsumePacket(w) ==
    /\ unfinished' = NoFrame
    /\ packet' = [packet EXCEPT ![w] = << >>]

(* ... and the frame is used up. *)
Consume(w) ==
    /\ unfinished' = NoFrame
    /\ packet' = [packet EXCEPT ![w] = Rest(w)]

Settings(w) ==
    /\ FrameComplete(w, "WAIT_CLIENT_SETTINGS")
    /\ frames[FrameNumber(w)].type = "SETTINGS"
    /\ Consume(w)
    /\ IF frames[FrameNumber(w)].valid
       THEN state' = "IDLE" /\ UNCHANGED closed
       ELSE closed' = TRUE /\ UNCHANGED state
    /\ UNCHANGED <<netVars, pc, streamVars, handled, lost>>

(* Another frame than SETTINGS, or none, throws. *)
SettingsMissing(w) ==
    /\ \/ Processing(w, "WAIT_CLIENT_SETTINGS") /\ FrameRefused(w) /\ UNCHANGED unfinished
       \/ /\ FrameComplete(w, "WAIT_CLIENT_SETTINGS")
          /\ frames[FrameNumber(w)].type # "SETTINGS"
          /\ unfinished' = NoFrame
    /\ Throw(w)
    /\ UNCHANGED <<state, streamVars>>

(* terminate(), then std::exit(1). *)
Exit(w) ==
    /\ Processing(w, "IDLE")
    /\ FrameRefused(w)
    /\ closed' = TRUE
    /\ lost' = "exited"
    /\ UNCHANGED <<netVars, pc, packet, state, unfinished, streamVars, handled>>

(* SETTINGS, PING, WINDOW_UPDATE, RST_STREAM and unknown types. *)
OtherFrame(w) ==
    /\ FrameComplete(w, "IDLE")
    /\ frames[FrameNumber(w)].type \in {"SETTINGS", "OTHER"}
    /\ Consume(w)
    /\ UNCHANGED <<netVars, pc, state, streamVars, handled, closed, lost>>

(* finish_stream: a request with the saved headers and the body, which     *)
(* moves into it; without :path and :method, the request of an error page. *)
FinishStream(w, s, hs, body) ==
    /\ IF \E i \in DOMAIN hs : frames[hs[i]].pseudo
       THEN /\ request' = <<[stream |-> s, headers |-> hs, body |-> body]>>
            /\ data' = [data EXCEPT ![s] = << >>]
       ELSE /\ request' = <<[stream |-> s, headers |-> << >>, body |-> << >>]>>
            /\ data' = [data EXCEPT ![s] = body]
    /\ pc' = [pc EXCEPT ![w] = "request"]

IsHeaders(w) == frames[FrameNumber(w)].type \in {"HEADERS", "CONTINUATION"}

(* terminate() when HPACK reports an error, or an exception when it runs   *)
(* out of data.  What was decoded before remains in decoded_.              *)
HeadersInvalid(w) ==
    /\ FrameComplete(w, "IDLE")
    /\ IsHeaders(w) /\ ~frames[FrameNumber(w)].valid
    /\ unfinished' = NoFrame
    /\ decoded' \in {decoded, Append(decoded, FrameNumber(w))}
    /\ \/ /\ packet' = [packet EXCEPT ![w] = Rest(w)]
          /\ closed' = TRUE
          /\ UNCHANGED <<netVars, pc, handled, lost>>
       \/ Throw(w)
    /\ UNCHANGED <<state, headers, data, request>>

(* END_HEADERS or END_STREAM ends the block; it replaces what the stream   *)
(* had, and makes a request if END_STREAM is set.                          *)
Headers(w) ==
    /\ FrameComplete(w, "IDLE")
    /\ IsHeaders(w) /\ frames[FrameNumber(w)].valid
    /\ Consume(w)
    /\ LET f == frames[FrameNumber(w)]
           block == Append(decoded, FrameNumber(w))
       IN IF f.endHeaders \/ f.endStream
          THEN /\ decoded' = << >>
               /\ headers' = [headers EXCEPT ![f.stream] = block]
               /\ IF f.endStream
                  THEN FinishStream(w, f.stream, block, data[f.stream])
                  ELSE UNCHANGED <<pc, data, request>>
          ELSE decoded' = block /\ UNCHANGED <<pc, headers, data, request>>
    /\ UNCHANGED <<netVars, state, handled, closed, lost>>

(* The stream exists: process has just made it in streams_.  *)
Data(w) ==
    /\ FrameComplete(w, "IDLE")
    /\ frames[FrameNumber(w)].type = "DATA"
    /\ Consume(w)
    /\ LET f == frames[FrameNumber(w)]
           body == data[f.stream] \o Accumulated(w)
       IN IF f.endStream
          THEN FinishStream(w, f.stream, headers[f.stream], body)
          ELSE data' = [data EXCEPT ![f.stream] = body] /\ UNCHANGED <<pc, request>>
    /\ UNCHANGED <<netVars, state, decoded, headers, handled, closed, lost>>

-----------------------------------------------------------------------------
OnRead(w) ==
    \/ Receive(w) \/ PacketDone(w) \/ MoveRequest(w) \/ RequestGone(w)
    \/ Preface(w) \/ PrefaceInvalid(w)
    \/ Settings(w) \/ SettingsMissing(w)
    \/ FrameIncomplete(w) \/ Garbled(w) \/ Exit(w)
    \/ OtherFrame(w) \/ Headers(w) \/ HeadersInvalid(w) \/ Data(w)

(* The peer says no more, or the program has ended. *)
Quiet ==
    /\ lost # "no" \/ (wire = << >> /\ AllRead)
    /\ UNCHANGED vars

Next == (\E w \in Worker : OnRead(w)) \/ Quiet

Spec == Init /\ [][Next]_vars

-----------------------------------------------------------------------------
Log == INSTANCE RequestLog WITH failed <- (closed \/ lost # "no" \/ raced)

(* However a Plain peer's bytes are cut into packets: the requests that are handled   *)
(* are those the frames carry, with their own headers and whole bodies,    *)
(* each once and in order, until the connection fails.                     *)
ImplementsLog == Log!LogSpec

(* read_frame continues a payload that a packet cuts, but not a header:    *)
(* a packet that ends within a header, or within the preface, is the only  *)
(* thing by which such a peer can make the connection fail.                *)
OnlyCutsFail == Plain(frames) /\ (closed \/ lost # "no") => cut \/ raced

(* If nothing failed, no request is left behind once all is read.          *)
NothingIsLeft ==
    Plain(frames) /\ ~closed /\ lost = "no" /\ ~raced /\ wire = << >> /\ AllRead =>
        /\ handled = RequestsOf(frames)
        /\ unfinished = NoFrame

-----------------------------------------------------------------------------
(* What comments of connection.cpp say.                                    *)

(* "Continue parsing a frame that wasn't complete in the last packet       *)
(* received": as long as nothing has failed, what an unfinished frame has  *)
(* is the beginning of its payload.                                        *)
ContinuesLastPacket ==
    unfinished # NoFrame /\ ~closed =>
        unfinished.data = Units(unfinished.frame, HeaderSize + 1,
                                HeaderSize + Len(unfinished.data))

(* "Save the headers for later (until after request body, or now if        *)
(* END_STREAM is set.)": a request has the block with :path and :method.   *)
HeadersAreSaved ==
    Conforming(frames) => \A i \in DOMAIN handled : handled[i].headers # << >>
=============================================================================
