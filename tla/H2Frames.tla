------------------------------ MODULE H2Frames ------------------------------
(***************************************************************************)
(* What a sequence of HTTP/2 frames means, whatever packets it comes in:   *)
(* the frames of protocols/h2.hpp, and the requests they carry.            *)
(*                                                                         *)
(* Bytes are units <<n, k>>: the k-th unit of frame n, header first; frame *)
(* 0 is the client preface.  A header block is the sequence of the frames  *)
(* that carry it; of its fields only the presence of :path and :method is  *)
(* kept.                                                                   *)
(***************************************************************************)
EXTENDS Integers, SequencesExt

CONSTANTS
    Stream,       \* stream identifiers
    HeaderSize,   \* HTTP2_FRAME_SIZE: units of a frame header
    MaxFrameSize  \* MAX_FRAME_SIZE

ASSUME FramesAssumption == HeaderSize \in Nat \ {0} /\ MaxFrameSize \in Nat

FrameType == {"SETTINGS", "HEADERS", "CONTINUATION", "DATA", "OTHER"}

(* valid: a SETTINGS length is a multiple of 6, a header block decodes.    *)
(* pseudo: the fragment has the fields :path and :method.                  *)
Frame == [type : FrameType, stream : Stream, length : Nat, valid : BOOLEAN,
          endStream : BOOLEAN, endHeaders : BOOLEAN, pseudo : BOOLEAN]

Units(n, from, to) == [k \in 1 .. to - from + 1 |-> <<n, from + k - 1>>]
UnitSet == Nat \X Nat

Request == [stream : Stream, headers : Seq(Nat), body : Seq(UnitSet)]

-----------------------------------------------------------------------------
(* The frames fs of an HTTP/2 peer that keeps to the protocol.             *)

IsBlock(f) == f.type \in {"HEADERS", "CONTINUATION"}

(* A header block is not interrupted, and ends. *)
BlocksAreWhole(fs) ==
    \A n \in DOMAIN fs :
        /\ IsBlock(fs[n]) /\ ~fs[n].endHeaders =>
            /\ n + 1 \in DOMAIN fs
            /\ fs[n + 1].type = "CONTINUATION" /\ fs[n + 1].stream = fs[n].stream
        /\ fs[n].type = "CONTINUATION" =>
            /\ n > 1 /\ IsBlock(fs[n - 1]) /\ ~fs[n - 1].endHeaders
            /\ ~fs[n].endStream /\ ~fs[n].pseudo

(* A stream is a block with :path and :method, data, and perhaps trailers, *)
(* a block without them that ends the stream; nothing follows its end.     *)
StreamsAreOrdered(fs) ==
    \A n \in DOMAIN fs : fs[n].type \in {"HEADERS", "DATA"} =>
        LET before == {m \in 1 .. n - 1 : fs[m].stream = fs[n].stream
                                          /\ fs[m].type \in {"HEADERS", "DATA"}}
        IN /\ \A m \in before : ~fs[m].endStream
           /\ fs[n].type = "DATA" => before # {}
           /\ fs[n].type = "HEADERS" =>
                /\ fs[n].pseudo <=> before = {}
                /\ before # {} => fs[n].endStream

Conforming(fs) ==
    /\ fs # << >> /\ fs[1].type = "SETTINGS"
    /\ \A n \in DOMAIN fs : fs[n].valid /\ fs[n].length <= MaxFrameSize
    /\ BlocksAreWhole(fs)
    /\ StreamsAreOrdered(fs)

HasTrailers(fs) == \E n \in DOMAIN fs : fs[n].type = "HEADERS" /\ ~fs[n].pseudo

(* END_STREAM on a HEADERS frame that a CONTINUATION follows. *)
EndsEarly(fs) == \E n \in DOMAIN fs :
    fs[n].type = "HEADERS" /\ fs[n].endStream /\ ~fs[n].endHeaders

(* Peers that keep to the protocol, and use neither of these.  *)
Plain(fs) == Conforming(fs) /\ ~HasTrailers(fs) /\ ~EndsEarly(fs)

(* What each frame adds to the header blocks, and to the body, of stream s. *)
BlockParts(fs, s) ==
    [n \in DOMAIN fs |-> IF fs[n].stream = s /\ IsBlock(fs[n]) THEN <<n>> ELSE << >>]

BodyParts(fs, s) ==
    [n \in DOMAIN fs |->
        IF fs[n].stream = s /\ fs[n].type = "DATA"
        THEN Units(n, HeaderSize + 1, HeaderSize + fs[n].length) ELSE << >>]

(* One request for each end of a stream, in the order of these ends, with  *)
(* the stream's header block and the payload of all of its DATA frames.    *)
RequestAt(fs, n) ==
    [stream  |-> fs[n].stream,
     headers |-> FlattenSeq(BlockParts(fs, fs[n].stream)),
     body    |-> FlattenSeq(BodyParts(fs, fs[n].stream))]

Ends(f) == f.type \in {"HEADERS", "DATA"} /\ f.endStream

RequestsOf(fs) ==
    FlattenSeq([n \in DOMAIN fs |-> IF Ends(fs[n]) THEN <<RequestAt(fs, n)>> ELSE << >>])
=============================================================================
