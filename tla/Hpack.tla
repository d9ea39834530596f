------------------------------- MODULE Hpack -------------------------------
(***************************************************************************)
(* parser<h2::hpack> (src/protocols/h2/hpack.cpp) of several connections,  *)
(* with the payload of HEADERS frames (headers.cpp), and the peers' side   *)
(* of RFC 7541, which the code relies on.                                  *)
(*                                                                         *)
(* A peer encodes header fields with its dynamic table, sends the block in *)
(* one or two frames, and the server reads it field by field.  A block is  *)
(* encoded after the last one has been read: frames arrive in order, so    *)
(* that encoding ahead would make no difference.  The connection is locked *)
(* while it parses, but the static table belongs to all connections.       *)
(* END_STREAM is the subject of H2Connection.                              *)
(***************************************************************************)
EXTENDS HpackTable

CONSTANTS
    Conn,      \* connections, each with its own pair of tables
    Peer,      \* which peers may be together: functions on Conn to their kind, "rfc",
               \* "serializer" (the one of this repository) or "other", and the number
               \* of fields (of blocks, but for "rfc") that they send (a bound)
    Field,     \* headers that are sent with a table
    Response,  \* lists of headers that the serializer is given
    Malformed, \* blocks of other peers
    Coded,     \* texts for which an RFC peer uses Huffman's code
    Layout,    \* of frames: octets for the pad length and the priority before
               \* the fragment, and octets of padding after it
    TableSize, \* octets of a peer's dynamic table, unless updated
    Update,    \* sizes to which it may be updated
    MaxInteger \* integers that are checked (a bound)

PeersAreSound ==
    /\ Peer \subseteq [Conn -> [kind : {"rfc", "serializer", "other"}, fields : Nat]]
    /\ Layout \subseteq [before : {0, 1, 5, 6}, pad : Nat]
    /\ TableSize \in Nat /\ TableSize < Modulus /\ Update \subseteq 0 .. TableSize
    /\ MaxInteger \in Nat /\ MaxInteger < Modulus
    /\ Malformed \subseteq Seq(Octet)

ASSUME HpackAssumption == PeersAreSound

(* What is written as a literal has a spelling. *)
LiteralsAreSpelled ==
    /\ Field \subseteq Header
    /\ \A h \in Field : h.value \in DOMAIN Spelling => h.key \in DOMAIN Spelling
    /\ Response \subseteq Seq(Header)
    /\ \A r \in Response : \A i \in DOMAIN r :
        /\ KeyIndexed(r[i]) = {} => r[i].key \in DOMAIN Spelling
        /\ FullyIndexed(r[i]) = {} => r[i].value \in DOMAIN Spelling

ASSUME SpellingAssumption == LiteralsAreSpelled

VARIABLES
    peer,         \* of each connection
    table, limit, \* the peer's dynamic table, newest first, and its size
    fields, block,\* what the peer has encoded of the current block
    budget,       \* headers that it may still send
    frames,       \* frames that have been sent and not been parsed
    unusual,      \* history: the peer did what the parser has no answer to
    stage,        \* of the connection
    payload,      \* the rest of the frame that is parsed, from pos on
    last,         \* END_HEADERS of that frame
    header_map_,  \* the parser's dynamic table, newest first
    decoded_,     \* headers of the current block
    headers,      \* streams_[id].headers
    static,       \* entries of the static table
    exited        \* the program has ended

peerVars == <<peer, table, limit, fields, block, budget>>
Plain == [before |-> 0, pad |-> 0]
parserVars == <<payload, last, header_map_, decoded_, headers>>
vars == <<peerVars, frames, unusual, stage, parserVars, static, exited>>

Stage == {"encode", "receive", "parse", "done", "failed"}

TypeOK ==
    /\ peer \in Peer
    /\ limit \in [Conn -> 0 .. TableSize] /\ \A c \in Conn : budget[c] \in 0 .. peer[c].fields
    /\ unusual \in [Conn -> BOOLEAN] /\ last \in [Conn -> BOOLEAN]
    /\ stage \in [Conn -> Stage]
    /\ static \in {61, 62} /\ exited \in BOOLEAN
    /\ \A c \in Conn :
        /\ payload[c] \in Seq(Octet) /\ block[c] \in Seq(Seq(Octet))
        /\ Len(frames[c]) <= 2
        /\ stage[c] = "parse" => decoded_[c] \in Seq(Header)

Init ==
    /\ peer \in Peer
    /\ table = [c \in Conn |-> << >>] /\ limit = [c \in Conn |-> TableSize]
    /\ fields = [c \in Conn |-> << >>] /\ block = [c \in Conn |-> << >>]
    /\ budget = [c \in Conn |-> peer[c].fields]
    /\ frames = [c \in Conn |-> << >>]
    /\ unusual = [c \in Conn |-> FALSE]
    /\ stage = [c \in Conn |-> "encode"]
    /\ payload = [c \in Conn |-> << >>] /\ last = [c \in Conn |-> FALSE]
    /\ header_map_ = [c \in Conn |-> << >>] /\ decoded_ = [c \in Conn |-> << >>]
    /\ headers = [c \in Conn |-> << >>]
    /\ static = 61 /\ exited = FALSE

-----------------------------------------------------------------------------
(* The peer, by RFC 7541.                                                  *)

EntrySize(h) == 32 + Len(Spelling[h.key]) + Len(Spelling[h.value])

SizeOf(entries) ==
    LET sum[i \in 0 .. Len(entries)] ==
            IF i = 0 THEN 0 ELSE sum[i - 1] + EntrySize(entries[i])
    IN sum[Len(entries)]

(* The newest entries that fit. *)
Evicted(entries, size) ==
    LET Fits(n) == SizeOf(SubSeq(entries, 1, n)) <= size
    IN SubSeq(entries, 1, CHOOSE n \in 0 .. Len(entries) :
                              Fits(n) /\ (n < Len(entries) => ~Fits(n + 1)))

EntryAt(c, i) == IF i <= 61 THEN STATIC_HEADER_TABLE[i] ELSE table[c][i - 61]
Indices(c) == 1 .. 61 + Len(table[c])

Literal(text) ==
    IF text \in Coded THEN EncodedString(text)
    ELSE IntegerEncode(7, Len(Spelling[text])) \o Spelling[text]

Index(N, flag, i) == Flagged(flag, IntegerEncode(N, i))

(* Once it has done something unusual, a peer sends no other block, which  *)
(* bounds the model.                                                       *)
Encoding(c, kind) ==
    /\ ~exited
    /\ stage[c] \in {"encode", "done"} /\ peer[c].kind = kind
    /\ budget[c] > 0 /\ ~unusual[c]
    /\ stage' = [stage EXCEPT ![c] = "encode"]
    /\ budget' = [budget EXCEPT ![c] = @ - 1]
    /\ UNCHANGED <<peer, frames, parserVars, static, exited>>

Encoded(c, h, octets) ==
    /\ Encoding(c, "rfc")
    /\ fields' = [fields EXCEPT ![c] = IF stage[c] = "done" THEN <<h>> ELSE Append(@, h)]
    /\ block' = [block EXCEPT ![c] = Append(@, octets)]
    /\ UNCHANGED limit

EncodeIndexed(c) ==
    \E i \in Indices(c) :
        /\ EntryAt(c, i) \in Field
        /\ Encoded(c, EntryAt(c, i), Index(7, 128, i))
        /\ unusual' = [unusual EXCEPT ![c] = i = 61]
        /\ UNCHANGED table

(* The name is that of an entry, or a new one with the index 0. *)
Named(c, h) ==
    {i \in Indices(c) : EntryAt(c, i).key = h.key}
    \cup (IF h.key \in DOMAIN Spelling THEN {0} ELSE {})

Literally(N, flag, i, h) ==
    Index(N, flag, i) \o (IF i = 0 THEN Literal(h.key) ELSE << >>) \o Literal(h.value)

EncodeIncremental(c) ==
    \E h \in {f \in Field : f.value \in DOMAIN Spelling} : \E i \in Named(c, h) :
        /\ Encoded(c, h, Literally(6, 64, i, h))
        /\ table' = [table EXCEPT ![c] = Evicted(<<h>> \o @, limit[c])]
        /\ unusual' = [unusual EXCEPT ![c] = i = 61]

EncodeLiteral(c) ==
    \E h \in {f \in Field : f.value \in DOMAIN Spelling} : \E i \in Named(c, h) :
        /\ Encoded(c, h, Literally(4, 0, i, h))
        /\ unusual' = [unusual EXCEPT ![c] = i = 61]
        /\ UNCHANGED table

(* At the beginning of a block. *)
EncodeUpdate(c) ==
    /\ Encoding(c, "rfc") /\ block[c] = << >>
    /\ \E size \in Update :
        /\ limit' = [limit EXCEPT ![c] = size]
        /\ table' = [table EXCEPT ![c] = Evicted(@, size)]
        /\ block' = [block EXCEPT ![c] = <<Index(5, 32, size)>>]
    /\ fields' = [fields EXCEPT ![c] = << >>]
    /\ UNCHANGED unusual

(* serialize compares names in lower case, but writes one that the static  *)
(* table does not have as it is.                                           *)
AsWritten(h) == IF KeyIndexed(h) = {} THEN h ELSE [h EXCEPT !.key = ToLower(@)]

EncodeResponse(c) ==
    /\ Encoding(c, "serializer") /\ block[c] = << >>
    /\ \E r \in Response :
        /\ fields' = [fields EXCEPT ![c] = [i \in DOMAIN r |-> AsWritten(r[i])]]
        /\ \E octets \in [DOMAIN r -> UNION {SerializedHeader(r[i]) : i \in DOMAIN r}] :
            /\ \A i \in DOMAIN r : octets[i] \in SerializedHeader(r[i])
            /\ block' = [block EXCEPT ![c] = octets]
        /\ unusual' = [unusual EXCEPT ![c] = \E i \in DOMAIN r : 61 \in KeyIndexed(r[i])]
    /\ UNCHANGED <<table, limit>>

EncodeMalformed(c) ==
    /\ Encoding(c, "other") /\ block[c] = << >>
    /\ \E octets \in Malformed : block' = [block EXCEPT ![c] = <<octets>>]
    /\ unusual' = [unusual EXCEPT ![c] = TRUE]
    /\ UNCHANGED <<table, limit, fields>>

(* In one frame, or in two when cut is not 0.  A frame is the octets       *)
(* before its fragment, the padding after it, and END_HEADERS.             *)
Send(c) ==
    /\ ~exited
    /\ stage[c] = "encode" /\ block[c] # << >>
    /\ stage' = [stage EXCEPT ![c] = "receive"]
    /\ \E cut \in 0 .. Len(FlattenSeq(block[c])) : \E layout \in IF cut = 0 THEN Layout ELSE {Plain} :
        LET octets == FlattenSeq(block[c])
            Frame(l, fragment, end) ==
                [before |-> l.before, pad |-> l.pad, fragment |-> fragment, end |-> end]
        IN /\ frames' = [frames EXCEPT ![c] =
                  IF cut = 0 THEN <<Frame(layout, octets, TRUE)>>
                  ELSE <<Frame(Plain, SubSeq(octets, 1, cut), FALSE),
                         Frame(Plain, SubSeq(octets, cut + 1, Len(octets)), TRUE)>>]
           /\ unusual' = [unusual EXCEPT ![c] =
                  \/ @
                  \/ cut = Len(octets)
                  \/ \A n \in 0 .. Len(block[c]) : cut # Len(FlattenSeq(SubSeq(block[c], 1, n)))
                  \/ layout.pad > layout.before]
    /\ block' = [block EXCEPT ![c] = << >>]
    /\ UNCHANGED <<peer, table, limit, fields, budget, parserVars, static, exited>>

-----------------------------------------------------------------------------
(* The parser.                                                             *)

Receiving(c) ==
    /\ ~exited
    /\ stage[c] = "receive" /\ frames[c] # << >>
    /\ UNCHANGED <<peerVars, unusual, header_map_, decoded_, headers, static>>

(* reserve() is asked for the octets before the block less the padding: a  *)
(* difference below zero is a length_error.                                *)
Reserved(f) == f.pad <= f.before

(* The payload of the frame. *)
StartFrame(c) ==
    /\ Receiving(c)
    /\ Head(frames[c]).fragment # << >> /\ Reserved(Head(frames[c]))
    /\ payload' = [payload EXCEPT ![c] = Head(frames[c]).fragment]
    /\ last' = [last EXCEPT ![c] = Head(frames[c]).end]
    /\ frames' = [frames EXCEPT ![c] = Tail(@)]
    /\ stage' = [stage EXCEPT ![c] = "parse"]
    /\ UNCHANGED exited

(* It throws, or asserts that something is left beside the padding. *)
RefuseFrame(c) ==
    /\ Receiving(c)
    /\ \/ Head(frames[c]).fragment = << >> /\ exited' = TRUE /\ UNCHANGED stage
       \/ /\ Head(frames[c]).fragment # << >> /\ ~Reserved(Head(frames[c]))
          /\ stage' = [stage EXCEPT ![c] = "failed"] /\ UNCHANGED exited
    /\ UNCHANGED <<payload, last, frames>>

(* The kind of the next field, and the bits of its first integer. *)
Start(c) == payload[c][1]

Integer(c) == FirstInteger(payload[c])
AfterInteger(c) == AfterFirst(payload[c])
ByIndex(c) == HeaderByIndex(Integer(c), static, header_map_[c])
LiteralField(c) == ParseLiteral(payload[c], static, header_map_[c])

Parsing(c) ==
    /\ ~exited
    /\ stage[c] = "parse"
    /\ UNCHANGED <<peerVars, frames, unusual, last, exited>>

ReadField(c, header, rest) ==
    /\ Parsing(c)
    /\ decoded_' = [decoded_ EXCEPT ![c] = Append(@, header)]
    /\ payload' = [payload EXCEPT ![c] = rest]
    /\ UNCHANGED <<stage, headers>>

(* Defect: each use of index 0 makes another entry. *)
ReadIndexedInserting(c) ==
    /\ payload[c] # << >> /\ Start(c) >= 128
    /\ ByIndex(c).error = "none"
    /\ ReadField(c, ByIndex(c).header, AfterInteger(c))
    /\ static' = IF Integer(c) = 0 THEN static + 1 ELSE static
    /\ UNCHANGED header_map_

ReadIndexed(c) ==
    /\ payload[c] # << >> /\ Start(c) >= 128
    /\ ByIndex(c).error = "none"
    /\ ReadField(c, ByIndex(c).header, AfterInteger(c))
    /\ static' = IF Integer(c) = 0 THEN 62 ELSE static
    /\ UNCHANGED header_map_

(* Defect: the new entry is put at the end. *)
ReadIncrementalAtEnd(c) ==
    /\ payload[c] # << >> /\ Start(c) \in 64 .. 127
    /\ LiteralField(c).error = "none"
    /\ ReadField(c, LiteralField(c).header, LiteralField(c).rest)
    /\ header_map_' = [header_map_ EXCEPT ![c] = Append(@, LiteralField(c).header)]
    /\ UNCHANGED static

(* Nothing is evicted. *)
ReadIncremental(c) ==
    /\ payload[c] # << >> /\ Start(c) \in 64 .. 127
    /\ LiteralField(c).error = "none"
    /\ ReadField(c, LiteralField(c).header, LiteralField(c).rest)
    /\ header_map_' = [header_map_ EXCEPT ![c] = <<LiteralField(c).header>> \o @]
    /\ UNCHANGED static

(* A size in octets, which is compared with a number of entries. *)
ReadUpdate(c) ==
    /\ payload[c] # << >> /\ Start(c) \in 32 .. 63
    /\ Parsing(c)
    /\ header_map_' = [header_map_ EXCEPT ![c] =
                           IF Integer(c) < Len(@) THEN SubSeq(@, 1, Integer(c)) ELSE @]
    /\ payload' = [payload EXCEPT ![c] = AfterInteger(c)]
    /\ UNCHANGED <<stage, decoded_, headers, static>>

ReadLiteral(c) ==
    /\ payload[c] # << >> /\ Start(c) < 32
    /\ LiteralField(c).error = "none"
    /\ ReadField(c, LiteralField(c).header, LiteralField(c).rest)
    /\ UNCHANGED <<header_map_, static>>

(* An error, or an exception: either way the connection is closed. *)
ReadError(c) ==
    /\ payload[c] # << >>
    /\ \/ Start(c) >= 128 /\ ByIndex(c).error # "none"
       \/ Start(c) \notin 32 .. 63 /\ Start(c) < 128 /\ LiteralField(c).error # "none"
    /\ Parsing(c)
    /\ stage' = [stage EXCEPT ![c] = "failed"]
    /\ UNCHANGED <<payload, header_map_, decoded_, headers, static>>

(* eMore, or eDone, with which result() moves the headers away. *)
EndFrame(c) ==
    /\ payload[c] = << >>
    /\ Parsing(c)
    /\ IF last[c]
       THEN /\ stage' = [stage EXCEPT ![c] = "done"]
            /\ headers' = [headers EXCEPT ![c] = decoded_[c]]
            /\ decoded_' = [decoded_ EXCEPT ![c] = << >>]
       ELSE stage' = [stage EXCEPT ![c] = "receive"] /\ UNCHANGED <<headers, decoded_>>
    /\ UNCHANGED <<payload, header_map_, static>>

-----------------------------------------------------------------------------
PeerStep(c) ==
    \/ EncodeIndexed(c) \/ EncodeIncremental(c) \/ EncodeLiteral(c) \/ EncodeUpdate(c)
    \/ EncodeResponse(c) \/ EncodeMalformed(c) \/ Send(c)

ParserStep(c) ==
    \/ StartFrame(c) \/ RefuseFrame(c)
    \/ ReadIndexed(c) \/ ReadIncremental(c) \/ ReadUpdate(c) \/ ReadLiteral(c)
    \/ ReadError(c) \/ EndFrame(c)

(* The peers say no more, or the program has ended. *)
Quiet ==
    /\ exited \/ \A c \in Conn : stage[c] \notin {"receive", "parse"} /\ block[c] = << >>
    /\ UNCHANGED vars

Next == (\E c \in Conn : PeerStep(c) \/ ParserStep(c)) \/ Quiet

Spec == Init /\ [][Next]_vars

-----------------------------------------------------------------------------
(* As long as no connection has looked up index 0, and the peer has done   *)
(* nothing unusual: the headers of a block that has been read are those    *)
(* that the peer encoded, with any mixture of indices, names, literals,    *)
(* Huffman code, fragments and table sizes that RFC 7541 allows, and those *)
(* that serialize was given when the peer is this program, but for the     *)
(* case of names.                                                          *)
DecodesWhatWasSent ==
    \A c \in Conn : stage[c] = "done" /\ static = 61 /\ ~unusual[c] => headers[c] = fields[c]

(* The parser keeps a different table from the RFC's: it never evicts when *)
(* it inserts, and takes a size in octets for a number of entries.  That   *)
(* does no harm: what the peer has in its table is the newest part of it.  *)
TablesAgree ==
    \A c \in Conn : peer[c].kind = "rfc" /\ stage[c] = "done" /\ static = 61 /\ ~unusual[c] =>
        IsPrefix(table[c], header_map_[c])

(* Peers of RFC 7541 can make their connection fail, and end the program,  *)
(* with a field that two frames share, with a frame without a fragment,    *)
(* with more padding than octets before the fragment, and with the last    *)
(* entry of the static table; and any connection can make it fail for the  *)
(* others, with index 0.  With nothing else.                               *)
FailsOnlyByThese ==
    /\ \A c \in Conn : stage[c] = "failed" => unusual[c] \/ static # 61
    /\ exited => \E c \in Conn : unusual[c]

(* What the codecs do depends on no state: TLC need look at the first only. *)
Begun == \E c \in Conn : budget[c] < peer[c].fields

(* Integers up to a bound, in every prefix that HPACK uses, followed by    *)
(* something else: decode gives the value, and takes what encode made.     *)
IntegersRoundTrip ==
    Begun \/ \A N \in {4, 5, 6, 7}, value \in 0 .. MaxInteger :
        LET octets == IntegerEncode(N, value)
        IN IntegerDecode(N, octets \o <<255>>) = [value |-> value, bytes |-> Len(octets)]

(* Every octet, alone and after one of each code length: decode gives the  *)
(* text back, and padding takes less than an octet.                        *)
HuffmanRoundTrips ==
    LET ofEachLength == {CHOOSE o \in Octet : Length(o) = n : n \in {Length(o) : o \in Octet}}
    IN Begun \/ \A text \in {<<o>> : o \in Octet} \cup {<<o, p>> : o \in ofEachLength, p \in Octet} :
        /\ HuffmanDecode(HuffmanEncode(text)) = text
        /\ 8 * Len(HuffmanEncode(text)) - Len(CodeBits(text)) \in 0 .. 7
=============================================================================
