----------------------------- MODULE HpackTable -----------------------------
(***************************************************************************)
(* The parts of HPACK without state (src/protocols/h2/hpack.cpp): the      *)
(* static table, lookups by index and by name, string literals, and the    *)
(* serializer of header blocks.  Texts are atomic here except on the wire, *)
(* where a text is its Spelling in octets.                                 *)
(***************************************************************************)
EXTENDS VariableInteger, Huffman

CONSTANTS
    Spelling, \* octets of each text that may be written as a literal
    Lower     \* what to_lower makes of the texts that it changes

SpellingIsSound ==
    /\ \A t \in DOMAIN Spelling : Spelling[t] \in Seq(Octet) /\ 4 * Len(Spelling[t]) < Modulus
    /\ \A t, u \in DOMAIN Spelling : Spelling[t] = Spelling[u] => t = u

ASSUME TextAssumption == SpellingIsSound

StaticKeys == <<
    ":authority", ":method", ":method", ":path", ":path", ":scheme", ":scheme",
    ":status", ":status", ":status", ":status", ":status", ":status", ":status",
    "accept-charset", "accept-encoding", "accept-language", "accept-ranges", "accept",
    "access-control-allow-origin", "age", "allow", "authorization", "cache-control",
    "content-disposition", "content-encoding", "content-language", "content-length",
    "content-location", "content-range", "content-type", "cookie", "date", "etag",
    "expect", "expires", "from", "host", "if-match", "if-modified-since", "if-none-match",
    "if-range", "if-unmodified-since", "last-modified", "link", "location", "max-forwards",
    "proxy-authenticate", "proxy-authorization", "range", "referer", "refresh",
    "retry-after", "server", "set-cookie", "strict-transport-security",
    "transfer-encoding", "user-agent", "vary", "via", "www-authenticate">>

(* 2 .. 14; the others are empty, except for one. *)
StaticValues == <<
    "", "GET", "POST", "/", "/index.html", "http", "https",
    "200", "204", "206", "304", "400", "404", "500">>

STATIC_HEADER_TABLE ==
    [i \in 1 .. 61 |-> [key |-> StaticKeys[i],
                        value |-> IF i <= 14 THEN StaticValues[i]
                                  ELSE IF i = 16 THEN "gzip, deflate" ELSE ""]]

(* The texts that there are: of the static table, with a spelling, or with *)
(* upper case.  The last one is what is read when it has no spelling.      *)
Text ==
    {StaticKeys[i] : i \in 1 .. 61} \cup {StaticValues[i] : i \in 1 .. 14} \cup {"gzip, deflate"}
    \cup DOMAIN Spelling \cup DOMAIN Lower \cup {"?"}

Header == [key : Text, value : Text]

EmptyHeader == [key |-> "", value |-> ""]

(* The outcome of a lookup or a read: it may be an error instead. *)
Found(header) == [error |-> "none", header |-> header]
NotFound == [error |-> "eUnknownHeader", header |-> EmptyHeader]

(* Defect: the dynamic table starts at the size of the static one. *)
HeaderByIndexShifted(index, size, map) ==
    IF index < size
    THEN Found(IF index = 0 THEN EmptyHeader ELSE STATIC_HEADER_TABLE[index])
    ELSE LET i == index - size
         IN IF i < Len(map) THEN Found(map[i + 1]) ELSE NotFound

(* header_by_index, with the number of entries of the static table, which  *)
(* index 0 increases for good as operator[] inserts an entry. The difference *)
(* is unsigned, so that the last static index wraps around.                *)
HeaderByIndex(index, size, map) ==
    IF index < size
    THEN Found(IF index = 0 THEN EmptyHeader ELSE STATIC_HEADER_TABLE[index])
    ELSE LET i == (index - size - 1) % Modulus
         IN IF i < Len(map) THEN Found(map[i + 1]) ELSE NotFound

TextOf(octets) ==
    IF \E t \in DOMAIN Spelling : Spelling[t] = octets
    THEN CHOOSE t \in DOMAIN Spelling : Spelling[t] = octets
    ELSE "?"

(* parse_string.  No octet at all is an exception that is not one of HPACK. *)
ParseString(data) ==
    IF data = << >> THEN [error |-> "exception", text |-> "?", rest |-> << >>]
    ELSE LET length == IntegerDecode(7, data)
             after == SubSeq(data, length.bytes + 1, Len(data))
             raw == SubSeq(after, 1, length.value)
         IN IF length.value > Len(after)
            THEN [error |-> "eInvalid", text |-> "?", rest |-> << >>]
            ELSE [error |-> "none",
                  text |-> TextOf(IF data[1] >= 128 THEN HuffmanDecode(raw) ELSE raw),
                  rest |-> SubSeq(after, length.value + 1, Len(after))]

(* The integer that a field starts with, and what follows it. *)
Prefix(data) ==
    IF data[1] >= 128 THEN 7 ELSE IF data[1] >= 64 THEN 6 ELSE IF data[1] >= 32 THEN 5 ELSE 4

FirstInteger(data) == IntegerDecode(Prefix(data), data).value
AfterFirst(data) == SubSeq(data, IntegerDecode(Prefix(data), data).bytes + 1, Len(data))

(* Name and value of a literal. *)
ParseLiteral(data, size, map) ==
    LET found == HeaderByIndex(FirstInteger(data), size, map)
        key == IF FirstInteger(data) = 0 THEN ParseString(AfterFirst(data))
               ELSE [error |-> found.error, text |-> found.header.key, rest |-> AfterFirst(data)]
        value == ParseString(key.rest)
    IN [error |-> IF key.error = "none" THEN value.error ELSE key.error,
        header |-> [key |-> key.text, value |-> value.text], rest |-> value.rest]

-----------------------------------------------------------------------------
(* The serializer.                                                         *)

ToLower(key) == IF key \in DOMAIN Lower THEN Lower[key] ELSE key

(* Sets the high bits of the first octet of an integer. *)
Flagged(flag, octets) == [octets EXCEPT ![1] = flag + @]

EncodedString(text) ==
    LET huffman == HuffmanEncode(Spelling[text])
    IN Flagged(128, IntegerEncode(7, Len(huffman))) \o huffman

FullyIndexed(h) == {i \in 1 .. 61 : STATIC_HEADER_TABLE[i] = [h EXCEPT !.key = ToLower(@)]}
KeyIndexed(h) == {i \in 1 .. 61 : STATIC_HEADER_TABLE[i].key = ToLower(h.key)}

(* Defect: an entry with the key is taken for an entry with the header. *)
SerializedByKey(h) ==
    IF KeyIndexed(h) # {}
    THEN {Flagged(128, IntegerEncode(7, i)) : i \in KeyIndexed(h)}
    ELSE {<<0>> \o EncodedString(h.key) \o EncodedString(h.value)}

(* What serialize may append for a header: search_index visits an unordered *)
(* table, and any entry with the key may be the last one it has seen.      *)
SerializedHeader(h) ==
    IF FullyIndexed(h) # {}
    THEN {Flagged(128, IntegerEncode(7, i)) : i \in FullyIndexed(h)}
    ELSE IF KeyIndexed(h) # {}
    THEN {Flagged(64, IntegerEncode(6, i)) \o EncodedString(h.value) : i \in KeyIndexed(h)}
    ELSE {<<0>> \o EncodedString(h.key) \o EncodedString(h.value)}
=============================================================================
