------------------------------- MODULE MCHpack -------------------------------
(***************************************************************************)
(* Instances of Hpack for TLC: peers, headers and frames.                  *)
(***************************************************************************)
EXTENDS Hpack, TLC

CONSTANTS c1, c2

Kind(kind, n) == [kind |-> kind, fields |-> n]

(* The second connection, if it says something, disturbs the first one. *)
TwoPeers ==
    {(c1 :> Kind("rfc", 3) @@ c2 :> Kind("other", 0)),
     (c1 :> Kind("rfc", 2) @@ c2 :> Kind("other", 1)),
     (c1 :> Kind("serializer", 2) @@ c2 :> Kind("other", 1))}

(* Codes of 5, 6, 10 and 13 bits: "~" is 0x1ffd. *)
Texts == ("x" :> <<120>> @@ "0" :> <<48>> @@ "~" :> <<126, 33, 97>>
          @@ "via" :> <<118, 105, 97>> @@ "301" :> <<51, 48, 49>> @@ "12" :> <<49, 50>>
          @@ "X-Id" :> <<88, 45, 73, 100>>)

LowerCase == ("Content-Length" :> "content-length" @@ "Set-Cookie" :> "set-cookie"
              @@ "WWW-Authenticate" :> "www-authenticate" @@ "X-Id" :> "x-id")

H(key, value) == [key |-> key, value |-> value]

(* In the static table; as its last entry; by name only; in no table. *)
Fields == {H(":status", "500"), H("www-authenticate", ""), H("via", "0"),
           H("x", "~")}

Responses ==
    {<<H(":status", "500"), H("Content-Length", "12")>>,
     <<H(":status", "301"), H("Set-Cookie", "~")>>,
     <<H("X-Id", "0"), H("WWW-Authenticate", "x")>>,
     <<H("x", "0"), H(":status", "500")>>}

(* An index that does not exist and gibberish, as in test/hpack.cpp, and index 0. *)
Broken == {<<130, 255, 255, 255>>, <<130, 0, 255, 240, 127>>, <<128, 128>>}

Layouts == {[before |-> 0, pad |-> 0], [before |-> 1, pad |-> 2], [before |-> 6, pad |-> 6]}
=============================================================================
