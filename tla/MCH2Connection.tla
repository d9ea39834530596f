--------------------------- MODULE MCH2Connection ---------------------------
(***************************************************************************)
(* Instances of H2Connection for TLC: the scripts of the peers.            *)
(***************************************************************************)
EXTENDS H2Connection, TLC

CONSTANTS
    s1, s2,      \* streams
    PlainFrames  \* length of the longest script of a peer without errors

Plainly(type, s, length) ==
    [type |-> type, stream |-> s, length |-> length, valid |-> TRUE,
     endStream |-> FALSE, endHeaders |-> FALSE, pseudo |-> FALSE]

SettingsFrame == Plainly("SETTINGS", s1, 0)

HeaderFrames(S) ==
    {[Plainly("HEADERS", s, 1) EXCEPT !.endStream = es, !.endHeaders = eh, !.pseudo = ps] :
        s \in S, es \in BOOLEAN, eh \in BOOLEAN, ps \in BOOLEAN}
ContinuationFrames(S) ==
    {[Plainly("CONTINUATION", s, 1) EXCEPT !.endHeaders = eh] : s \in S, eh \in BOOLEAN}
DataFrames(S) ==
    {[Plainly("DATA", s, len) EXCEPT !.endStream = es] : s \in S, len \in {0, 3}, es \in BOOLEAN}

GoodFrames == HeaderFrames(Stream) \cup ContinuationFrames(Stream) \cup DataFrames(Stream)
              \cup {Plainly("OTHER", s1, 1)}

(* The protocol broken in each way that process looks for. *)
BadFrames ==
    {[SettingsFrame EXCEPT !.length = 1, !.valid = FALSE],
     [Plainly("HEADERS", s1, 1) EXCEPT !.valid = FALSE],
     Plainly("DATA", s1, MaxFrameSize + 1)}

GoodScripts ==
    {fs \in UNION {[1 .. n -> GoodFrames \cup {SettingsFrame}] : n \in 1 .. PlainFrames} :
        fs[1] = SettingsFrame /\ Conforming(fs)}

BadScripts ==
    UNION {[1 .. n -> BadFrames \cup {SettingsFrame}
                      \cup HeaderFrames({s1})] : n \in 1 .. 2}

AllScripts == GoodScripts \cup BadScripts

(* Workers are compared for equality only. *)
Symmetry == Permutations(Worker)

(* Two requests with bodies, for the runs that end with a violation. *)
TwoPosts ==
    {<<SettingsFrame>>
     \o <<[Plainly("HEADERS", s1, 1) EXCEPT !.endHeaders = TRUE, !.pseudo = TRUE]>>
     \o <<[Plainly("DATA", s1, 3) EXCEPT !.endStream = TRUE]>>
     \o <<[Plainly("HEADERS", s2, 1) EXCEPT !.endHeaders = TRUE, !.pseudo = TRUE,
                                            !.endStream = TRUE]>>}
=============================================================================
