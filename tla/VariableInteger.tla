--------------------------- MODULE VariableInteger ---------------------------
(***************************************************************************)
(* h2::variable_integer<N> (include/protocols/h2/hpack.hpp): integers in a *)
(* prefix of N bits and, if they do not fit, in groups of seven bits that  *)
(* follow, the least significant first.  Octets are numbers below 256.     *)
(***************************************************************************)
EXTENDS SequencesExt, Integers

CONSTANT Width \* of uint32_t, in bits

Modulus == 2 ^ Width

ASSUME WidthAssumption == Width \in Nat /\ Modulus \in Nat /\ Modulus >= 256

Largest(N) == 2 ^ N - 1

Groups[value \in Nat] ==
    IF value < 128 THEN <<value>>
    ELSE <<128 + (value % 128)>> \o Groups[value \div 128]

(* Defect: the largest prefix is taken for a value of its own. *)
EncodeLargestInPrefix(N, value) ==
    IF value <= Largest(N) THEN <<value>>
    ELSE <<Largest(N)>> \o Groups[value - Largest(N)]

IntegerEncode(N, value) ==
    IF value < Largest(N) THEN <<value>>
    ELSE <<Largest(N)>> \o Groups[value - Largest(N)]

(* The value, and how many octets it took.  When no octet ends the value,  *)
(* the data does.  More than five octets would shift out of the width,     *)
(* which C++ leaves undefined: they do not occur here.                     *)
IntegerDecode(N, data) ==
    LET prefix == data[1] % 2 ^ N
        ends == {i \in 2 .. Len(data) : data[i] < 128}
        bytes == IF ends = {} THEN Len(data) ELSE CHOOSE i \in ends : \A j \in ends : i <= j
        added[i \in 1 .. bytes] ==
            IF i = 1 THEN [value |-> Largest(N), weight |-> 1]
            ELSE [value |-> (added[i - 1].value + (data[i] % 128) * added[i - 1].weight) % Modulus,
                  weight |-> 128 * added[i - 1].weight]
    IN IF prefix < Largest(N)
       THEN [value |-> prefix, bytes |-> 1]
       ELSE [value |-> added[bytes].value, bytes |-> bytes]
=============================================================================
