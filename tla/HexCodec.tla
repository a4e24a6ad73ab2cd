----------------------------- MODULE HexCodec -----------------------------
(***************************************************************************)
(* utils.cpp: an id in hexadecimal, as users enter it and as peerIds and   *)
(* conf.json have it.  A string is the sequence of its characters.         *)
(***************************************************************************)
EXTENDS NodeId, SequencesExt

hex_chars == <<"0", "1", "2", "3", "4", "5", "6", "7", "8", "9",
               "A", "B", "C", "D", "E", "F">>
lower_chars == <<"a", "b", "c", "d", "e", "f">>

\* The value of a character, as the set of its bits; none when it is no digit.
Nibble(n) == {j \in 0 .. 3 : (n \div <<1, 2, 4, 8>>[j + 1]) % 2 = 1}
Digit(c) ==
    UNION {Nibble(n) : n \in {m \in 0 .. 15 :
        c = hex_chars[m + 1] \/ (m > 9 /\ c = lower_chars[m - 9])}}

\* Every character shifts, also one that is no digit, and what is shifted past
\* the width is lost: b[k] is the id after k rounds of the loop.
hexToBitset(hex_str) ==
    LET b[k \in 0 .. Len(hex_str)] ==
            IF k = 0 THEN {}
            ELSE ({i + 4 : i \in b[k - 1]} \cap Bits) \cup Digit(hex_str[k])
    IN  b[Len(hex_str)]

bitsetToHex(b) ==
    [k \in 1 .. kNodeIdSize \div 4 |->
        LET i == kNodeIdSize - 4 * k
        IN  hex_chars[1 + CHOOSE n \in 0 .. 15 : Nibble(n) = {j \in 0 .. 3 : i + j \in b}]]

-----------------------------------------------------------------------------
\* What the loop of hexToBitset amounts to: the last characters of the string,
\* as many as fit, are the digits of the id.
HexValue(hex_str) ==
    {i \in Bits : i \div 4 < Len(hex_str) /\ i % 4 \in Digit(hex_str[Len(hex_str) - i \div 4])}

\* An id survives being written and read, and so does any spelling of it.
RoundTrip(b, hex_str) ==
    /\ hexToBitset(bitsetToHex(b)) = b
    /\ hexToBitset(hex_str) = HexValue(hex_str)
    /\ hexToBitset(bitsetToHex(HexValue(hex_str))) = HexValue(hex_str)
============================================================================
