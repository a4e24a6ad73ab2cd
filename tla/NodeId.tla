------------------------------ MODULE NodeId ------------------------------
(***************************************************************************)
(* Node identifiers and the XOR metric of src/Kademlia.                    *)
(*                                                                         *)
(* An identifier is a std::bitset<kNodeIdSize>; here it is the set of the  *)
(* positions of its 1 bits.  `a ^ b' is then the symmetric difference, and *)
(* the operator< that utils.h supplies (std::bitset has none) looks for    *)
(* the highest position in which two sets differ.                          *)
(***************************************************************************)
EXTENDS Naturals, FiniteSets, FiniteSetsExt

CONSTANT kNodeIdSize        \* width of an identifier in bits (128 in the code)

ASSUME NodeIdAssumption == kNodeIdSize \in Nat

Bits == 0 .. kNodeIdSize - 1

Id == SUBSET Bits

\* std::bitset::operator^, the distance of two identifiers.
Xor(a, b) == SymDiff(a, b)

\* The loop `for (i = size - 1; i >= 0; i--) if (d[i])' of every user of a
\* distance: the index of the bucket a distance belongs to.
HighestBit(d) == Max(d)

\* operator<(bitset, bitset): the highest differing bit decides, and it is the
\* smaller operand that does not have it.
Less(a, b) ==
    /\ a # b
    /\ HighestBit(Xor(a, b)) \in b

\* The comparator of every std::sort of the code: nearer to target first.
CloserTo(target, a, b) == Less(Xor(a, target), Xor(b, target))
============================================================================
