--------------------------- MODULE MCObjectBytes ---------------------------
(* Two bytes of one bit, whose values and offsets depend on two symbolic   *)
(* bits: the first is a value, the second an offset.                       *)
EXTENDS ObjectBytes

TwoOffsets == {0, 1}

OneBit == {0, 1}

TwoBits == [1 .. 2 -> {0, 1}]

FirstBit == {[a \in TwoBits |-> a[1]]}

SecondBit == {[a \in TwoBits |-> a[2]]}

BitOfEach == [a \in TwoBits |-> [o \in TwoOffsets |-> a[o + 1]]]
=============================================================================
