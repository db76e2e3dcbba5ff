----------------------------- MODULE MCSandbox ------------------------------
(* Module Sandbox with two inputs; a program prints one of two things that *)
(* differ from the first byte on, or a third that differs from one of them *)
(* only past the limit.                                                    *)
EXTENDS PoolTests, TLC

CONSTANTS i1, i2

MCInputs == {i1, i2}
MCSymmetry == Permutations(MCInputs)
MCOneInput == {i1}
MCTwoOutputs == {"x", "z"}
MCTwoCapped == [out \in MCTwoOutputs |-> out]
MCOutputs == {"x", "xy", "z"}
MCCapped == [out \in MCOutputs |-> IF out = "xy" THEN "x" ELSE out]

(* Every input up to a length, of the bytes a program tells apart; for     *)
(* utf8_validate also the bytes around the ends of each range.             *)
MCSamples ==
    [reverse_bytes |-> BoundedSeq({"nul", "a", "lead", "tail"}, 5),
     rle_encode    |-> BoundedSeq({0, 1}, 8),
     fnv1a_lines   |-> BoundedSeq(0 .. 3, 4),
     crc32         |-> BoundedSeq(0 .. 3, 4),
     base64_encode |-> BoundedSeq({0, 77, 255}, 6),
     kv_normalize  |-> BoundedSeq({"cr", "[", "]", "=", "k", "nl"}, 6)
                       \union BoundedSeq({"sp", "cr", "#", "[", "]", "=", "k", "nl"}, 4),
     leb128_decode |-> BoundedSeq(0 .. 7, 4),
     utf8_validate |-> BoundedSeq({65, 128, 191, 193, 194, 237}, 4)
                       \union {<<lead, second, third, 128>> :
                                lead \in {224, 237, 240, 244, 248}, third \in {65, 128, 191},
                                second \in {128, 143, 144, 159, 160, 191}}
                       \union {<<lead, second, 191, 191>> :
                                lead \in {240, 244}, second \in {143, 144}}]

=============================================================================
