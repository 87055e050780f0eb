------------------------------ MODULE MCStpLink ------------------------------
(* Bounds of StpLink for TLC: one side sends more packets than there are   *)
(* sequence numbers, or the chip sends more than the host's ring holds.    *)
EXTENDS StpLink

Load(h, c) == [s \in Sides |-> IF s = "host" THEN h ELSE c]
SendLoads == {Load(4, 1), Load(1, 3)}
=============================================================================
