------------------------------ MODULE MCDriver ------------------------------
(* Small instances of the driver for TLC. *)
EXTENDS Driver, TLC

CONSTANTS ma, mb, mc, c1, c2

MCModels3 == {ma, mb, mc}
MCModels2 == {ma, mb}
MCCalls2  == {c1, c2}
MCCalls1  == {c1}
MCPools3  == 1..3
MCPools4  == 1..4

\* The third model spans two GPUs.
MCTp == [m \in Models |-> IF m = mc THEN 2 ELSE 1]
=============================================================================
