---------------------------- MODULE MCFlowControl ----------------------------
(***************************************************************************)
(* Model-checking instance of FlowControl: two peers, small capacities so  *)
(* that pools empty and refill, and both policies.                         *)
(***************************************************************************)
EXTENDS FlowControl

CONSTANTS a, b

MCPeers == {a, b}

\* Message-count policy: flood pool 2, total pool 3, so that the total pool
\* (which also pays for grants and non-flood traffic) can run dry.
MCMessageFlood == 2
MCMessageTotal == 3

\* Byte policy: flood pool of 2 bytes and messages of 1 or 2 bytes, so that
\* credit can be left too small for the next message.
MCByteFlood == 2
MCByteSizes == {1, 2}

\* No hostile peer; and one, b, that may also send messages of 3 bytes,
\* more than the flood pool can ever cover, and raise the credit of either
\* direction to 3 bytes, 1 more than the flood pool (enough to overrun it
\* and for a to send b 3 bytes).
MCNoHostile == {}
MCHostile == {b}
MCHostileSizes == {1, 2, 3}
MCHostileCredit == 3

=============================================================================
