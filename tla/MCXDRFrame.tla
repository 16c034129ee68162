------------------------------ MODULE MCXDRFrame ------------------------------
(***************************************************************************)
(* Checks the frame length codec of XDRFrame on every length within 2 of a *)
(* power of two, up to the largest length writeOne accepts: sz steps from  *)
(* one such length to any other.                                           *)
(***************************************************************************)
EXTENDS XDRFrame

BoundaryLengths ==
  {n \in {2^k + d - 2 : k \in 0..30, d \in 0..4} \cup {MaxFrameSize - 1, MaxFrameSize} :
     n >= 0 /\ n <= MaxFrameSize}

VARIABLE sz

Init == sz = 0

Next == sz' \in BoundaryLengths

Spec == Init /\ [][Next]_sz

\* A length written by writeOne is read back unchanged by readOne at every
\* byte boundary up to the assertion's bound, and the continuation bit is
\* set on the high byte on disk, so the two sides agree on the frame size
\* (a disagreement would misalign every later frame of the file).
FrameLengthRoundTrip ==
  /\ DecodeSize(EncodeSize(sz)) = sz
  /\ EncodeSize(sz)[1] >= 128

=============================================================================
