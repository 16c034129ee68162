SPECIFICATION Spec
INVARIANT FrameLengthRoundTrip
