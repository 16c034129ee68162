------------------------------ MODULE XDRFrame -------------------------------
(***************************************************************************)
(* The length prefix of an XDR file frame (src/util/XDRStream.h): written  *)
(* by XDROutputFileStream::writeOne as 4 big-endian bytes with the XDR     *)
(* continuation bit set on the high byte, read back by                     *)
(* XDRInputFileStream::readOne with that bit cleared.                      *)
(***************************************************************************)
EXTENDS Naturals, Bitwise

\* Mutation: readOne builds the length from the low three bytes only.
DecodeSizeLowBytes(h) == h[2] * 2^16 + h[3] * 2^8 + h[4]

\* The largest length writeOne accepts: releaseAssertOrThrow(sz < 0x80000000).
MaxFrameSize == 2147483647

\* writeOne: the 4-byte length with the continuation bit set on the high
\* byte (lines 301-304).
EncodeSize(sz) ==
  << ((sz \div 2^24) & 255) | 128,
     (sz \div 2^16) & 255,
     (sz \div 2^8) & 255,
     sz & 255 >>

\* readOne: the length read back with the continuation bit cleared
\* (lines 100-107).
DecodeSize(h) == (h[1] & 127) * 2^24 + h[2] * 2^16 + h[3] * 2^8 + h[4]

=============================================================================
