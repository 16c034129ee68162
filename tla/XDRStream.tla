------------------------------ MODULE XDRStream ------------------------------
(***************************************************************************)
(* XDROutputFileStream and XDRInputFileStream of src/util/XDRStream.h: one *)
(* file written frame by frame, then read back frame by frame.             *)
(*                                                                         *)
(* A frame is a 4-byte big-endian length with the XDR continuation bit set *)
(* on the high byte, followed by the XDR bytes of the object.  A message   *)
(* is the sequence of its XDR bytes (xdrpp's marshalling is outside src/); *)
(* decoding a payload gives the object those bytes encode.               *)
(*                                                                         *)
(* Writer (XDROutputFileStream): writeOne copies the frame into mBuf and   *)
(* loops on asio::write into the buffered stream, continuing after an      *)
(* interrupted write from the bytes already written; any other error       *)
(* throws.  The buffered stream spills its buffer into the file when it    *)
(* fills, which depends on fs::bufsz(), so the model lets it spill at any  *)
(* time; close() flushes what is left.  The process may crash at any point *)
(* before close, losing the buffer.  An exception thrown by writeOne       *)
(* leaves the stream open; its destructor then calls close().  flush()     *)
(* throws on an error other than EINTR, with the bytes written so far in   *)
(* the file and the rest still buffered; from close() that leaves the      *)
(* stream open too, and a close() that throws inside the destructor ends   *)
(* the process (std::terminate), losing the buffer.  A writeOne that       *)
(* returns normally hands its frame to the caller's SHA256 hasher and adds *)
(* its length to *bytesPut; the model has both, as the bytes hashed.       *)
(*                                                                         *)
(* Reader (XDRInputFileStream): open records the file's size (mSize);     *)
(* each readOne reads the 4-byte length, then the payload, through        *)
(* std::ifstream::read, which sets failbit (with eofbit) when fewer bytes *)
(* remain than asked for.  pos() asserts the stream has not failed, and   *)
(* operator bool is mIn.good().  The reader's caller stops at the first  *)
(* false or exception, and may close() the stream at any point.           *)
(***************************************************************************)
EXTENDS Naturals, Sequences, SequencesExt, XDRFrame

CONSTANTS
  Msgs,       \* XDR encodings of the objects written (sequences of bytes)
  MaxMsgs,    \* bound: number of writeOne calls
  SizeLimit   \* XDRInputFileStream's mSizeLimit (0: no limit)

VARIABLES
  wState,   \* "init", "open", "writing", "threw", "closed",
            \* "flushThrew" (flush or close threw; the stream is still open),
            \* "abandoned" (closed by the destructor after a throw), "crashed"
  frame,    \* mBuf of the writeOne in progress: header and payload bytes
  written,  \* bytes of frame accepted by the buffered stream so far
  wBuf,     \* bytes in the buffered stream, not yet in the file
  disk,     \* bytes in the file
  sent,     \* messages whose writeOne returned normally
  hashed,   \* bytes given to the hasher (bytesPut is their number)
  rState,   \* "init", "open", "false" (readOne returned false), "threw",
            \* "closed" (close() called by the reader's owner)
  rFail,    \* mIn.fail(): a read came up short
  rSize,    \* mSize, the file's size when the reader opened it
  rPos,     \* bytes of the file consumed by the reader
  rOut      \* messages readOne returned

vars == <<wState, frame, written, wBuf, disk, sent, hashed, rState, rFail, rSize, rPos, rOut>>
writerVars == <<wState, frame, written, wBuf, disk, sent, hashed>>
readerVars == <<rState, rFail, rSize, rPos, rOut>>

-----------------------------------------------------------------------------
(* Mutations.                                                              *)

\* After an interrupted write the loop hands asio::write the whole frame
\* again instead of the part not yet written.
UnwrittenFromStart(f, w) == f

\* The flush loop ending on any error as if the buffer were written
\* (looping only while interrupted, without the failWith).
FlushNeverThrows(ec) == FALSE

\* The hasher given sz bytes of mBuf, without the last 4 of the frame.
HashedBytesOffByFour(f) == SubSeq(f, 1, Len(f) - 4)

\* A length read with readsome, which never sets failbit: a short read is
\* noticed by the count alone.
ReadsomeNeverFails(avail, n) == FALSE

\* The size limit check with >=: a frame of exactly mSizeLimit is refused.
OverLimitAtLimit(sz) == SizeLimit # 0 /\ sz >= SizeLimit

-----------------------------------------------------------------------------
\* The bytes asio::write is handed on each pass of the loop (line 322).
Unwritten(f, w) == SubSeq(f, w + 1, Len(f))

\* The flush loop (lines 236-245) retries after EINTR and throws on any
\* other error; ec is what the last pass of the loop reported.
FlushThrows(ec) == ec \notin {"none", "interrupted"}

\* One flush of the buffered stream that writes k bytes of it into the
\* file and ends with ec: all of it with no error, part of it on an error.
\* (Interrupted passes are retried, so only their end is seen.)
FlushPass(k, ec) ==
  /\ IF ec = "none" THEN k = Len(wBuf) ELSE k < Len(wBuf)
  /\ disk' = disk \o SubSeq(wBuf, 1, k)

\* What writeOne adds to the hasher and to *bytesPut once the loop is
\* done (lines 340-347): the sz + 4 bytes of the frame.
HashedBytes(f) == f

\* readOne refuses a frame longer than a nonzero mSizeLimit (line 109).
OverLimit(sz) == SizeLimit # 0 /\ sz > SizeLimit

\* mIn.read(buf, n) with avail bytes left (lines 91, 117): failbit and
\* eofbit are set when fewer than n bytes remain; an exact read sets neither.
ReadSetsFail(avail, n) == avail < n

-----------------------------------------------------------------------------
Init ==
  /\ wState = "init"  /\ frame = <<>>  /\ written = 0
  /\ wBuf = <<>>      /\ disk = <<>>   /\ sent = <<>>   /\ hashed = <<>>
  /\ rState = "init"  /\ rFail = FALSE  /\ rSize = 0  /\ rPos = 0  /\ rOut = <<>>

\* open(): the file is created empty and assigned to the buffered stream.
Open ==
  /\ wState = "init"
  /\ wState' = "open"
  /\ disk' = <<>>
  /\ UNCHANGED <<frame, written, wBuf, sent, hashed>> /\ UNCHANGED readerVars

\* fdopen(fd): the buffered stream is assigned a descriptor the caller
\* opened on the file, which keeps what it holds; on an open stream it
\* throws without a change.
FdOpen ==
  /\ wState = "init"
  /\ wState' = "open"
  /\ UNCHANGED <<frame, written, wBuf, disk, sent, hashed>> /\ UNCHANGED readerVars

\* writeOne(t), up to the write loop: size, assertion, header and payload
\* copied into mBuf.
WriteOne(t) ==
  /\ wState = "open"
  /\ Len(sent) < MaxMsgs
  /\ Len(t) <= MaxFrameSize
  /\ wState' = "writing"
  /\ frame' = EncodeSize(Len(t)) \o t
  /\ written' = 0
  /\ UNCHANGED <<wBuf, disk, sent, hashed>> /\ UNCHANGED readerVars

\* One pass of the write loop: asio::write takes n of the unwritten bytes
\* and reports ec.  No error: it took them all and writeOne returns.
\* Interrupted: written advances by n and the loop goes on.  Any other
\* error: failWith throws, with n bytes taken.
WriteSome(n, ec) ==
  LET rest == Unwritten(frame, written)
  IN
  /\ wState = "writing"
  /\ IF ec = "none" THEN n = Len(rest) ELSE n < Len(rest)
  /\ wBuf' = wBuf \o SubSeq(rest, 1, n)
  /\ CASE ec = "none"        -> /\ wState' = "open"
                                /\ sent' = Append(sent, SubSeq(frame, 5, Len(frame)))
                                /\ hashed' = hashed \o HashedBytes(frame)
                                /\ UNCHANGED written
       [] ec = "interrupted" -> /\ written' = written + n
                                /\ UNCHANGED <<wState, sent, hashed>>
       [] ec = "error"       -> /\ wState' = "threw"
                                /\ UNCHANGED <<written, sent, hashed>>
  /\ UNCHANGED <<frame, disk>> /\ UNCHANGED readerVars

\* The buffered stream writes its buffer into the file.
Spill ==
  /\ wState \in {"open", "writing", "threw"}
  /\ wBuf # <<>>
  /\ disk' = disk \o wBuf
  /\ wBuf' = <<>>
  /\ UNCHANGED <<wState, frame, written, sent, hashed>> /\ UNCHANGED readerVars

\* flush(), called by the owner between writes; on a throw what was not
\* written stays in the buffered stream.
Flush(k, ec) ==
  /\ wState = "open"
  /\ FlushPass(k, ec)
  /\ wBuf' = SubSeq(wBuf, k + 1, Len(wBuf))
  /\ wState' = IF FlushThrows(ec) THEN "flushThrew" ELSE "open"
  /\ UNCHANGED <<frame, written, sent, hashed>> /\ UNCHANGED readerVars

\* close(), by the owner or by the destructor (isOpen() holds in every
\* state it is called in): flush, fsync, then closing the buffered stream,
\* which discards anything still in its buffer.  If flush throws, the
\* owner's close leaves the stream open for the destructor; the
\* destructor's close lets the exception out of a noexcept destructor.
Close(k, ec) ==
  /\ wState \in {"open", "threw", "flushThrew"}
  /\ FlushPass(k, ec)
  /\ CASE ~FlushThrows(ec)  -> /\ wBuf' = <<>>
                               /\ wState' = IF wState = "threw" THEN "abandoned" ELSE "closed"
       [] wState = "open"   -> /\ wBuf' = SubSeq(wBuf, k + 1, Len(wBuf))
                               /\ wState' = "flushThrew"
       [] OTHER             -> /\ wBuf' = <<>>
                               /\ wState' = "crashed"
  /\ UNCHANGED <<frame, written, sent, hashed>> /\ UNCHANGED readerVars

\* The process dies before close(): what the buffered stream held is lost.
Crash ==
  /\ wState \in {"open", "writing", "threw", "flushThrew"}
  /\ wState' = "crashed"
  /\ wBuf' = <<>>
  /\ UNCHANGED <<frame, written, disk, sent, hashed>> /\ UNCHANGED readerVars

\* XDRInputFileStream::open on the file the writer left.
ReaderOpen ==
  /\ wState \in {"closed", "abandoned", "crashed"}
  /\ rState = "init"
  /\ rState' = "open"
  /\ rFail' = FALSE
  /\ rSize' = Len(disk)
  /\ UNCHANGED <<rPos, rOut>> /\ UNCHANGED writerVars

\* close() by the reader's owner: the file is closed; the stream's state
\* bits stay as they are.
ReaderClose ==
  /\ rState \in {"open", "false", "threw"}
  /\ rState' = "closed"
  /\ UNCHANGED <<rFail, rSize, rPos, rOut>> /\ UNCHANGED writerVars

\* readOne(out), one action per way it ends.  FrameSize is the length in
\* the next 4 bytes, Payload the bytes that length covers.
Avail == Len(disk) - rPos
FrameSize == DecodeSize(SubSeq(disk, rPos + 1, rPos + 4))
Payload == SubSeq(disk, rPos + 5, rPos + 4 + FrameSize)

ReadStep(state, fail, pos, out) ==
  /\ rState = "open"
  /\ rState' = state /\ rFail' = fail /\ rPos' = pos /\ rOut' = out
  /\ UNCHANGED rSize /\ UNCHANGED writerVars

\* Fewer than 4 bytes left: mIn.read(szBuf, 4) fails, readOne returns false.
ReadOneNoHeader ==
  /\ Avail < 4
  /\ ReadStep("false", ReadSetsFail(Avail, 4), rPos, rOut)

\* A length above mSizeLimit: false, with the 4 bytes consumed.
ReadOneOverLimit ==
  /\ Avail >= 4 /\ OverLimit(FrameSize)
  /\ ReadStep("false", rFail, rPos + 4, rOut)

\* Fewer payload bytes than the length says: throws "malformed XDR file".
ReadOneTruncated ==
  /\ Avail >= 4 /\ ~OverLimit(FrameSize)
  /\ Avail - 4 < FrameSize
  /\ ReadStep("threw", ReadSetsFail(Avail - 4, FrameSize), rPos, rOut)

\* A whole frame: xdr_argpack_archive decodes the object the payload
\* bytes encode, and readOne returns true.
ReadOneMessage ==
  /\ Avail >= 4 /\ ~OverLimit(FrameSize)
  /\ Avail - 4 >= FrameSize
  /\ ReadStep("open", rFail, rPos + 4 + FrameSize, Append(rOut, Payload))

\* operator bool (mIn.good(): eofbit is only ever set with failbit here),
\* size() and pos() (lines 67-84); pos() throws once the stream has failed.
IsGood == ~rFail
Size == rSize
Pos == rPos

Next ==
  \/ Open
  \/ FdOpen
  \/ \E t \in Msgs : WriteOne(t)
  \/ \E n \in 0..Len(frame), ec \in {"none", "interrupted", "error"} : WriteSome(n, ec)
  \/ Spill
  \/ \E k \in 0..Len(wBuf), ec \in {"none", "error"} : Flush(k, ec) \/ Close(k, ec)
  \/ Crash
  \/ ReaderOpen
  \/ ReaderClose
  \/ ReadOneNoHeader
  \/ ReadOneOverLimit
  \/ ReadOneTruncated
  \/ ReadOneMessage

Spec == Init /\ [][Next]_vars

-----------------------------------------------------------------------------
TypeOK ==
  /\ wState \in {"init", "open", "writing", "threw", "flushThrew", "closed",
                 "abandoned", "crashed"}
  /\ rState \in {"init", "open", "false", "threw", "closed"}
  /\ rFail \in BOOLEAN
  /\ rSize \in 0..Len(disk)
  /\ written \in 0..Len(frame)
  /\ rPos \in 0..Len(disk)
  /\ \A s \in {frame, wBuf, disk, hashed} : s \in Seq(0..255)
  /\ \A s \in {sent, rOut} : s \in Seq(Seq(0..255))

\* The messages written before the first one longer than mSizeLimit: what a
\* reader with that limit can get back.
Readable(s) ==
  LET i == SelectInSeq(s, LAMBDA m : SizeLimit # 0 /\ Len(m) > SizeLimit)
  IN  IF i = 0 THEN s ELSE SubSeq(s, 1, i - 1)

\* Whatever happens to the writer (interrupted and partial writes, a
\* failed write, a crash that loses the buffered stream), every object
\* readOne returns is the next object writeOne wrote: the reader never
\* loses frame alignment, duplicates or garbles an object.
ReadIsPrefixOfWritten == IsPrefix(rOut, sent)

\* A file whose close() returned, by the owner or by the destructor after
\* a failed flush or close, reads back completely: readOne returns every
\* object written up to the first one over mSizeLimit, in order, then
\* false, and never throws.
RoundTrip ==
  (wState = "closed" /\ rState \in {"false", "threw"})
    => rState = "false" /\ rOut = Readable(sent)

\* A file whose close() returned holds exactly the bytes given to the
\* hasher, so the hash and size the caller records (bucket files are
\* named and checked by them) are those of the file, whatever
\* interrupted writes, spills and failed flushes came before.  A file
\* left by a writeOne that threw holds a partial frame the hash does not.
FileMatchesHash == wState = "closed" => disk = hashed

\* On a file whose close() returned, the stream tells apart the two ways
\* readOne returns false: after every object written was read, the length
\* read comes up short and the stream has failed (operator bool is false,
\* pos() throws); when an object over mSizeLimit stops it, the stream is
\* still good and pos() is inside that frame, short of size().
FalseTellsEndFromLimit ==
  (wState = "closed" /\ rState = "false")
    => /\ IsGood = (rOut # sent)
       /\ IsGood => Pos < Size

\* readOne reports the end of the file (false from the length read) only
\* where a frame ends: a file that stops inside a 4-byte length is not
\* taken for a complete one, as a file that stops inside a payload is not
\* (that one throws "malformed XDR file").
EndOfFileOnlyAtFrameBoundary ==
  (rState = "false" /\ Avail < 4) => Avail = 0

=============================================================================
