------------------------------ MODULE MpegReader ------------------------------
(***************************************************************************)
(* src/mpeg.c: readData, readMpegHeader and readMpegFrame, which take MPEG *)
(* audio frames from a file or a pipe.  Each read() is a step of its own:  *)
(* it may be short, find nothing yet (EAGAIN), be at the end, or fail.     *)
(*                                                                         *)
(* Bytes are told apart only by what the code asks of them: whether they   *)
(* may be the first or the second byte of a sync word, and which frame     *)
(* length they stand for as the third byte of a header (module MpegFrame   *)
(* has the lengths of real headers).                                       *)
(***************************************************************************)
EXTENDS Integers, Sequences, SequencesExt

CONSTANTS
  Bytes,
  Sync1, Sync2,  \* the bytes that a sync word may have first, and second
  FrameLength,   \* of each byte: getMpegFrameLength of a header with it
  MaxFile,       \* bound: the bytes in the file
  Sizes,         \* the size arguments
  MaxSkips       \* 1200 in the code: the bytes to search for a sync word

ASSUME MpegAssumption ==
  /\ Sync1 \subseteq Bytes /\ Sync2 \subseteq Bytes
  /\ FrameLength \in [Bytes -> Int]
  /\ \A b \in Bytes : FrameLength[b] = -1 \/ FrameLength[b] = 0 \/ FrameLength[b] >= 4
  /\ MaxFile \in Nat /\ MaxSkips \in Nat
  /\ Sizes \subseteq Nat

VARIABLES
  file,      \* its bytes
  pos,       \* the file offset
  data,      \* what the caller's buffer holds
  at,        \* where the reader is; "idle" between calls
  left, tries, got, failed,  \* readData: bytes and reads to go, bytes read, -1
  skips,     \* flagmax
  length,    \* framelength
  size,      \* the size argument
  start,     \* the offset at which the call that runs began
  ret        \* what the latest call has returned, once it has

rdvars == <<left, tries, got, failed>>
vars == <<file, pos, data, at, rdvars, skips, length, size, start, ret>>

None == <<"none", "none">>

Errors == {"MPEG_BUFFER_OVERFLOW", "MPEG_FILE_EMPTY", "MPEG_FILE_ERROR",
           "MPEG_SYNC_NOT_FOUND", "MPEG_INVALID_FRAME", "MPEG_BUFFER_UNDERFLOW"}

\* What a call can return, and which one it was.
Results ==
  {<<c, e>> : c \in {"header", "frame"}, e \in Errors}
    \cup {<<"header", "4">>, <<"frame", "framelength">>, None}

\* A sync word at the front of four bytes.
Synced(d) == d[1] \in Sync1 /\ d[2] \in Sync2

TypeOK ==
  /\ file \in Seq(Bytes) /\ Len(file) <= MaxFile
  /\ pos \in Nat
  /\ data \in Seq(Bytes)
  /\ at \in {"idle", "header", "search", "byte", "frame"}
  /\ left \in Nat /\ tries \in 0..2 /\ got \in Nat /\ failed \in BOOLEAN
  /\ skips \in 0..MaxSkips
  /\ length \in Int
  /\ size \in Sizes \cup {0}
  /\ start \in Nat
  /\ ret \in Results

Init ==
  /\ file \in BoundedSeq(Bytes, MaxFile)
  /\ pos = 0 /\ start = 0
  /\ data = <<>>
  /\ at = "idle"
  /\ left = 0 /\ tries = 0 /\ got = 0 /\ failed = FALSE
  /\ skips = 0 /\ length = -1 /\ size = 0
  /\ ret = None

-----------------------------------------------------------------------------
(* readData: at most two reads, one after the other.                       *)

ReadData(n) == left' = n /\ tries' = 2 /\ got' = 0 /\ failed' = FALSE

Reading == at \in {"header", "byte", "frame"} /\ left > 0 /\ tries > 0 /\ ~failed

\* What readData returns, once it does.
Returned(n) ==
  /\ at \in {"header", "byte", "frame"} /\ ~Reading
  /\ n = IF failed THEN -1 ELSE got

\* Mutant of Read: each read begins at the front of the buffer.
ReadOver(n) ==
  /\ Reading
  /\ n <= left /\ pos + n <= Len(file)
  /\ pos' = pos + n
  /\ data' = SubSeq(data, 1, Len(data) - got) \o SubSeq(file, pos + 1, pos + n)
  /\ left' = left - n /\ got' = got + n /\ tries' = tries - 1
  /\ UNCHANGED <<file, at, failed, skips, length, size, start, ret>>

\* A read of n bytes, or of none at the end of the file.
Read(n) ==
  /\ Reading
  /\ n <= left /\ pos + n <= Len(file)
  /\ pos' = pos + n
  /\ data' = data \o SubSeq(file, pos + 1, pos + n)
  /\ left' = left - n /\ got' = got + n /\ tries' = tries - 1
  /\ UNCHANGED <<file, at, failed, skips, length, size, start, ret>>

ReadSome == \E n \in 1..left : Read(n)

ReadEnd ==
  /\ Reading
  /\ pos >= Len(file)
  /\ tries' = tries - 1
  /\ UNCHANGED <<file, pos, data, at, left, got, failed, skips,
                 length, size, start, ret>>

\* EAGAIN.
ReadAgain ==
  /\ Reading
  /\ tries' = tries - 1
  /\ UNCHANGED <<file, pos, data, at, left, got, failed, skips,
                 length, size, start, ret>>

ReadFails ==
  /\ Reading
  /\ failed' = TRUE
  /\ UNCHANGED <<file, pos, data, at, left, tries, got, skips,
                 length, size, start, ret>>

-----------------------------------------------------------------------------
(* readMpegHeader.                                                         *)

Returns(c, code) ==
  /\ at' = "idle"
  /\ ret' = <<c, code>>
  /\ left' = 0 /\ tries' = 0 /\ got' = 0 /\ failed' = FALSE
  /\ skips' = 0
  /\ UNCHANGED <<file, length, size, start>>

HeaderReturns(code) == Returns("header", code) /\ UNCHANGED <<pos, data>>

HeaderTooLong(s) ==
  /\ at = "idle" /\ s < 4
  /\ HeaderReturns("MPEG_BUFFER_OVERFLOW")

ReadMpegHeader(s) ==
  /\ at = "idle" /\ s >= 4
  /\ start' = pos
  /\ data' = <<>>
  /\ length' = -1 /\ size' = 0
  /\ ReadData(4)
  /\ at' = "header"
  /\ ret' = None
  /\ UNCHANGED <<file, pos, skips>>

HeaderRead ==
  /\ at = "header"
  /\ \/ Returned(0) /\ HeaderReturns("MPEG_FILE_EMPTY")
     \/ Returned(-1) /\ HeaderReturns("MPEG_FILE_ERROR")
     \/ \E n \in 1..3 : Returned(n) /\ HeaderReturns("MPEG_BUFFER_UNDERFLOW")
     \/ /\ Returned(4)
        /\ at' = "search"
        /\ UNCHANGED <<file, pos, data, rdvars, skips, length, size,
                       start, ret>>

SyncFound ==
  /\ at = "search" /\ Synced(data)
  /\ HeaderReturns("4")

\* The first byte is shifted out, the next one goes to data[3].
SyncShift ==
  /\ at = "search" /\ ~Synced(data)
  /\ data' = Tail(data)
  /\ ReadData(1)
  /\ at' = "byte"
  /\ UNCHANGED <<file, pos, skips, length, size, start, ret>>

\* Mutant of SyncByte: one byte too many before the search is given up.
SyncByteLate ==
  /\ at = "byte"
  /\ \/ Returned(0) /\ HeaderReturns("MPEG_FILE_EMPTY")
     \/ Returned(-1) /\ HeaderReturns("MPEG_FILE_ERROR")
     \/ /\ Returned(1)
        /\ skips > MaxSkips
        /\ HeaderReturns("MPEG_SYNC_NOT_FOUND")
     \/ /\ Returned(1)
        /\ skips <= MaxSkips
        /\ skips' = skips + 1
        /\ at' = "search"
        /\ UNCHANGED <<file, pos, data, rdvars, length, size, start, ret>>

\* Mutant of SyncByte: the search waits for the byte to come.
SyncByteWaits ==
  /\ at = "byte"
  /\ \/ Returned(0) /\ ReadData(1)
          /\ UNCHANGED <<file, pos, data, at, skips, length, size, start, ret>>
     \/ Returned(-1) /\ HeaderReturns("MPEG_FILE_ERROR")
     \/ /\ Returned(1)
        /\ skips < MaxSkips
        /\ skips' = skips + 1
        /\ at' = "search"
        /\ UNCHANGED <<file, pos, data, rdvars, length, size, start, ret>>

SyncByte ==
  /\ at = "byte"
  /\ \/ Returned(0) /\ HeaderReturns("MPEG_FILE_EMPTY")
     \/ Returned(-1) /\ HeaderReturns("MPEG_FILE_ERROR")
     \/ /\ Returned(1)
        /\ skips = MaxSkips
        /\ HeaderReturns("MPEG_SYNC_NOT_FOUND")
     \/ /\ Returned(1)
        /\ skips < MaxSkips
        /\ skips' = skips + 1
        /\ at' = "search"
        /\ UNCHANGED <<file, pos, data, rdvars, length, size, start, ret>>

-----------------------------------------------------------------------------
(* readMpegFrame, of the header that readMpegHeader has left in the buffer.*)

FrameReturns(code) == Returns("frame", code) /\ UNCHANGED <<pos, data>>

HasHeader == at = "idle" /\ ret = <<"header", "4">>

InvalidFrame ==
  /\ HasHeader /\ FrameLength[data[3]] < 0
  /\ FrameReturns("MPEG_INVALID_FRAME")

\* The size is the one that readMpegHeader has accepted.  A length of 0, as
\* all of layer I have, asks read for (size_t)-4 bytes, which it refuses.
ReadMpegFrame(s) ==
  /\ HasHeader /\ FrameLength[data[3]] >= 0
  /\ s >= 4
  /\ length' = FrameLength[data[3]]
  /\ size' = s
  /\ start' = pos - 4
  /\ IF length' = 0
     THEN left' = 0 /\ tries' = 0 /\ got' = 0 /\ failed' = TRUE
     ELSE ReadData((IF length' > s THEN s ELSE length') - 4)
  /\ at' = "frame"
  /\ ret' = None
  /\ UNCHANGED <<file, pos, data, skips>>

\* Nothing but the header fits: the rest of the frame is skipped.  The result
\* of lseek, which fails on a pipe, is not looked at.
FrameSkipped ==
  /\ at = "frame" /\ size = 4 /\ length > size
  /\ Returned(0)
  /\ pos' \in {pos, pos + length - size}
  /\ Returns("frame", "framelength")
  /\ UNCHANGED data

\* Mutant of FrameRead: a body that is short by a byte goes through.
FrameReadNearly ==
  /\ at = "frame" /\ ~(size = 4 /\ length > size)
  /\ \/ Returned(0) /\ FrameReturns("MPEG_FILE_EMPTY")
     \/ Returned(-1) /\ FrameReturns("MPEG_FILE_ERROR")
     \/ \E n \in 1..left + got :
          /\ Returned(n)
          /\ FrameReturns(IF n < length - 5 THEN "MPEG_BUFFER_UNDERFLOW"
                                            ELSE "framelength")

FrameRead ==
  /\ at = "frame" /\ ~(size = 4 /\ length > size)
  /\ \/ Returned(0) /\ FrameReturns("MPEG_FILE_EMPTY")
     \/ Returned(-1) /\ FrameReturns("MPEG_FILE_ERROR")
     \/ \E n \in 1..left + got :
          /\ Returned(n)
          /\ FrameReturns(IF n < length - 4 THEN "MPEG_BUFFER_UNDERFLOW"
                                            ELSE "framelength")

-----------------------------------------------------------------------------
\* What the reader does once it has been called.
Step ==
  \/ ReadSome \/ ReadEnd \/ ReadAgain \/ ReadFails
  \/ HeaderRead \/ SyncFound \/ SyncShift \/ SyncByte
  \/ FrameSkipped \/ FrameRead

Next ==
  \/ Step
  \/ \E s \in Sizes : HeaderTooLong(s) \/ ReadMpegHeader(s) \/ ReadMpegFrame(s)
  \/ InvalidFrame

Spec == Init /\ [][Next]_vars

\* The reader is a sequential program that goes on when read() returns, and
\* read() on a descriptor that may say EAGAIN always does.
FairSpec == Spec /\ WF_vars(Step)

-----------------------------------------------------------------------------
(* Properties.                                                             *)

\* The four bytes from offset p on.
FourAt(p) == SubSeq(file, p + 1, p + 4)

\* The header that readMpegHeader finds is in one piece, whatever the reads
\* were, and is the first of the file from where the call began.
HeaderIsFirstSync ==
  HasHeader =>
    /\ data = FourAt(pos - 4)
    /\ Synced(data)
    /\ \A p \in start..pos - 5 : ~Synced(FourAt(p))

\* A frame that readMpegFrame reports as read into a buffer of more than the
\* header is all of it, in one piece, and the next call begins behind it.
FrameIsWhole ==
  (at = "idle" /\ ret = <<"frame", "framelength">> /\ size > 4) =>
    /\ pos = start + length
    /\ data = SubSeq(file, start + 1, start + length)

\* Every call returns, although reads may find nothing again and again.
CallsReturn == (at # "idle") ~> (at = "idle")
=============================================================================
