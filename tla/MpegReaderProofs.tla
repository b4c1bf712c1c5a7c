---------------------------- MODULE MpegReaderProofs ----------------------------
(***************************************************************************)
(* Proofs about MpegReader for files of any length, any search limit, any  *)
(* sizes of the buffer and whatever the reads return.                      *)
(*                                                                         *)
(* The header and the frame are put together by up to two reads per call   *)
(* of readData, byte by byte during the search.  The invariant is that the *)
(* buffer is a piece of the file that ends at the file offset, and says    *)
(* where the piece begins and what has been searched.                      *)
(***************************************************************************)
EXTENDS MpegReader, SequenceTheorems, TLAPS

\* d is what is in f between the offsets p and q.
Piece(f, d, p, q) == d = SubSeq(f, p + 1, q) /\ (p < q => q <= Len(f))

\* The buffer holds the file from offset p to where it has been read.
Holds(p) == Piece(file, data, p, pos)

\* No offset of this call before p has a sync word.
NoneBefore(p) == \A q \in start..p - 1 : ~Synced(FourAt(q))

HeaderInv ==
  at = "header" => pos = start + got /\ left + got = 4 /\ Holds(start)

SearchInv ==
  at = "search" => start <= pos - 4 /\ Holds(pos - 4) /\ NoneBefore(pos - 4)

ByteInv ==
  at = "byte" =>
    /\ left + got = 1
    /\ start <= pos - got - 4
    /\ Holds(pos - got - 3) /\ NoneBefore(pos - got - 3)

FoundInv ==
  HasHeader =>
    start <= pos - 4 /\ Holds(pos - 4) /\ NoneBefore(pos - 4) /\ Synced(data)

FrameInv ==
  at = "frame" =>
    /\ pos = start + 4 + got /\ Holds(start)
    /\ size >= 4 /\ length >= 0
    /\ length = 0 => failed
    /\ length # 0 => left + got = (IF length > size THEN size ELSE length) - 4

WholeInv ==
  (at = "idle" /\ ret = <<"frame", "framelength">> /\ size > 4) =>
    pos = start + length /\ Holds(start)

IInv ==
  /\ TypeOK
  /\ HeaderInv /\ SearchInv /\ ByteInv /\ FoundInv /\ FrameInv /\ WholeInv

-----------------------------------------------------------------------------
(* Pieces of a file.                                                       *)

\* A piece is as long as the distance of its ends.
LEMMA PieceLength ==
  ASSUME NEW f \in Seq(Bytes), NEW d, NEW p \in Nat, NEW q \in Nat, p <= q,
         Piece(f, d, p, q)
  PROVE  /\ d \in Seq(Bytes)
         /\ Len(d) = q - p
         /\ \A i \in 1..q - p : d[i] = f[p + i]
  <1>1. \A i \in p + 1..q : f[i] \in Bytes
    BY DEF Piece
  <1>2. /\ SubSeq(f, p + 1, q) \in Seq(Bytes)
        /\ Len(SubSeq(f, p + 1, q)) = IF p + 1 <= q THEN q - (p + 1) + 1 ELSE 0
        /\ \A i \in 1..q - (p + 1) + 1 : SubSeq(f, p + 1, q)[i] = f[(p + 1) + i - 1]
    BY <1>1, SubSeqProperties
  <1> QED
    BY <1>2 DEF Piece

\* What is read goes behind what is there.
LEMMA PieceGrows ==
  ASSUME NEW f \in Seq(Bytes), NEW d, NEW p \in Nat, NEW q \in Nat, p <= q,
         Piece(f, d, p, q), NEW n \in Nat, n > 0, q + n <= Len(f)
  PROVE  Piece(f, d \o SubSeq(f, q + 1, q + n), p, q + n)
  BY ConcatAdjacentSubSeq DEF Piece

\* Shifting out the first byte moves the beginning.
LEMMA PieceShifts ==
  ASSUME NEW f \in Seq(Bytes), NEW d, NEW p \in Nat, NEW q \in Nat, p < q,
         Piece(f, d, p, q)
  PROVE  Piece(f, Tail(d), p + 1, q)
  BY HeadTailOfSubSeq DEF Piece

\* Four bytes of the buffer are the four bytes from that offset on.
LEMMA FourHeld ==
  ASSUME TypeOK, pos >= 4, Holds(pos - 4)
  PROVE  data = FourAt(pos - 4) /\ Len(data) = 4
  <1>1. PICK p \in Nat : p = pos - 4
    BY DEF TypeOK
  <1>2. /\ file \in Seq(Bytes) /\ pos \in Nat /\ p <= pos
        /\ Piece(file, data, p, pos)
    BY <1>1 DEF TypeOK, Holds
  <1>3. Len(data) = pos - p
    BY <1>2, PieceLength
  <1> QED
    BY <1>1, <1>2, <1>3 DEF Piece, FourAt

\* The results of calls.
LEMMA ResultTypes ==
  /\ None \in Results
  /\ <<"header", "4">> \in Results /\ <<"frame", "framelength">> \in Results
  /\ \A c \in {"header", "frame"}, e \in Errors : <<c, e>> \in Results
  BY DEF Results

-----------------------------------------------------------------------------
(* The steps.  What a step does to the buffer is a step of its proof; the  *)
(* rest is arithmetic on what has been read.                               *)

LEMMA InitIInv == Init => IInv
  <1> SUFFICES ASSUME Init PROVE IInv
    OBVIOUS
  <1>1. file \in Seq(Bytes) /\ Len(file) <= MaxFile
    <2>1. PICK m \in 0..MaxFile : file \in [1..m -> Bytes]
      BY DEF Init, BoundedSeq, SeqOf
    <2>2. m \in Nat
      BY <2>1, MpegAssumption
    <2>3. file \in Seq(Bytes)
      BY <2>1, <2>2, SeqDef
    <2>4. Len(file) = m
      BY <2>1, <2>2, <2>3, LenProperties
    <2> QED
      BY <2>1, <2>3, <2>4
  <1>2. data \in Seq(Bytes) /\ ret \in Results /\ skips \in 0..MaxSkips
    BY MpegAssumption, ResultTypes DEF Init
  <1>4. TypeOK
    <2>1. /\ pos = 0 /\ start = 0 /\ at = "idle" /\ left = 0 /\ tries = 0 /\ got = 0
          /\ length = -1 /\ size = 0
      BY DEF Init
    <2>2. failed \in BOOLEAN
      BY Zenon DEF Init
    <2> QED
      BY <1>1, <1>2, <2>1, <2>2 DEF TypeOK
  <1>3. HeaderInv /\ SearchInv /\ ByteInv /\ FoundInv /\ FrameInv /\ WholeInv
    BY DEF Init, HeaderInv, SearchInv, ByteInv, FoundInv, FrameInv, WholeInv, HasHeader, None
  <1> QED
    BY <1>3, <1>4 DEF IInv

\* A read appends to the buffer what it moves the offset over.
LEMMA ReadSomeInv == IInv /\ ReadSome => IInv'
  <1> SUFFICES ASSUME IInv, ReadSome PROVE IInv'
    OBVIOUS
  <1> USE DEF IInv
  <1>1. PICK n \in 1..left : Read(n)
    BY DEF ReadSome
  <1>2. /\ Reading /\ pos + n <= Len(file)
        /\ pos' = pos + n /\ data' = data \o SubSeq(file, pos + 1, pos + n)
        /\ left' = left - n /\ got' = got + n /\ tries' = tries - 1
        /\ UNCHANGED <<file, at, failed, skips, length, size, start, ret>>
    BY <1>1 DEF Read
  <1>3. /\ file \in Seq(Bytes) /\ pos \in Nat /\ data \in Seq(Bytes) /\ left \in Nat
        /\ got \in Nat /\ start \in Nat /\ n \in Nat /\ 0 < n /\ n <= left
        /\ tries \in 1..2
    BY <1>2 DEF TypeOK, Reading
  <1>4. at \in {"header", "byte", "frame"} /\ ~failed
    BY <1>2 DEF Reading
  <1>5. \A p \in Nat : p <= pos /\ Holds(p) => Holds(p)'
    BY <1>2, <1>3, PieceGrows DEF Holds
  <1>6. data' \in Seq(Bytes)
    <2>1. \A i \in pos + 1..pos + n : file[i] \in Bytes
      BY <1>2, <1>3, ElementOfSeq
    <2>2. SubSeq(file, pos + 1, pos + n) \in Seq(Bytes)
      BY <1>3, <2>1, SubSeqProperties
    <2> QED
      BY <1>2, <1>3, <2>2, ConcatProperties
  <1>7. TypeOK'
    BY <1>2, <1>3, <1>6 DEF TypeOK
  <1>8. HeaderInv'
    BY <1>2, <1>3, <1>5 DEF HeaderInv
  <1>9. ByteInv'
    <2>1. ASSUME at = "byte"
          PROVE  /\ left + got = 1 /\ start <= pos - got - 4
                 /\ pos - got - 3 \in Nat /\ pos - got - 3 <= pos
                 /\ pos' - got' = pos - got
                 /\ Holds(pos - got - 3) /\ NoneBefore(pos - got - 3)
      BY <2>1, <1>2, <1>3 DEF ByteInv
    <2>2. ASSUME at = "byte" PROVE Holds(pos - got - 3)'
      BY <2>1, <2>2, <1>5, <1>2, <1>3
    <2>3. ASSUME at = "byte" PROVE NoneBefore(pos - got - 3)'
      BY <2>1, <2>3, <1>2 DEF NoneBefore, FourAt
    <2> QED
      BY <2>1, <2>2, <2>3, <1>2, <1>3 DEF ByteInv
  <1>10. FrameInv'
    BY <1>2, <1>3, <1>5 DEF FrameInv
  <1>11. SearchInv' /\ FoundInv' /\ WholeInv'
    BY <1>2, <1>4 DEF SearchInv, FoundInv, WholeInv, HasHeader
  <1> QED
    BY <1>7, <1>8, <1>9, <1>10, <1>11

\* A read that brings nothing changes neither the buffer nor the offset.
LEMMA ReadNothingInv == IInv /\ (ReadEnd \/ ReadAgain \/ ReadFails) => IInv'
  <1> SUFFICES ASSUME IInv, ReadEnd \/ ReadAgain \/ ReadFails PROVE IInv'
    OBVIOUS
  <1> USE DEF IInv
  <1>1. /\ Reading
        /\ UNCHANGED <<file, pos, data, at, left, got, skips, length, size, start, ret>>
    BY DEF ReadEnd, ReadAgain, ReadFails
  <1>2. tries' \in 0..2
    BY DEF ReadEnd, ReadAgain, ReadFails, Reading, TypeOK
  <1>3. failed' \in BOOLEAN
    <2>1. failed' = failed \/ failed' = TRUE
      BY Zenon DEF ReadEnd, ReadAgain, ReadFails
    <2> QED
      BY <2>1, Zenon DEF TypeOK
  <1>4. failed => failed'
    BY <1>1 DEF Reading
  <1>5. TypeOK'
    BY <1>1, <1>2, <1>3 DEF TypeOK
  <1>6. HeaderInv' /\ SearchInv' /\ ByteInv' /\ FrameInv'
    BY <1>1, <1>4 DEF HeaderInv, SearchInv, ByteInv, FrameInv, Holds, NoneBefore, FourAt
  <1>7. FoundInv' /\ WholeInv'
    BY <1>1 DEF FoundInv, WholeInv, HasHeader, Reading
  <1> QED
    BY <1>5, <1>6, <1>7

\* What a call leaves when it returns, wherever it was.
LEMMA ReturnTypes ==
  ASSUME TypeOK, NEW c, NEW e, <<c, e>> \in Results, Returns(c, e),
         data' \in Seq(Bytes), pos' \in Nat
  PROVE  TypeOK'
  <1>1. /\ at' = "idle" /\ ret' = <<c, e>> /\ left' = 0 /\ tries' = 0 /\ got' = 0
        /\ skips' = 0
        /\ UNCHANGED <<file, length, size, start>>
    BY DEF Returns
  <1>2. failed' \in BOOLEAN
    BY Zenon DEF Returns
  <1>3. 0 \in 0..MaxSkips
    BY MpegAssumption
  <1> QED
    BY <1>1, <1>2, <1>3 DEF TypeOK

\* A call that fails promises nothing.
LEMMA ErrorInv ==
  ASSUME IInv, NEW c \in {"header", "frame"}, NEW e \in Errors, Returns(c, e),
         UNCHANGED <<pos, data>>
  PROVE  IInv'
  <1>1. <<c, e>> \in Results
    BY ResultTypes
  <1>2. TypeOK'
    <2>1. TypeOK /\ data' \in Seq(Bytes) /\ pos' \in Nat
      BY DEF IInv, TypeOK
    <2> QED
      BY <1>1, <2>1, ReturnTypes
  <1>3. at' = "idle" /\ ret' = <<c, e>>
    BY DEF Returns
  <1>4. e \notin {"4", "framelength"}
    BY DEF Errors
  <1>5. HeaderInv' /\ SearchInv' /\ ByteInv' /\ FrameInv'
    BY <1>3 DEF HeaderInv, SearchInv, ByteInv, FrameInv
  <1>6. FoundInv' /\ WholeInv'
    BY <1>3, <1>4 DEF FoundInv, WholeInv, HasHeader
  <1> QED
    BY <1>2, <1>5, <1>6 DEF IInv

\* readMpegHeader begins where the file has been read to.
LEMMA HeaderCallInv ==
  ASSUME IInv, NEW s \in Sizes, ReadMpegHeader(s)
  PROVE  IInv'
  <1>1. /\ start' = pos /\ data' = <<>> /\ length' = -1 /\ size' = 0
        /\ left' = 4 /\ tries' = 2 /\ got' = 0 /\ at' = "header" /\ ret' = None
        /\ UNCHANGED <<file, pos, skips>>
    BY DEF ReadMpegHeader, ReadData
  <1>2. failed' \in BOOLEAN
    BY Zenon DEF ReadMpegHeader, ReadData
  <1>3. None \in Results
    BY ResultTypes
  <1>4. pos \in Nat
    BY DEF IInv, TypeOK
  <1>5. TypeOK'
    BY <1>1, <1>2, <1>3 DEF IInv, TypeOK
  <1>6. Piece(file, <<>>, pos, pos)
    BY <1>4, SubSeqEmpty DEF Piece
  <1>7. HeaderInv'
    BY <1>1, <1>4, <1>6 DEF HeaderInv, Holds
  <1>8. SearchInv' /\ ByteInv' /\ FrameInv' /\ FoundInv' /\ WholeInv'
    BY <1>1 DEF SearchInv, ByteInv, FrameInv, FoundInv, WholeInv, HasHeader
  <1> QED
    BY <1>5, <1>7, <1>8 DEF IInv

\* The four bytes of the header are there, or the call fails.
LEMMA HeaderReadInv == IInv /\ HeaderRead => IInv'
  <1> SUFFICES ASSUME IInv, HeaderRead PROVE IInv'
    OBVIOUS
  <1>1. CASE \E e \in Errors : HeaderReturns(e)
    BY <1>1, ErrorInv DEF HeaderReturns
  <1>2. CASE /\ Returned(4) /\ at' = "search"
             /\ UNCHANGED <<file, pos, data, rdvars, skips, length, size, start, ret>>
    <2>1. /\ at = "header" /\ got = 4 /\ pos = start + 4 /\ Holds(start)
      BY <1>2 DEF HeaderRead, Returned, IInv, HeaderInv
    <2>2. TypeOK'
      BY <1>2 DEF rdvars, IInv, TypeOK
    <2>3. start \in Nat /\ start = pos - 4
      BY <2>1 DEF IInv, TypeOK
    <2>4. NoneBefore(start)
      BY <2>3 DEF NoneBefore
    <2>5. SearchInv'
      BY <1>2, <2>1, <2>3, <2>4 DEF SearchInv, Holds, NoneBefore, FourAt
    <2>6. HeaderInv' /\ ByteInv' /\ FrameInv' /\ FoundInv' /\ WholeInv'
      BY <1>2 DEF HeaderInv, ByteInv, FrameInv, FoundInv, WholeInv, HasHeader
    <2> QED
      BY <2>2, <2>5, <2>6 DEF IInv
  <1> QED
    BY <1>1, <1>2 DEF HeaderRead, Errors

\* The four bytes in hand while the search looks at them.
LEMMA SearchHolds ==
  ASSUME IInv, at = "search"
  PROVE  /\ file \in Seq(Bytes) /\ pos \in Nat /\ start \in Nat /\ pos - 4 \in Nat
         /\ start <= pos - 4 /\ Piece(file, data, pos - 4, pos)
         /\ data = FourAt(pos - 4) /\ NoneBefore(pos - 4)
  <1>1. file \in Seq(Bytes) /\ pos \in Nat /\ start \in Nat
    BY DEF IInv, TypeOK
  <1>2. start <= pos - 4 /\ Holds(pos - 4) /\ NoneBefore(pos - 4)
    BY DEF IInv, SearchInv
  <1>3. data = FourAt(pos - 4)
    BY <1>1, <1>2, FourHeld DEF IInv
  <1> QED
    BY <1>1, <1>2, <1>3 DEF Holds

LEMMA SyncFoundInv == IInv /\ SyncFound => IInv'
  <1> SUFFICES ASSUME IInv, SyncFound PROVE IInv'
    OBVIOUS
  <1>1. /\ at = "search" /\ Synced(data) /\ Returns("header", "4")
        /\ at' = "idle" /\ ret' = <<"header", "4">>
        /\ UNCHANGED <<file, pos, data, start>>
    BY DEF SyncFound, HeaderReturns, Returns
  <1>2. TypeOK'
    <2>1. TypeOK /\ data' \in Seq(Bytes) /\ pos' \in Nat
      BY <1>1 DEF IInv, TypeOK
    <2>2. <<"header", "4">> \in Results
      BY ResultTypes
    <2> QED
      BY <1>1, <2>1, <2>2, ReturnTypes
  <1>3. FoundInv'
    BY <1>1 DEF IInv, SearchInv, FoundInv, Holds, NoneBefore, FourAt, Synced
  <1>4. HeaderInv' /\ SearchInv' /\ ByteInv' /\ FrameInv' /\ WholeInv'
    BY <1>1 DEF HeaderInv, SearchInv, ByteInv, FrameInv, WholeInv
  <1> QED
    BY <1>2, <1>3, <1>4 DEF IInv

\* The byte that is shifted out was at an offset without a sync word.
LEMMA SyncShiftInv == IInv /\ SyncShift => IInv'
  <1> SUFFICES ASSUME IInv, SyncShift PROVE IInv'
    OBVIOUS
  <1>1. /\ at = "search" /\ ~Synced(data) /\ data' = Tail(data)
        /\ left' = 1 /\ tries' = 2 /\ got' = 0 /\ at' = "byte"
        /\ UNCHANGED <<file, pos, skips, length, size, start, ret>>
    BY DEF SyncShift, ReadData
  <1>2. failed' \in BOOLEAN
    BY Zenon DEF SyncShift, ReadData
  <1>3. PICK p \in Nat : p = pos - 4
    BY <1>1, SearchHolds
  <1>4. /\ file \in Seq(Bytes) /\ pos \in Nat /\ start \in Nat /\ start <= p /\ p < pos
        /\ pos = p + 4
        /\ NoneBefore(p) /\ data = FourAt(p)
    BY <1>1, <1>3, SearchHolds
  <1>5. Piece(file, data, p, pos)
    BY <1>1, <1>3, SearchHolds
  <1>6. Piece(file, data', p + 1, pos)
    BY <1>1, <1>4, <1>5, PieceShifts
  <1>7. data' \in Seq(Bytes)
    <2>1. p + 1 \in Nat /\ p + 1 <= pos
      BY <1>4
    <2> QED
      BY <1>4, <1>6, <2>1, PieceLength
  <1>8. TypeOK'
    BY <1>1, <1>2, <1>7 DEF IInv, TypeOK
  <1>9. NoneBefore(p + 1)
    <2> SUFFICES ASSUME NEW q \in start..p PROVE ~Synced(FourAt(q))
      BY DEF NoneBefore
    <2>1. CASE q = p
      BY <1>1, <1>4, <2>1
    <2>2. CASE q # p
      BY <1>4, <2>2 DEF NoneBefore
    <2> QED
      BY <2>1, <2>2
  <1>10. ByteInv'
    <2>1. pos' - got' - 3 = p + 1 /\ start' <= pos' - got' - 4 /\ left' + got' = 1
      BY <1>1, <1>4
    <2>2. Holds(p + 1)' /\ NoneBefore(p + 1)'
      BY <1>1, <1>6, <1>9 DEF Holds, NoneBefore, FourAt
    <2> QED
      BY <2>1, <2>2 DEF ByteInv
  <1>11. HeaderInv' /\ SearchInv' /\ FrameInv' /\ FoundInv' /\ WholeInv'
    BY <1>1 DEF HeaderInv, SearchInv, FrameInv, FoundInv, WholeInv, HasHeader
  <1> QED
    BY <1>8, <1>10, <1>11 DEF IInv

\* With the next byte in place there are four again.
LEMMA SyncByteInv == IInv /\ SyncByte => IInv'
  <1> SUFFICES ASSUME IInv, SyncByte PROVE IInv'
    OBVIOUS
  <1>1. CASE \E e \in Errors : HeaderReturns(e)
    BY <1>1, ErrorInv DEF HeaderReturns
  <1>2. CASE /\ Returned(1) /\ skips < MaxSkips /\ skips' = skips + 1 /\ at' = "search"
             /\ UNCHANGED <<file, pos, data, rdvars, length, size, start, ret>>
    <2>1. /\ at = "byte" /\ got = 1
      BY <1>2 DEF SyncByte, Returned
    <2>2. TypeOK'
      <3>1. skips' \in 0..MaxSkips
        BY <1>2, MpegAssumption DEF IInv, TypeOK
      <3> QED
        BY <1>2, <3>1 DEF rdvars, IInv, TypeOK
    <2>3. pos - got - 3 = pos - 4 /\ start <= pos - 4
      BY <2>1 DEF IInv, TypeOK, ByteInv
    <2>4. Holds(pos - 4) /\ NoneBefore(pos - 4)
      BY <2>1, <2>3 DEF IInv, ByteInv
    <2>5. SearchInv'
      BY <1>2, <2>3, <2>4 DEF SearchInv, Holds, NoneBefore, FourAt
    <2>6. HeaderInv' /\ ByteInv' /\ FrameInv' /\ FoundInv' /\ WholeInv'
      BY <1>2 DEF HeaderInv, ByteInv, FrameInv, FoundInv, WholeInv, HasHeader
    <2> QED
      BY <2>2, <2>5, <2>6 DEF IInv
  <1> QED
    BY <1>1, <1>2 DEF SyncByte, Errors

\* readMpegFrame continues behind the header in the buffer.
LEMMA FrameCallInv ==
  ASSUME IInv, NEW s \in Sizes, ReadMpegFrame(s)
  PROVE  IInv'
  <1> DEFINE n == FrameLength[data[3]]
  <1>1. /\ HasHeader /\ n >= 0 /\ s >= 4
        /\ length' = n /\ size' = s /\ start' = pos - 4
        /\ at' = "frame" /\ ret' = None
        /\ UNCHANGED <<file, pos, data, skips>>
    BY DEF ReadMpegFrame
  <1>2. /\ file \in Seq(Bytes) /\ pos \in Nat /\ start \in Nat /\ s \in Nat
    BY MpegAssumption DEF IInv, TypeOK
  <1>3. start <= pos - 4 /\ Holds(pos - 4)
    BY <1>1 DEF IInv, FoundInv
  <1>4. n \in Int /\ (n = -1 \/ n = 0 \/ n >= 4)
    <2>1. data \in Seq(Bytes) /\ Len(data) = 4
      BY <1>2, <1>3, FourHeld DEF IInv, TypeOK
    <2>2. \A i \in 1..Len(data) : data[i] \in Bytes
      BY <2>1, ElementOfSeq
    <2>3. data[3] \in Bytes
      BY <2>1, <2>2
    <2> QED
      BY <2>3, MpegAssumption
  <1> HIDE DEF n
  <1>5. /\ got' = 0 /\ tries' \in 0..2
        /\ n = 0 => left' = 0
        /\ n # 0 => left' = (IF n > s THEN s ELSE n) - 4
    BY <1>1 DEF ReadMpegFrame, ReadData
  <1>6. failed' \in BOOLEAN /\ (n = 0 => failed')
    <2>1. failed' = (n = 0)
      BY <1>1 DEF ReadMpegFrame, ReadData
    <2> QED
      BY <2>1, Zenon
  <1>7. TypeOK'
    <2>1. left' \in Nat
      BY <1>1, <1>2, <1>4, <1>5
    <2>2. start' \in Nat /\ None \in Results
      BY <1>1, <1>2, <1>3, ResultTypes
    <2> QED
      BY <1>1, <1>4, <1>5, <1>6, <2>1, <2>2 DEF IInv, TypeOK
  <1>8. FrameInv'
    <2>1. Holds(start)'
      BY <1>1, <1>3 DEF Holds
    <2>2. pos' = start' + 4 + got' /\ size' >= 4 /\ length' >= 0
      BY <1>1, <1>2, <1>5
    <2>3. length' = 0 => failed'
      BY <1>1, <1>6
    <2>4. length' # 0 => left' + got' = (IF length' > size' THEN size' ELSE length') - 4
      BY <1>1, <1>2, <1>4, <1>5
    <2> QED
      BY <2>1, <2>2, <2>3, <2>4 DEF FrameInv
  <1>9. HeaderInv' /\ SearchInv' /\ ByteInv' /\ FoundInv' /\ WholeInv'
    BY <1>1 DEF HeaderInv, SearchInv, ByteInv, FoundInv, WholeInv, HasHeader
  <1> QED
    BY <1>7, <1>8, <1>9 DEF IInv

\* Of a frame for which there was no room only the header is there.
LEMMA FrameSkippedInv == IInv /\ FrameSkipped => IInv'
  <1> SUFFICES ASSUME IInv, FrameSkipped PROVE IInv'
    OBVIOUS
  <1>1. /\ size = 4 /\ length > size /\ pos' \in {pos, pos + length - size}
        /\ Returns("frame", "framelength")
        /\ at' = "idle" /\ ret' = <<"frame", "framelength">>
        /\ UNCHANGED <<data, size>>
    BY DEF FrameSkipped, Returns
  <1>2. TypeOK'
    <2>1. pos \in Nat /\ length \in Int /\ data \in Seq(Bytes)
      BY DEF IInv, TypeOK
    <2>2. pos' \in Nat /\ data' \in Seq(Bytes)
      BY <1>1, <2>1
    <2>3. <<"frame", "framelength">> \in Results /\ TypeOK
      BY ResultTypes DEF IInv
    <2> QED
      BY <1>1, <2>2, <2>3, ReturnTypes
  <1>3. HeaderInv' /\ SearchInv' /\ ByteInv' /\ FrameInv'
    BY <1>1 DEF HeaderInv, SearchInv, ByteInv, FrameInv
  <1>4. FoundInv' /\ WholeInv'
    BY <1>1 DEF FoundInv, WholeInv, HasHeader
  <1> QED
    BY <1>2, <1>3, <1>4 DEF IInv

\* A body that is not shorter than the frame's is the frame's.
LEMMA FrameReadInv == IInv /\ FrameRead => IInv'
  <1> SUFFICES ASSUME IInv, FrameRead PROVE IInv'
    OBVIOUS
  <1>1. CASE \E e \in Errors : FrameReturns(e)
    BY <1>1, ErrorInv DEF FrameReturns
  <1>2. ASSUME NEW n \in 1..left + got, Returned(n), n >= length - 4,
               FrameReturns("framelength")
        PROVE  IInv'
    <2>1. /\ at = "frame" /\ n = got /\ ~failed
          /\ at' = "idle" /\ ret' = <<"frame", "framelength">>
          /\ UNCHANGED <<file, pos, data, length, size, start>>
      BY <1>2 DEF FrameRead, Returned, FrameReturns, Returns
    <2>2. TypeOK'
      <3>1. TypeOK /\ data' \in Seq(Bytes) /\ pos' \in Nat
        BY <2>1 DEF IInv, TypeOK
      <3>2. <<"frame", "framelength">> \in Results
        BY ResultTypes
      <3> QED
        BY <1>2, <3>1, <3>2, ReturnTypes DEF FrameReturns
    <2>3. /\ left \in Nat /\ got \in Nat /\ length \in Int /\ size \in Int /\ pos \in Nat
          /\ start \in Nat
      BY MpegAssumption DEF IInv, TypeOK
    <2>4. /\ pos = start + 4 + got /\ Holds(start) /\ length # 0
          /\ left + got = (IF length > size THEN size ELSE length) - 4
      BY <2>1 DEF IInv, FrameInv
    <2>5. got = length - 4
      BY <1>2, <2>1, <2>3, <2>4
    <2>6. WholeInv'
      BY <2>1, <2>3, <2>4, <2>5 DEF WholeInv, Holds
    <2>7. HeaderInv' /\ SearchInv' /\ ByteInv' /\ FrameInv' /\ FoundInv'
      BY <2>1 DEF HeaderInv, SearchInv, ByteInv, FrameInv, FoundInv, HasHeader
    <2> QED
      BY <2>2, <2>6, <2>7 DEF IInv
  <1>3. ASSUME NEW n \in 1..left + got, n < length - 4,
               FrameReturns("MPEG_BUFFER_UNDERFLOW")
        PROVE  IInv'
    BY <1>1, <1>3 DEF Errors
  <1>4. left + got \in Int /\ length \in Int
    BY DEF IInv, TypeOK
  <1>5. CASE \E n \in 1..left + got :
               /\ Returned(n)
               /\ FrameReturns(IF n < length - 4 THEN "MPEG_BUFFER_UNDERFLOW"
                                                 ELSE "framelength")
    <2>1. PICK n \in 1..left + got :
               /\ Returned(n)
               /\ FrameReturns(IF n < length - 4 THEN "MPEG_BUFFER_UNDERFLOW"
                                                 ELSE "framelength")
      BY <1>5
    <2>2. CASE n < length - 4
      BY <1>3, <2>1, <2>2
    <2>3. CASE ~(n < length - 4)
      <3>1. n >= length - 4
        BY <1>4, <2>3
      <3> QED
        BY <1>2, <2>1, <2>3, <3>1
    <2> QED
      BY <2>2, <2>3
  <1> QED
    BY <1>1, <1>5 DEF FrameRead, Errors

-----------------------------------------------------------------------------
\* The invariant is inductive.
LEMMA NextIInv == IInv /\ [Next]_vars => IInv'
  <1> SUFFICES ASSUME IInv, [Next]_vars PROVE IInv'
    OBVIOUS
  <1>1. CASE Step
    BY <1>1, ReadSomeInv, ReadNothingInv, HeaderReadInv, SyncFoundInv, SyncShiftInv,
       SyncByteInv, FrameSkippedInv, FrameReadInv DEF Step
  <1>2. ASSUME NEW s \in Sizes, HeaderTooLong(s) \/ ReadMpegHeader(s) \/ ReadMpegFrame(s)
        PROVE  IInv'
    <2>1. CASE HeaderTooLong(s)
      BY <2>1, ErrorInv DEF HeaderTooLong, HeaderReturns, Errors
    <2> QED
      BY <1>2, <2>1, HeaderCallInv, FrameCallInv
  <1>3. CASE InvalidFrame
    BY <1>3, ErrorInv DEF InvalidFrame, FrameReturns, Errors
  <1>4. CASE UNCHANGED vars
    <2>1. TypeOK'
      BY <1>4 DEF vars, rdvars, IInv, TypeOK
    <2>2. HeaderInv' /\ SearchInv' /\ ByteInv' /\ FoundInv' /\ FrameInv' /\ WholeInv'
      BY <1>4 DEF vars, rdvars, IInv, HeaderInv, SearchInv, ByteInv, FoundInv, FrameInv,
         WholeInv, HasHeader, Holds, NoneBefore, FourAt, Synced
    <2> QED
      BY <2>1, <2>2 DEF IInv
  <1> QED
    BY <1>1, <1>2, <1>3, <1>4 DEF Next

LEMMA ReaderInvariance == Spec => []IInv
  <1>1. Init => IInv
    BY InitIInv
  <1>2. IInv /\ [Next]_vars => IInv'
    BY NextIInv
  <1> QED
    BY <1>1, <1>2, PTL DEF Spec

\* Every variable of the reader keeps its type.
THEOREM ReaderTypes == Spec => []TypeOK
  <1>1. IInv => TypeOK
    BY DEF IInv
  <1> QED
    BY <1>1, ReaderInvariance, PTL

\* However the reads cut the file up, the header that readMpegHeader returns is
\* the file's, and no sync word was jumped over.
THEOREM FirstSyncFound == Spec => []HeaderIsFirstSync
  <1>1. IInv => HeaderIsFirstSync
    <2> SUFFICES ASSUME IInv, HasHeader PROVE
          /\ data = FourAt(pos - 4) /\ Synced(data)
          /\ \A p \in start..pos - 5 : ~Synced(FourAt(p))
      BY DEF HeaderIsFirstSync
    <2>1. pos \in Nat /\ start \in Nat /\ start <= pos - 4
      BY DEF IInv, TypeOK, FoundInv
    <2>2. data = FourAt(pos - 4)
      BY <2>1, FourHeld DEF IInv, FoundInv
    <2>3. (pos - 4) - 1 = pos - 5
      BY <2>1
    <2> QED
      BY <2>2, <2>3 DEF IInv, FoundInv, NoneBefore
  <1> QED
    BY <1>1, ReaderInvariance, PTL

\* However the reads cut the file up, a frame that readMpegFrame returns is
\* all of the frame, and the file is read on behind it.
THEOREM FrameInOnePiece == Spec => []FrameIsWhole
  <1>1. IInv => FrameIsWhole
    BY DEF IInv, WholeInv, FrameIsWhole, Holds, Piece
  <1> QED
    BY <1>1, ReaderInvariance, PTL
=============================================================================
