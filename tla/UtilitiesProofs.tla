--------------------------- MODULE UtilitiesProofs ---------------------------
(***************************************************************************)
(* What holds of the parts that Utilities puts beside each other, for      *)
(* any number of frames, days and bytes and for any polynomials: the       *)
(* headers, the DAB time and the calendar here, the CRCs from CrcProofs,   *)
(* the character set from CharsetProofs.                                   *)
(***************************************************************************)
EXTENDS Utilities, TLAPS

-----------------------------------------------------------------------------
(* The DAB time.                                                           *)

\* The clock stands at 0 until the first call.
ClockInv == TypeOK /\ TimeIsFrames /\ (dab_time_seconds = 0 => frames = 0 /\ dab_time_millis = 0)

LEMMA InitClockInv == Init => ClockInv
  BY DabTimeAssumption DEF Init, ClockInv, TypeOK, TimeIsFrames

LEMMA NextClockInv == ClockInv /\ [update_dab_time]_vars => ClockInv'
  <1> SUFFICES ASSUME ClockInv, [update_dab_time]_vars PROVE ClockInv'
    OBVIOUS
  <1> USE DabTimeAssumption DEF ClockInv, TypeOK, TimeIsFrames
  <1>1. CASE update_dab_time /\ Start
    BY <1>1 DEF update_dab_time, Start
  <1>2. CASE update_dab_time /\ Advance
    BY <1>2 DEF update_dab_time, Advance
  <1>3. CASE UNCHANGED vars
    BY <1>3 DEF vars
  <1> QED
    BY <1>1, <1>2, <1>3 DEF update_dab_time

-----------------------------------------------------------------------------
(* The calendar.                                                           *)

DateOK ==
  /\ year \in Nat /\ year >= 1858
  /\ month \in 1..12
  /\ day \in 1..DaysIn(year, month)
  /\ days \in Nat

DateInv == DateOK /\ MjdCountsDays

\* The month lengths as the provers take them.
LEMMA MonthLengths ==
  ASSUME NEW y \in Nat
  PROVE  /\ DaysIn(y, 2) = IF Leap(y) THEN 29 ELSE 28
         /\ \A m \in {4, 6, 9, 11} : DaysIn(y, m) = 30
         /\ \A m \in {1, 3, 5, 7, 8, 10, 12} : DaysIn(y, m) = 31
  BY DEF DaysIn

\* A year has a leap day when one of the divisions of gregorian2mjd says so.
LEMMA LeapDay ==
  ASSUME NEW y \in Nat
  PROVE  LET Y == y + 7999
         IN  (Y + 1) \div 4 - (Y + 1) \div 100 + (Y + 1) \div 400
               = Y \div 4 - Y \div 100 + Y \div 400 + (IF Leap(y) THEN 1 ELSE 0)
  <1> DEFINE Y == y + 7999
  <1>1. (Y + 1) \div 4 = Y \div 4 + (IF y % 4 = 0 THEN 1 ELSE 0)
    OBVIOUS
  <1>2. (Y + 1) \div 100 = Y \div 100 + (IF y % 100 = 0 THEN 1 ELSE 0)
    OBVIOUS
  <1>3. (Y + 1) \div 400 = Y \div 400 + (IF y % 400 = 0 THEN 1 ELSE 0)
    OBVIOUS
  <1>4. y % 400 = 0 => y % 100 = 0
    OBVIOUS
  <1>5. y % 100 = 0 => y % 4 = 0
    OBVIOUS
  <1> QED
    BY <1>1, <1>2, <1>3, <1>4, <1>5 DEF Leap

\* The first of a month follows the last of the month before.
LEMMA MonthEnds ==
  ASSUME NEW y \in Nat, NEW m \in 1..12
  PROVE  gregorian2mjd(IF m = 12 THEN y + 1 ELSE y, (m % 12) + 1, 1)
           = gregorian2mjd(y, m, DaysIn(y, m)) + 1
  <1>1. CASE m = 2
    <2>1. DaysIn(y, 2) = IF Leap(y) THEN 29 ELSE 28
      BY MonthLengths
    <2> QED
      BY <1>1, <2>1, LeapDay DEF gregorian2mjd
  <1>2. CASE m \in {4, 6, 9, 11}
    <2>1. DaysIn(y, m) = 30
      BY <1>2, MonthLengths
    <2> QED
      BY <1>2, <2>1 DEF gregorian2mjd
  <1>3. CASE m \in {1, 3, 5, 7, 8, 10, 12}
    <2>1. DaysIn(y, m) = 31
      BY <1>3, MonthLengths
    <2> QED
      BY <1>3, <2>1 DEF gregorian2mjd
  <1> QED
    BY <1>1, <1>2, <1>3

\* From day to day within a month.
LEMMA DayByDay ==
  ASSUME NEW y \in Nat, NEW m \in 1..12, NEW d \in Int
  PROVE  gregorian2mjd(y, m, d + 1) = gregorian2mjd(y, m, d) + 1
  BY DEF gregorian2mjd

LEMMA NextDateInv == DateInv /\ [Tomorrow]_dvars => DateInv'
  <1> SUFFICES ASSUME DateInv, [Tomorrow]_dvars
               PROVE  DateInv'
    OBVIOUS
  <1>1. /\ year \in Nat /\ month \in 1..12 /\ day \in Int
        /\ DaysIn(year, month) \in 28..31
    <2>1. DaysIn(year, month) \in 28..31
      <3>1. CASE month = 2
        BY <3>1, MonthLengths DEF DateInv, DateOK
      <3>2. CASE month \in {4, 6, 9, 11}
        BY <3>2, MonthLengths DEF DateInv, DateOK
      <3>3. CASE month \in {1, 3, 5, 7, 8, 10, 12}
        BY <3>3, MonthLengths DEF DateInv, DateOK
      <3> QED
        BY <3>1, <3>2, <3>3 DEF DateInv, DateOK
    <2> QED
      BY <2>1 DEF DateInv, DateOK
  <1>2. CASE Tomorrow
    <2>1. CASE /\ day < DaysIn(year, month)
               /\ day' = day + 1
               /\ UNCHANGED <<year, month>>
      <3>1. DaysIn(year', month') = DaysIn(year, month)
        BY <2>1
      <3>2. DateOK'
        BY <1>1, <1>2, <2>1, <3>1 DEF DateInv, DateOK, Tomorrow
      <3>3. gregorian2mjd(year', month', day') = gregorian2mjd(year, month, day) + 1
        BY <1>1, <2>1, DayByDay
      <3> QED
        BY <1>2, <3>2, <3>3 DEF DateInv, MjdCountsDays, Tomorrow
    <2>2. CASE /\ day = DaysIn(year, month)
               /\ day' = 1
               /\ month' = (month % 12) + 1
               /\ year' = IF month = 12 THEN year + 1 ELSE year
      <3>1. DateOK'
        <4>1. /\ year' \in Nat /\ year' >= 1858
              /\ month' \in 1..12
              /\ days' \in Nat
          BY <1>1, <1>2, <2>2 DEF DateInv, DateOK, Tomorrow
        <4>2. DaysIn(year', month') >= 1
          <5>1. CASE month' = 2
            BY <4>1, <5>1, MonthLengths
          <5>2. CASE month' \in {4, 6, 9, 11}
            BY <4>1, <5>2, MonthLengths
          <5>3. CASE month' \in {1, 3, 5, 7, 8, 10, 12}
            BY <4>1, <5>3, MonthLengths
          <5> QED
            BY <4>1, <5>1, <5>2, <5>3
        <4>3. DaysIn(year', month') \in Int
          <5>1. CASE month' = 2
            BY <4>1, <5>1, MonthLengths
          <5>2. CASE month' \in {4, 6, 9, 11}
            BY <4>1, <5>2, MonthLengths
          <5>3. CASE month' \in {1, 3, 5, 7, 8, 10, 12}
            BY <4>1, <5>3, MonthLengths
          <5> QED
            BY <4>1, <5>1, <5>2, <5>3
        <4> QED
          BY <2>2, <4>1, <4>2, <4>3 DEF DateOK
      <3>2. gregorian2mjd(year', month', day') = gregorian2mjd(year, month, day) + 1
        BY <1>1, <2>2, MonthEnds
      <3> QED
        BY <1>2, <3>1, <3>2 DEF DateInv, MjdCountsDays, Tomorrow
    <2> QED
      BY <1>2, <2>1, <2>2 DEF Tomorrow
  <1>3. CASE UNCHANGED dvars
    BY <1>3 DEF dvars, DateInv, DateOK, MjdCountsDays
  <1> QED
    BY <1>2, <1>3

LEMMA InitDateInv == DateInit => DateInv
  BY DEF DateInit, DateInv, DateOK, MjdCountsDays, DaysIn, gregorian2mjd

-----------------------------------------------------------------------------
(* The MPEG headers.                                                       *)

\* The sampling rates by the version, and the bit rates by the version and
\* the layer.
LEMMA Frequencies ==
  ASSUME NEW h \in F!Headers
  PROVE  /\ F!getMpegFrequency(h) \in {-1, 0, 8000, 11025, 12000, 16000, 22050, 24000,
                                       32000, 44100, 48000}
         /\ F!getMpegFrequency(h) > 0 =>
              (h.id = F!MPEG1 <=> F!getMpegFrequency(h) \in {32000, 44100, 48000})
         /\ F!getMpegFrequency(h) = 48000 <=> h.id = F!MPEG1 /\ h.samplingrate = 1
         /\ F!getMpegFrequency(h) = 24000 <=> h.id = F!MPEG2 /\ h.samplingrate = 1
  <1>1. h.id \in 0..3 /\ h.samplingrate \in 0..3
    BY DEF F!Headers
  <1> QED
    BY <1>1 DEF F!getMpegFrequency, F!MPEG1, F!MPEG2, F!MPEG25

LEMMA Bitrates ==
  ASSUME NEW h \in F!Headers
  PROVE  /\ F!getMpegBitrate(h) \in {-1, 0} \cup 8..448
         /\ F!getMpegBitrate(h) > 0 /\ h.id = F!MPEG1 => F!getMpegBitrate(h) >= 32
         /\ h.layer # F!LayerI => F!getMpegBitrate(h) <= 384
         /\ h.layer # F!LayerI /\ h.id # F!MPEG1 => F!getMpegBitrate(h) <= 160
  <1>1. h.id \in 0..3 /\ h.layer \in 0..3 /\ h.bitrate \in 0..15
    BY DEF F!Headers
  <1> DEFINE k == h.bitrate + 1
  <1>2. CASE h.id = 1 \/ h.layer = 0 \/ h.bitrate = 15
    BY <1>1, <1>2 DEF F!getMpegBitrate
  <1>3. CASE h.id # 1 /\ h.layer # 0 /\ h.bitrate # 15
    <2>1. k \in 1..15 /\ F!getMpegBitrate(h) = F!Rates(h.id, h.layer)[k]
      BY <1>1, <1>3 DEF F!getMpegBitrate
    <2> HIDE DEF k
    <2>2. /\ F!RatesIII[k] \in {0} \cup 32..320 /\ F!RatesII[k] \in {0} \cup 32..384
          /\ F!RatesI[k] \in {0} \cup 32..448 /\ F!LowRatesI[k] \in {0} \cup 32..256
          /\ F!LowRates[k] \in {0} \cup 8..160
      BY <2>1 DEF F!RatesIII, F!RatesII, F!RatesI, F!LowRatesI, F!LowRates
    <2>3. F!Rates(h.id, h.layer) =
            IF h.id = F!MPEG1
            THEN IF h.layer = F!LayerIII THEN F!RatesIII
                 ELSE IF h.layer = F!LayerII THEN F!RatesII ELSE F!RatesI
            ELSE IF h.layer = F!LayerI THEN F!LowRatesI ELSE F!LowRates
      BY <1>1, <1>3 DEF F!Rates, F!MPEG1, F!LayerI, F!LayerII, F!LayerIII
    <2>4. CASE h.id = F!MPEG1 /\ h.layer = F!LayerI
      <3>1. F!getMpegBitrate(h) \in {0} \cup 32..448
        BY <2>1, <2>2, <2>3, <2>4 DEF F!LayerI, F!LayerII, F!LayerIII
      <3> QED
        BY <2>4, <3>1
    <2>5. CASE h.id = F!MPEG1 /\ h.layer # F!LayerI
      <3>1. F!getMpegBitrate(h) \in {0} \cup 32..384
        BY <1>1, <1>3, <2>1, <2>2, <2>3, <2>5 DEF F!LayerI, F!LayerII, F!LayerIII
      <3> QED
        BY <2>5, <3>1
    <2>6. CASE h.id # F!MPEG1 /\ h.layer = F!LayerI
      <3>1. F!getMpegBitrate(h) \in {0} \cup 32..256
        BY <2>1, <2>2, <2>3, <2>6
      <3> QED
        BY <2>6, <3>1
    <2>7. CASE h.id # F!MPEG1 /\ h.layer # F!LayerI
      <3>1. F!getMpegBitrate(h) \in {0} \cup 8..160
        BY <2>1, <2>2, <2>3, <2>7
      <3> QED
        BY <2>7, <3>1
    <2> QED
      BY <2>4, <2>5, <2>6, <2>7
  <1> QED
    BY <1>2, <1>3

\* The lengths are those that the reader assumes of a header.
LEMMA FrameLengths ==
  ASSUME NEW h \in F!Headers
  PROVE  F!getMpegFrameLength(h) \in {-1, 0, 4} \cup 48..2881
  <1> DEFINE bitrate == F!getMpegBitrate(h)
             frequency == F!getMpegFrequency(h)
  <1>1. h.padding \in 0..1
    BY DEF F!Headers
  <1>2. F!getMpegFrameLength(h) =
          IF bitrate <= 0 \/ frequency <= 0 THEN -1
          ELSE IF h.layer = F!LayerI THEN ((12 * bitrate) \div frequency + h.padding) * 4
          ELSE (144000 * bitrate) \div frequency + h.padding
    BY DEF F!getMpegFrameLength
  <1>3. /\ frequency \in {-1, 0, 8000, 11025, 12000, 16000, 22050, 24000, 32000, 44100, 48000}
        /\ frequency > 0 => (h.id = F!MPEG1 <=> frequency \in {32000, 44100, 48000})
    BY Frequencies
  <1>4. /\ bitrate \in {-1, 0} \cup 8..448
        /\ bitrate > 0 /\ h.id = F!MPEG1 => bitrate >= 32
        /\ h.layer # F!LayerI => bitrate <= 384
        /\ h.layer # F!LayerI /\ h.id # F!MPEG1 => bitrate <= 160
    BY Bitrates
  <1> HIDE DEF bitrate, frequency
  <1>5. CASE bitrate <= 0 \/ frequency <= 0
    BY <1>2, <1>5
  <1>6. CASE bitrate > 0 /\ frequency > 0 /\ h.layer = F!LayerI
    <2>1. frequency \in {8000, 11025, 12000, 16000, 22050, 24000, 32000, 44100, 48000}
      BY <1>3, <1>6
    <2>2. bitrate \in 8..448
      BY <1>4, <1>6
    <2>3. (12 * bitrate) \div frequency = 0
      BY <2>1, <2>2
    <2> QED
      BY <1>1, <1>2, <1>6, <2>3
  <1>7. CASE bitrate > 0 /\ frequency > 0 /\ h.layer # F!LayerI
    <2>1. (144000 * bitrate) \div frequency \in 48..2880
      <3>1. CASE h.id = F!MPEG1
        BY <1>3, <1>4, <1>7, <3>1
      <3>2. CASE h.id # F!MPEG1
        BY <1>3, <1>4, <1>7, <3>2
      <3> QED
        BY <3>1, <3>2
    <2>2. F!getMpegFrameLength(h) = (144000 * bitrate) \div frequency + h.padding
      BY <1>2, <1>3, <1>4, <1>7
    <2> DEFINE q == (144000 * bitrate) \div frequency
    <2>3. q \in 48..2880 /\ F!getMpegFrameLength(h) = q + h.padding
      BY <2>1, <2>2
    <2> DEFINE padding == h.padding
               frameLength == F!getMpegFrameLength(h)
    <2>4. q \in 48..2880 /\ padding \in 0..1 /\ frameLength = q + padding
      BY <1>1, <2>3
    <2> HIDE DEF q, padding, frameLength
    <2>5. frameLength \in 48..2881
      BY <2>4
    <2> QED
      BY <2>5 DEF frameLength
  <1> QED
    BY <1>3, <1>4, <1>5, <1>6, <1>7

\* What the masks of checkDabMpegFrame let through, field by field.
LEMMA MaskedFields ==
  ASSUME NEW h \in F!Headers
  PROVE  F!checkDabMpegFrame(h) = "ok" <=>
           /\ h.id \in {F!MPEG1, F!MPEG2} /\ h.layer \in {F!LayerII, F!LayerI}
           /\ h.priv = 0 /\ h.padding = 0 /\ h.samplingrate = 1
           /\ h.emphasis = 0 /\ h.original = 0 /\ h.copyright = 0
  <1>1. /\ h.id \in 0..3 /\ h.layer \in 0..3 /\ h.bitrate \in 0..15
        /\ h.samplingrate \in 0..3 /\ h.padding \in 0..1 /\ h.priv \in 0..1
        /\ h.protection \in 0..1 /\ h.emphasis \in 0..3
        /\ h.original \in 0..1 /\ h.copyright \in 0..1
    BY DEF F!Headers
  <1>2. F!checkDabMpegFrame(h) = "ok" <=> F!Masked(h) \in {<<252, 4, 0>>, <<244, 4, 0>>}
    BY DEF F!checkDabMpegFrame
  <1>3. F!Masked(h) = <<(F!Byte1(h) \div 4) * 4, F!Byte2(h) % 16, F!Byte3(h) % 16>>
    BY DEF F!Masked
  <1>4. /\ (F!Byte1(h) \div 4) * 4 = 252 <=> h.id = 3 /\ h.layer \in {2, 3}
        /\ (F!Byte1(h) \div 4) * 4 = 244 <=> h.id = 2 /\ h.layer \in {2, 3}
    BY <1>1 DEF F!Byte1
  <1>5. F!Byte2(h) % 16 = 4 <=> h.priv = 0 /\ h.padding = 0 /\ h.samplingrate = 1
    BY <1>1 DEF F!Byte2
  <1>6. F!Byte3(h) % 16 = 0 <=> h.emphasis = 0 /\ h.original = 0 /\ h.copyright = 0
    BY <1>1 DEF F!Byte3
  <1>7. F!Masked(h) \in {<<252, 4, 0>>, <<244, 4, 0>>} <=>
          /\ (F!Byte1(h) \div 4) * 4 \in {252, 244}
          /\ F!Byte2(h) % 16 = 4 /\ F!Byte3(h) % 16 = 0
    BY <1>3
  <1> QED
    BY <1>2, <1>4, <1>5, <1>6, <1>7 DEF F!MPEG1, F!MPEG2, F!LayerII, F!LayerI

FrameInv == F!TypeOK /\ F!DabFrameLength /\ F!MasksMatchFields

LEMMA LookFrameInv == FrameInv /\ F!Look => FrameInv'
  <1> SUFFICES ASSUME FrameInv, F!Look PROVE FrameInv'
    OBVIOUS
  <1>1. /\ header' = header /\ header \in F!Headers
        /\ length' = F!getMpegFrameLength(header)
        /\ verdict' = F!checkDabMpegFrame(header)
    BY DEF FrameInv, F!TypeOK, F!Look
  <1>2. F!TypeOK'
    <2>1. verdict' \in {"none", "ok", "-1", "MPEG_FREQUENCY", "MPEG_PADDING",
                        "MPEG_EMPHASIS", "MPEG_COPYRIGHT", "MPEG_ORIGINAL"}
      BY <1>1 DEF F!checkDabMpegFrame
    <2> QED
      BY <1>1, <2>1, FrameLengths DEF F!TypeOK
  <1>3. F!DabFrameLength'
    <2> SUFFICES ASSUME verdict' = "ok", header.layer = F!LayerII,
                        F!getMpegBitrate(header) > 0
                 PROVE  length' * 8 = F!getMpegBitrate(header)
                                        * (IF header.id = F!MPEG1 THEN 24 ELSE 48)
      BY <1>1 DEF F!DabFrameLength
    <2>1. /\ header.id \in {F!MPEG1, F!MPEG2} /\ header.samplingrate = 1
          /\ header.padding = 0
      BY <1>1, MaskedFields
    <2>2. F!getMpegFrequency(header) = IF header.id = F!MPEG1 THEN 48000 ELSE 24000
      BY <1>1, <2>1, Frequencies
    <2>3. F!getMpegFrameLength(header)
            = (144000 * F!getMpegBitrate(header)) \div F!getMpegFrequency(header)
      <3>1. F!getMpegFrequency(header) > 0 /\ F!LayerII # F!LayerI
        BY <2>2 DEF F!LayerII, F!LayerI
      <3>2. F!getMpegBitrate(header) \in Int /\ F!getMpegFrequency(header) \in Int
        BY <1>1, <2>2, Bitrates
      <3>3. (144000 * F!getMpegBitrate(header)) \div F!getMpegFrequency(header) \in Int
        BY <2>2, <3>1, <3>2
      <3> QED
        BY <2>1, <3>1, <3>2, <3>3 DEF F!getMpegFrameLength
    <2>4. F!getMpegBitrate(header) \in Int
      BY <1>1, Bitrates
    <2>5. CASE header.id = F!MPEG1
      BY <1>1, <2>2, <2>3, <2>4, <2>5
    <2>6. CASE header.id # F!MPEG1
      BY <1>1, <2>2, <2>3, <2>4, <2>6
    <2> QED
      BY <2>5, <2>6
  <1>4. F!MasksMatchFields'
    <2>1. F!getMpegFrequency(header) \in {48000, 24000} <=>
            header.id \in {F!MPEG1, F!MPEG2} /\ header.samplingrate = 1
      BY <1>1, Frequencies
    <2> QED
      BY <1>1, <2>1, MaskedFields DEF F!MasksMatchFields
  <1> QED
    BY <1>2, <1>3, <1>4 DEF FrameInv

-----------------------------------------------------------------------------
(* The parts beside each other.                                            *)

CP == INSTANCE CrcProofs

\* The CRC of Utilities and that of the proofs are the same one.
LEMMA SameCrc ==
  /\ C!CrcAssumption <=> CP!CrcAssumption
  /\ C!Init <=> CP!Init
  /\ C!Next <=> CP!Next
  /\ C!TypeOK <=> CP!TypeOK
  /\ C!CrcIsRemainder <=> CP!CrcIsRemainder
  <1>1. C!CrcAssumption <=> CP!CrcAssumption
    BY DEF C!CrcAssumption, CP!CrcAssumption, C!Widths, CP!Widths, C!Word, CP!Word, C!Byte, CP!Byte
  <1>2. C!TypeOK <=> CP!TypeOK
    BY DEF C!TypeOK, CP!TypeOK, C!Widths, CP!Widths, C!Word, CP!Word
  <1>3. C!Init <=> CP!Init
    BY DEF C!Init, CP!Init, C!Widths, CP!Widths, C!Word, CP!Word, C!CodeInFile, CP!CodeInFile, C!FromHalves, CP!FromHalves, C!PowersInFile, CP!PowersInFile
  <1>4. C!Next <=> CP!Next
    <2>1. C!TablesInFile = CP!TablesInFile
      BY DEF C!TablesInFile, CP!TablesInFile, C!Cardinality, CP!Cardinality, C!Widths, CP!Widths, C!Word, CP!Word, C!Byte, CP!Byte, C!FromHalves, CP!FromHalves, C!PowersInFile, CP!PowersInFile
    <2>2. C!TablesBuilt = CP!TablesBuilt
      BY DEF C!TablesBuilt, CP!TablesBuilt, C!Entry, CP!Entry, C!Left, CP!Left, C!Widths, CP!Widths, C!Word, CP!Word, C!Byte, CP!Byte, C!SymDiff, CP!SymDiff
    <2>3. C!Table = CP!Table
      BY <2>1, <2>2 DEF C!Table, CP!Table
    <2>4. C!InitTable <=> CP!InitTable
      BY DEF C!InitTable, CP!InitTable
    <2>5. \A crc, byte : C!Step(crc, byte) = CP!Step(crc, byte)
      BY <2>3 DEF C!Step, CP!Step, C!Left, CP!Left, C!Right, CP!Right, C!Word, CP!Word, C!Byte, CP!Byte, C!SymDiff, CP!SymDiff
    <2>6. C!Feed <=> CP!Feed
      BY <2>5 DEF C!Feed, CP!Feed
    <2> QED
      BY <2>4, <2>6 DEF C!Next, CP!Next
  <1>5. C!CrcIsRemainder <=> CP!CrcIsRemainder
    BY DEF C!CrcIsRemainder, CP!CrcIsRemainder, C!Remainder, CP!Remainder, C!SymDiff, CP!SymDiff
  <1> QED
    BY <1>1, <1>2, <1>3, <1>4, <1>5

TP == INSTANCE CharsetProofs

\* The character set of Utilities and that of the proofs are the same one.
\* It encodes and decodes alike,
LEMMA SameUtf8 ==
  /\ \A cp : T!append(cp) = TP!append(cp)
  /\ \A s, it : T!validate_next(s, it) = TP!validate_next(s, it)
  /\ \A s : T!find_invalid(s) = TP!find_invalid(s)
  /\ \A s : T!utf8to32(s) = TP!utf8to32(s)
  <1>1. \A cp : T!append(cp) = TP!append(cp)
    BY DEF T!append, TP!append, T!Trail, TP!Trail, T!Low6, TP!Low6
  <1>2. \A s, it : T!validate_next(s, it) = TP!validate_next(s, it)
    <2>1. \A k : T!is_trail(k) = TP!is_trail(k)
      BY DEF T!is_trail, TP!is_trail
    <2>2. \A s, it, l : T!Stops(s, it, l) = TP!Stops(s, it, l)
      BY <2>1 DEF T!Stops, TP!Stops
    <2>3. \A s, it, l : T!DecodeSequence(s, it, l) = TP!DecodeSequence(s, it, l)
      BY DEF T!DecodeSequence, TP!DecodeSequence, T!Low6, TP!Low6
    <2>4. \A l : T!sequence_length(l) = TP!sequence_length(l)
      BY DEF T!sequence_length, TP!sequence_length
    <2>5. \A l : T!is_code_point_valid(l) = TP!is_code_point_valid(l)
      BY DEF T!is_code_point_valid, TP!is_code_point_valid, T!is_surrogate, TP!is_surrogate, T!CODE_POINT_MAX, TP!CODE_POINT_MAX
    <2>6. \A l, k : T!is_overlong_sequence(l, k) = TP!is_overlong_sequence(l, k)
      BY DEF T!is_overlong_sequence, TP!is_overlong_sequence
    <2>7. \A S : T!Min(S) = TP!Min(S)
      BY DEF T!Min, TP!Min
    <2> QED
      BY <2>2, <2>3, <2>4, <2>5, <2>6, <2>7 DEF T!validate_next, TP!validate_next
  <1>3. \A s : T!find_invalid(s) = TP!find_invalid(s)
    BY <1>2 DEF T!find_invalid, TP!find_invalid
  <1>4. \A s : T!utf8to32(s) = TP!utf8to32(s)
    <2> TAKE s
    <2> DEFINE Add(n, rest) == [rest EXCEPT !.cps = <<n.cp>> \o @]
               F1(f) == [it \in 1..(Len(s) + 1) |->
                          IF it > Len(s) THEN [cps |-> <<>>, err |-> "UTF8_OK"]
                          ELSE IF T!validate_next(s, it).err # "UTF8_OK"
                               THEN [cps |-> <<>>, err |-> T!validate_next(s, it).err]
                               ELSE Add(T!validate_next(s, it), f[T!validate_next(s, it).it])]
               F2(f) == [it \in 1..(Len(s) + 1) |->
                          IF it > Len(s) THEN [cps |-> <<>>, err |-> "UTF8_OK"]
                          ELSE IF TP!validate_next(s, it).err # "UTF8_OK"
                               THEN [cps |-> <<>>, err |-> TP!validate_next(s, it).err]
                               ELSE Add(TP!validate_next(s, it), f[TP!validate_next(s, it).it])]
    <2>1. T!utf8to32(s) = (CHOOSE f : f = F1(f))[1]
      BY Zenon DEF T!utf8to32
    <2>2. TP!utf8to32(s) = (CHOOSE f : f = F2(f))[1]
      BY Zenon DEF TP!utf8to32
    <2>3. \A f : F1(f) = F2(f)
      <3> HIDE DEF Add
      <3> QED
        BY <1>2
    <2> HIDE DEF F1, F2
    <2>4. (CHOOSE f : f = F1(f)) = (CHOOSE f : f = F2(f))
      BY <2>3
    <2> QED
      BY <2>1, <2>2, <2>4
  <1> QED
    BY <1>1, <1>2, <1>3, <1>4

\* Its table is the same, and what is looked up there,
LEMMA SameTable ==
  /\ T!EbuLatin = TP!EbuLatin
  /\ \A cp : T!EbuOf(cp) = TP!EbuOf(cp)
  /\ \A str : T!ebu_to_utf8(str) = TP!ebu_to_utf8(str)
  <1>1. T!EbuLatin = TP!EbuLatin
    BY Zenon DEF T!EbuLatin, TP!EbuLatin
  <1>2. T!utf8_encoded_EBU_Latin = TP!utf8_encoded_EBU_Latin
    BY <1>1, SameUtf8 DEF T!utf8_encoded_EBU_Latin, TP!utf8_encoded_EBU_Latin
  <1>3. T!m_conversion_table = TP!m_conversion_table
    BY <1>2, SameUtf8 DEF T!m_conversion_table, TP!m_conversion_table
  <1>4. \A cp : T!EbuOf(cp) = TP!EbuOf(cp)
    BY <1>3 DEF T!EbuOf, TP!EbuOf, T!Min, TP!Min
  <1>5. \A seqs : T!FlattenSeq(seqs) = TP!FlattenSeq(seqs)
    BY Zenon DEF T!FlattenSeq, TP!FlattenSeq
  <1>6. \A str : T!ebu_to_utf8(str) = TP!ebu_to_utf8(str)
    BY <1>2, <1>5, SameUtf8 DEF T!ebu_to_utf8, TP!ebu_to_utf8
  <1> QED
    BY <1>1, <1>4, <1>6

\* and so are its steps and its properties.
LEMMA SameText ==
  /\ T!CharsetAssumption <=> TP!CharsetAssumption
  /\ T!Init <=> TP!Init
  /\ T!Next <=> TP!Next
  /\ T!TypeOK <=> TP!TypeOK
  /\ T!ConvertsWellFormedPrefix <=> TP!ConvertsWellFormedPrefix
  /\ T!ThereAndBack <=> TP!ThereAndBack
  <1>1. T!CharsetAssumption <=> TP!CharsetAssumption
    BY DEF T!CharsetAssumption, TP!CharsetAssumption
  <1>2. T!Init <=> TP!Init
    BY DEF T!Init, TP!Init, T!Lines, TP!Lines
  <1>3. T!Next <=> TP!Next
    <2>1. \A s : T!ToConvert(s) = TP!ToConvert(s)
      BY SameUtf8 DEF T!ToConvert, TP!ToConvert
    <2>2. \A n : T!IsUtf8(n) <=> TP!IsUtf8(n)
      BY DEF T!IsUtf8, TP!IsUtf8
    <2>3. \A s : T!Last(s) = TP!Last(s)
      BY DEF T!Last, TP!Last
    <2>4. T!utf8_to_ebu <=> TP!utf8_to_ebu
      BY <2>1, <2>2, <2>3, SameUtf8, SameTable DEF T!utf8_to_ebu, TP!utf8_to_ebu
    <2>5. T!EbuToUtf8 <=> TP!EbuToUtf8
      BY <2>2, <2>3, SameTable DEF T!EbuToUtf8, TP!EbuToUtf8
    <2> QED
      BY <2>4, <2>5 DEF T!Next, TP!Next
  <1>4. T!TypeOK <=> TP!TypeOK
    BY DEF T!TypeOK, TP!TypeOK
  <1>5. \A s : T!Boundaries(s) = TP!Boundaries(s)
    <2>1. \A q : T!WellFormed(q) <=> TP!WellFormed(q)
      BY Zenon DEF T!WellFormed, TP!WellFormed, T!is_trail, TP!is_trail
    <2> QED
      BY <2>1 DEF T!Boundaries, TP!Boundaries
  <1>6. T!ConvertsWellFormedPrefix <=> TP!ConvertsWellFormedPrefix
    BY <1>5 DEF T!ConvertsWellFormedPrefix, TP!ConvertsWellFormedPrefix, T!Cardinality, TP!Cardinality
  <1>7. T!ThereAndBack <=> TP!ThereAndBack
    <2>1. \A S : T!Max(S) = TP!Max(S) /\ T!Range(S) = TP!Range(S)
      BY DEF T!Max, TP!Max, T!Range, TP!Range
    <2> QED
      BY <1>5, <2>1, SameUtf8, SameTable DEF T!ThereAndBack, TP!ThereAndBack
  <1> QED
    BY <1>1, <1>2, <1>3, <1>4, <1>6, <1>7

-----------------------------------------------------------------------------
(* The inductive invariant of the parts beside each other.                 *)

UtilitiesInv == ClockInv /\ DateInv /\ FrameInv /\ CP!CrcInv /\ TP!CharsetInv

LEMMA InitUtilitiesInv == UtilitiesInit => UtilitiesInv
  <1> SUFFICES ASSUME UtilitiesInit PROVE UtilitiesInv
    OBVIOUS
  <1>1. ClockInv /\ DateInv
    BY InitClockInv, InitDateInv DEF UtilitiesInit
  <1>2. FrameInv
    <2>1. header \in F!Headers /\ length = -1 /\ verdict = "none"
      <3>1. AnyHeader \in F!Headers
        <4>1. [id |-> 0, layer |-> 0, bitrate |-> 0, samplingrate |-> 0, padding |-> 0,
               priv |-> 0, protection |-> 0, emphasis |-> 0, original |-> 0,
               copyright |-> 0] \in F!Headers
          BY DEF F!Headers
        <4> QED
          BY <4>1 DEF AnyHeader
      <3> QED
        BY <3>1 DEF UtilitiesInit, F!Init
    <2> QED
      BY <2>1 DEF FrameInv, F!TypeOK, F!DabFrameLength, F!MasksMatchFields
  <1>3. CP!CrcInv
    BY UtilitiesAssumption, SameCrc, CP!CrcStarts DEF UtilitiesInit
  <1>4. TP!CharsetInv
    <2>1. CASE turn = "text"
      BY <2>1, UtilitiesAssumption, SameText, TP!InitCharsetInv DEF UtilitiesInit
    <2>2. CASE turn # "text"
      <3>1. from = "utf8" /\ up_to_first_error \in BOOLEAN /\ thrown = "UTF8_OK"
        BY <2>2 DEF UtilitiesInit
      <3>2. trip = <<<<>>>>
        BY <2>2 DEF UtilitiesInit
      <3>3. trip \in Seq(Seq(0..255)) /\ Len(trip) = 1
        <4> DEFINE e == <<>>
        <4>1. e \in Seq(0..255) /\ trip = <<e>>
          BY <3>2
        <4> HIDE DEF e
        <4> QED
          BY <4>1
      <3> QED
        BY <3>1, <3>3, TP!CharsetRests
    <2> QED
      BY <2>1, <2>2
  <1> QED
    BY <1>1, <1>2, <1>3, <1>4 DEF UtilitiesInv

\* Each step is one of a single part, and the others keep their variables.
LEMMA NextUtilitiesInv ==
  UtilitiesInv /\ [UtilitiesNext]_<<vars, fvars, dvars, cvars, tvars, turn>> => UtilitiesInv'
  <1> SUFFICES ASSUME UtilitiesInv,
                      [UtilitiesNext]_<<vars, fvars, dvars, cvars, tvars, turn>>
               PROVE  UtilitiesInv'
    OBVIOUS
  <1>0. ClockInv /\ DateInv /\ FrameInv /\ CP!CrcInv /\ TP!CharsetInv
    BY DEF UtilitiesInv
  <1>1. ClockInv'
    <2>1. [update_dab_time]_vars
      BY DEF UtilitiesNext
    <2> QED
      BY <1>0, <2>1, NextClockInv
  <1>2. DateInv'
    <2>1. [Tomorrow]_dvars
      BY DEF UtilitiesNext
    <2> QED
      BY <1>0, <2>1, NextDateInv
  <1>3. FrameInv'
    <2>1. CASE F!Look
      BY <1>0, <2>1, LookFrameInv
    <2>2. CASE UNCHANGED fvars
      BY <1>0, <2>2 DEF fvars, FrameInv, F!TypeOK, F!DabFrameLength, F!MasksMatchFields
    <2> QED
      BY <2>1, <2>2 DEF UtilitiesNext
  <1>4. CP!CrcInv'
    <2>1. CASE C!Next
      BY <1>0, <2>1, UtilitiesAssumption, SameCrc, CP!CrcSteps
    <2>2. CASE UNCHANGED cvars
      BY <1>0, <2>2, CP!CrcStutters DEF cvars, CP!vars
    <2> QED
      BY <2>1, <2>2 DEF UtilitiesNext
  <1>5. TP!CharsetInv'
    <2>1. CASE T!Next
      BY <1>0, <2>1, SameText, TP!NextCharsetInv
    <2>2. CASE UNCHANGED tvars
      BY <1>0, <2>2, TP!CharsetStutters DEF tvars, TP!vars
    <2> QED
      BY <2>1, <2>2 DEF UtilitiesNext
  <1> QED
    BY <1>1, <1>2, <1>3, <1>4, <1>5 DEF UtilitiesInv

LEMMA UtilitiesInvariance == UtilitiesSpec => []UtilitiesInv
  BY InitUtilitiesInv, NextUtilitiesInv, PTL DEF UtilitiesSpec

\* A layer II frame that DAB takes is 24 or 48 ms long to the byte, for every
\* header there is.
THEOREM DabFrames == UtilitiesSpec => []DabFrameLength
  <1>1. UtilitiesInv => DabFrameLength
    BY DEF UtilitiesInv, FrameInv, DabFrameLength
  <1> QED
    BY <1>1, UtilitiesInvariance, PTL

\* The masks of checkDabMpegFrame accept what its look at the fields would,
\* for every header there is.
THEOREM MasksAgree == UtilitiesSpec => []MasksMatchFields
  <1>1. UtilitiesInv => MasksMatchFields
    BY DEF UtilitiesInv, FrameInv, MasksMatchFields
  <1> QED
    BY <1>1, UtilitiesInvariance, PTL

\* The DAB time is the time of the first call and 24 ms for each call since,
\* for any number of calls.
THEOREM TimeCountsFrames == UtilitiesSpec => []TimeIsFrames
  <1>1. UtilitiesInv => TimeIsFrames
    BY DEF UtilitiesInv, ClockInv
  <1> QED
    BY <1>1, UtilitiesInvariance, PTL

\* The modified Julian date of gregorian2mjd is the number of days since
\* 1858-11-17, for as many years as the calendar goes on.
THEOREM CalendarFollowed == UtilitiesSpec => []MjdCountsDays
  <1>1. UtilitiesInv => MjdCountsDays
    BY DEF UtilitiesInv, DateInv
  <1> QED
    BY <1>1, UtilitiesInvariance, PTL

\* What crc8, crc16 and crc32 return is the remainder by the polynomial of
\* their table, the one in the file or one built from any polynomial of that
\* width, for any number of any bytes.
THEOREM CrcDivides == UtilitiesSpec => []CrcIsRemainder
  <1>1. UtilitiesInv => CrcIsRemainder
    BY SameCrc DEF UtilitiesInv, CP!CrcInv, CrcIsRemainder
  <1> QED
    BY <1>1, UtilitiesInvariance, PTL

\* UTF-8 is converted to EBU Latin up to the first sequence that is not
\* well-formed, one byte for each character before it, and utf8_to_ebu throws
\* exactly when it was to convert all of a text that has one: for texts of any
\* length and any octets.
THEOREM PrefixConverted == UtilitiesSpec => []ConvertsWellFormedPrefix
  <1>1. UtilitiesInv => ConvertsWellFormedPrefix
    BY SameText, TP!InvConverts DEF UtilitiesInv, ConvertsWellFormedPrefix
  <1> QED
    BY <1>1, UtilitiesInvariance, PTL

\* A text whose characters are all in the table comes back from EBU Latin as
\* it was, and EBU Latin from UTF-8 but for NUL, however long the text is.
THEOREM TripsReturn == UtilitiesSpec => []ThereAndBack
  <1>1. UtilitiesInv => ThereAndBack
    BY SameText, TP!InvThereAndBack DEF UtilitiesInv, ThereAndBack
  <1> QED
    BY <1>1, UtilitiesInvariance, PTL

\* The parts keep their types: the milliseconds of the DAB time stay below a
\* second, the frame lengths in the range that the reader takes them to be in,
\* the registers in their width, and what is thrown is an error of utf8-cpp.
THEOREM TypesKept == UtilitiesSpec => []TypesOK
  <1>1. UtilitiesInv => TypesOK
    BY SameCrc, SameText
    DEF UtilitiesInv, ClockInv, FrameInv, CP!CrcInv, TP!CharsetInv, TypesOK
  <1> QED
    BY <1>1, UtilitiesInvariance, PTL
=============================================================================
