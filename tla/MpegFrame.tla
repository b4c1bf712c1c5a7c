------------------------------- MODULE MpegFrame -------------------------------
(***************************************************************************)
(* src/mpeg.c, the functions of one MPEG audio header: bit rate, sampling  *)
(* rate, frame length, and whether DAB takes such frames.  One behaviour   *)
(* of this module looks at one header, by its fields and by its bytes.     *)
(***************************************************************************)
EXTENDS Integers, Sequences

\* The bit fields; sync, mode and channel decide nothing here.
Headers ==
  [id : 0..3, layer : 0..3, bitrate : 0..15, samplingrate : 0..3,
   padding : 0..1, priv : 0..1, protection : 0..1,
   emphasis : 0..3, original : 0..1, copyright : 0..1]

MPEG25 == 0
MPEG2 == 2
MPEG1 == 3
LayerIII == 1
LayerII == 2
LayerI == 3

VARIABLES header, length, verdict

vars == <<header, length, verdict>>

-----------------------------------------------------------------------------
\* The rows of bitrateArray in kbit/s, for the bitrate fields 0 to 14.
LowRates == <<0, 8, 16, 24, 32, 40, 48, 56, 64, 80, 96, 112, 128, 144, 160>>
LowRatesI == <<0, 32, 48, 56, 64, 80, 96, 112, 128, 144, 160, 176, 192, 224, 256>>
RatesIII == <<0, 32, 40, 48, 56, 64, 80, 96, 112, 128, 160, 192, 224, 256, 320>>
RatesII == <<0, 32, 48, 56, 64, 80, 96, 112, 128, 160, 192, 224, 256, 320, 384>>
RatesI == <<0, 32, 64, 96, 128, 160, 192, 224, 256, 288, 320, 352, 384, 416, 448>>

Rates(id, layer) ==
  CASE id = MPEG1 /\ layer = LayerIII -> RatesIII
    [] id = MPEG1 /\ layer = LayerII -> RatesII
    [] id = MPEG1 /\ layer = LayerI -> RatesI
    [] id # MPEG1 /\ layer = LayerI -> LowRatesI
    [] OTHER -> LowRates

getMpegBitrate(h) ==
  IF h.id = 1 \/ h.layer = 0 \/ h.bitrate = 15 THEN -1
  ELSE Rates(h.id, h.layer)[h.bitrate + 1]

\* samplingrateArray, in Hz.
getMpegFrequency(h) ==
  CASE h.id = MPEG25 -> <<11025, 12000, 8000, 0>>[h.samplingrate + 1]
    [] h.id = MPEG2 -> <<22050, 24000, 16000, 0>>[h.samplingrate + 1]
    [] h.id = MPEG1 -> <<44100, 48000, 32000, 0>>[h.samplingrate + 1]
    [] OTHER -> -1

\* Mutant of getMpegFrameLength: the lower sampling rates have half as many
\* samples in every layer but I, as is so in layer III.
FrameLengthHalved(h) ==
  LET bitrate == getMpegBitrate(h)
      samplingrate == getMpegFrequency(h)
  IN IF bitrate <= 0 \/ samplingrate <= 0 THEN -1
     ELSE IF h.layer = LayerI THEN ((12 * bitrate) \div samplingrate + h.padding) * 4
     ELSE IF h.id = MPEG1 THEN (144000 * bitrate) \div samplingrate + h.padding
     ELSE (72000 * bitrate) \div samplingrate + h.padding

getMpegFrameLength(h) ==
  LET bitrate == getMpegBitrate(h)
      samplingrate == getMpegFrequency(h)
  IN IF bitrate <= 0 \/ samplingrate <= 0 THEN -1
     ELSE IF h.layer = LayerI THEN ((12 * bitrate) \div samplingrate + h.padding) * 4
     ELSE (144000 * bitrate) \div samplingrate + h.padding

\* The bytes of a header with its sync bits set, the lowest bit field first.
Byte1(h) == h.protection + 2 * h.layer + 8 * h.id + 32 * 7
Byte2(h) == h.priv + 2 * h.padding + 4 * h.samplingrate + 16 * h.bitrate
Byte3(h) == h.emphasis + 4 * h.original + 8 * h.copyright

\* Mutant of Masked: the mask of the third byte lets the padding bit through.
MaskedLess(h) == <<(Byte1(h) \div 4) * 4, (Byte2(h) % 16) - 2 * h.padding, Byte3(h) % 16>>

\* *headerData & 0x0f0ffcff, but for the first byte.
Masked(h) == <<(Byte1(h) \div 4) * 4, Byte2(h) % 16, Byte3(h) % 16>>

\* The first fault in the order of the code; IF, for CASE knows no order.
checkDabMpegFrame(h) ==
  IF Masked(h) \in {<<252, 4, 0>>, <<244, 4, 0>>} THEN "ok"
  ELSE IF getMpegFrequency(h) \notin {48000, 24000} THEN "MPEG_FREQUENCY"
  ELSE IF h.padding # 0 THEN "MPEG_PADDING"
  ELSE IF h.emphasis # 0 THEN "MPEG_EMPHASIS"
  ELSE IF h.copyright # 0 THEN "MPEG_COPYRIGHT"
  ELSE IF h.original # 0 THEN "MPEG_ORIGINAL"
  ELSE "-1"

-----------------------------------------------------------------------------
\* The lengths are those that module MpegReader assumes of a header.
TypeOK ==
  /\ header \in Headers
  /\ length \in {-1, 0, 4} \cup 48..2881
  /\ verdict \in {"none", "ok", "-1", "MPEG_FREQUENCY", "MPEG_PADDING",
                  "MPEG_EMPHASIS", "MPEG_COPYRIGHT", "MPEG_ORIGINAL"}

Init == header \in Headers /\ length = -1 /\ verdict = "none"

Look ==
  /\ verdict = "none"
  /\ length' = getMpegFrameLength(header)
  /\ verdict' = checkDabMpegFrame(header)
  /\ UNCHANGED header

Spec == Init /\ [][Look]_vars

-----------------------------------------------------------------------------
(* Properties.                                                             *)

\* A layer II frame that DAB takes lasts 24 ms at 48 kHz and 48 ms at 24 kHz:
\* its length is what its bit rate makes in that time, to the byte.
DabFrameLength ==
  verdict = "ok" /\ header.layer = LayerII /\ getMpegBitrate(header) > 0 =>
    length * 8 = getMpegBitrate(header) * (IF header.id = MPEG1 THEN 24 ELSE 48)

\* The masks and the fields agree: a header is accepted by its bytes exactly
\* when none of the faults that are looked for in its fields is there, but for
\* the private bit and for the layers that the masks refuse.
MasksMatchFields ==
  verdict # "none" =>
    (verdict = "ok" <=>
      /\ getMpegFrequency(header) \in {48000, 24000}
      /\ header.padding = 0 /\ header.emphasis = 0
      /\ header.copyright = 0 /\ header.original = 0
      /\ header.priv = 0
      /\ header.layer \in {LayerII, LayerI})
=============================================================================
