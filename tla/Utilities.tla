------------------------------ MODULE Utilities ------------------------------
(***************************************************************************)
(* The parts that keep no state, or none but their own: MPEG headers       *)
(* (module MpegFrame), the calendar (Mjd), the DAB time (DabTime), the CRCs*)
(* (Crc) and the character set (Charset).  They do not interact, so each   *)
(* behaviour is one of a single one of them, turn, while the others stay   *)
(* at their start.                                                         *)
(***************************************************************************)
EXTENDS DabTime, Mjd

CONSTANTS Codes, Data, MaxData, Octets, MaxOctets

VARIABLES
  header, length, verdict,
  width, rebuilt, code, l_crc, start, data,
  from, up_to_first_error, trip, thrown,
  turn

F == INSTANCE MpegFrame
C == INSTANCE Crc
T == INSTANCE Charset

fvars == <<header, length, verdict>>
cvars == <<width, rebuilt, code, l_crc, start, data>>
tvars == <<from, up_to_first_error, trip, thrown>>

\* The polynomials have the width of their table, and bytes eight bits.
ASSUME UtilitiesAssumption == C!CrcAssumption /\ T!CharsetAssumption

\* Where the parts with many initial states stay when it is not their turn.
AnyHeader == CHOOSE h \in F!Headers : TRUE

UtilitiesInit ==
  /\ turn \in {"frame", "date", "time", "crc", "text"}
  /\ IF turn = "frame" THEN F!Init
     ELSE header = AnyHeader /\ length = -1 /\ verdict = "none"
  /\ DateInit
  /\ Init
  /\ C!Init /\ (turn # "crc" => width = 8 /\ start = {})
  /\ IF turn = "text" THEN T!Init
     ELSE /\ from = "utf8" /\ up_to_first_error = FALSE
          /\ trip = <<<<>>>> /\ thrown = "UTF8_OK"

UtilitiesNext ==
  \/ turn = "frame" /\ F!Look /\ UNCHANGED <<vars, dvars, cvars, tvars, turn>>
  \/ turn = "date" /\ Tomorrow /\ UNCHANGED <<vars, fvars, cvars, tvars, turn>>
  \/ turn = "time" /\ update_dab_time /\ UNCHANGED <<fvars, dvars, cvars, tvars, turn>>
  \/ turn = "crc" /\ C!Next /\ UNCHANGED <<vars, fvars, dvars, tvars, turn>>
  \/ turn = "text" /\ T!Next /\ UNCHANGED <<vars, fvars, dvars, cvars, turn>>

UtilitiesSpec == UtilitiesInit /\ [][UtilitiesNext]_<<vars, fvars, dvars, cvars, tvars, turn>>

\* The types of them all, the range of the frame lengths and of the
\* milliseconds among them.
TypesOK == TypeOK /\ F!TypeOK /\ C!TypeOK /\ T!TypeOK

\* A layer II frame that DAB takes is 24 or 48 ms long, to the byte.
DabFrameLength == F!DabFrameLength

\* checkDabMpegFrame's masks accept what its look at the fields would.
MasksMatchFields == F!MasksMatchFields

\* The register of a CRC is the remainder of what it has been fed.
CrcIsRemainder == turn = "crc" => C!CrcIsRemainder

\* UTF-8 is converted up to the first sequence that is not well-formed.
ConvertsWellFormedPrefix == turn = "text" => T!ConvertsWellFormedPrefix

\* A text in the table's characters survives the conversions.
ThereAndBack == turn = "text" => T!ThereAndBack
=============================================================================
