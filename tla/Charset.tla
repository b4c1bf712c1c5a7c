------------------------------- MODULE Charset -------------------------------
(***************************************************************************)
(* lib/charset/charset.cpp: the converter between UTF-8 and the EBU Latin  *)
(* character set of the labels.  One behaviour converts one string there   *)
(* and back again, starting on either side.                                *)
(***************************************************************************)
EXTENDS Utf8, SequencesExt

CONSTANTS
  Octets,    \* what the strings are made of
  MaxOctets  \* bound: their length, but for those that begin with a lead of four

VARIABLES
  from,               \* the side that the behaviour starts on
  up_to_first_error,  \* the parameter of utf8_to_ebu
  trip,               \* the string at the start and after each conversion
  thrown              \* what utf8_to_ebu has thrown, or "UTF8_OK"

vars == <<from, up_to_first_error, trip, thrown>>

\* Octets have eight bits.
CharsetAssumption == Octets \subseteq 0..255 /\ MaxOctets \in Nat

\* The code points of the characters in the table of the file.
EbuLatin ==
  <<280, 302, 370, 258, 278, 270, 536, 538, 266, 10, 11, 288, 313, 379, 323,
  261, 281, 303, 371, 259, 279, 271, 537, 539, 267, 327, 282, 289, 314, 380,
  130, 32, 33, 34, 35, 322, 37, 38, 39, 40, 41, 42, 43, 44, 45, 46, 47, 48,
  49, 50, 51, 52, 53, 54, 55, 56, 57, 58, 59, 60, 61, 62, 63, 64, 65, 66,
  67, 68, 69, 70, 71, 72, 73, 74, 75, 76, 77, 78, 79, 80, 81, 82, 83, 84,
  85, 86, 87, 88, 89, 90, 91, 366, 93, 321, 95, 260, 97, 98, 99, 100, 101,
  102, 103, 104, 105, 106, 107, 108, 109, 110, 111, 112, 113, 114, 115, 116,
  117, 118, 119, 120, 121, 122, 171, 367, 187, 317, 294, 225, 224, 233, 232,
  237, 236, 243, 242, 250, 249, 209, 199, 350, 223, 161, 376, 226, 228, 234,
  235, 238, 239, 244, 246, 251, 252, 241, 231, 351, 287, 305, 255, 310, 325,
  169, 290, 286, 283, 328, 337, 336, 8364, 163, 36, 256, 274, 298, 362, 311,
  326, 315, 291, 316, 304, 324, 369, 368, 191, 318, 176, 257, 275, 299, 363,
  193, 192, 201, 200, 205, 204, 211, 210, 218, 217, 344, 268, 352, 381, 208,
  319, 194, 196, 202, 203, 206, 207, 212, 214, 219, 220, 345, 269, 353, 382,
  273, 320, 195, 197, 198, 338, 375, 221, 213, 216, 222, 330, 340, 262, 346,
  377, 356, 240, 227, 229, 230, 339, 373, 253, 245, 248, 254, 331, 341, 263,
  347, 378, 357, 295>>

\* The entries are in UTF-8, as the file is.
utf8_encoded_EBU_Latin == [k \in 1..255 |-> append(EbuLatin[k])]

\* Built by the constructor.  The first entry of the vector has the index 1
\* here, which is what adding CHARSET_TABLE_OFFSET comes to.
m_conversion_table == [k \in 1..255 |-> validate_next(utf8_encoded_EBU_Latin[k], 1).cp]

\* Mutant of EbuOf: the offset of the table is forgotten.
EbuOfUnshifted(cp) ==
  LET found == {k \in 1..255 : m_conversion_table[k] = cp}
  IN IF found # {} THEN Min(found) - 1 ELSE 32

\* A character that the table lacks becomes a space.
EbuOf(cp) ==
  LET found == {k \in 1..255 : m_conversion_table[k] = cp}
  IN IF found # {} THEN Min(found) ELSE 32

\* Mutant of ToConvert: without the look for an error.
ToConvertAll(line) == line

ToConvert(line) ==
  IF up_to_first_error THEN SubSeq(line, 1, find_invalid(line) - 1) ELSE line

\* NUL, which the table lacks, becomes U+2047.
ebu_to_utf8(str) ==
  FlattenSeq([k \in DOMAIN str |->
    IF str[k] >= 1 THEN utf8_encoded_EBU_Latin[str[k]] ELSE append(8263)])

-----------------------------------------------------------------------------
\* Bounds: the strings to start with.  Four octets are for a sequence of four.
Lines ==
  (UNION {[1..n -> Octets] : n \in 0..MaxOctets})
    \cup {s \in [1..4 -> Octets] : s[1] \div 8 = 30}

TypeOK ==
  /\ from \in {"utf8", "ebu"}
  /\ up_to_first_error \in BOOLEAN
  /\ trip \in Seq(Seq(0..255)) /\ Len(trip) \in 1..3
  /\ thrown \in {"UTF8_OK", "NOT_ENOUGH_ROOM", "INVALID_LEAD", "INCOMPLETE_SEQUENCE",
                 "OVERLONG_SEQUENCE", "INVALID_CODE_POINT"}

Init ==
  /\ up_to_first_error \in BOOLEAN
  /\ \/ from = "utf8" /\ \E s \in Lines : trip = <<s>>
     \/ from = "ebu" /\ \E b \in 0..255, c \in Octets \cup {0} : trip = <<<<b, c>>>>
  /\ thrown = "UTF8_OK"

\* The strings on the UTF-8 side come first, third, or second.
IsUtf8(n) == (from = "utf8") = (n % 2 = 1)

utf8_to_ebu ==
  /\ Len(trip) < 3 /\ IsUtf8(Len(trip)) /\ thrown = "UTF8_OK"
  /\ LET utf32line == utf8to32(ToConvert(Last(trip)))
     IN IF utf32line.err = "UTF8_OK"
        THEN /\ trip' = Append(trip, [k \in DOMAIN utf32line.cps |-> EbuOf(utf32line.cps[k])])
             /\ UNCHANGED thrown
        ELSE thrown' = utf32line.err /\ UNCHANGED trip
  /\ UNCHANGED <<from, up_to_first_error>>

EbuToUtf8 ==
  /\ Len(trip) < 3 /\ ~IsUtf8(Len(trip))
  /\ trip' = Append(trip, ebu_to_utf8(Last(trip)))
  /\ UNCHANGED <<from, up_to_first_error, thrown>>

Next == utf8_to_ebu \/ EbuToUtf8

Spec == Init /\ [][Next]_vars

-----------------------------------------------------------------------------
(* Properties.                                                             *)

\* The sequences that the Unicode standard calls well-formed, octet by octet.
WellFormed(q) ==
  CASE Len(q) = 1 -> q[1] < 128
    [] Len(q) = 2 -> q[1] \in 194..223 /\ is_trail(q[2])
    [] Len(q) = 3 -> /\ q[1] \in 224..239
                     /\ q[2] \in (IF q[1] = 224 THEN 160..191
                                  ELSE IF q[1] = 237 THEN 128..159 ELSE 128..191)
                     /\ is_trail(q[3])
    [] Len(q) = 4 -> /\ q[1] \in 240..244
                     /\ q[2] \in (IF q[1] = 240 THEN 144..191
                                  ELSE IF q[1] = 244 THEN 128..143 ELSE 128..191)
                     /\ is_trail(q[3]) /\ is_trail(q[4])

\* Where the characters of the longest well-formed prefix begin, and its end.
Boundaries(s) ==
  LET bounds[n \in 1..(Len(s) + 1)] ==
        IF n = 1 THEN {1}
        ELSE LET b == bounds[n - 1]
             IN IF \E k \in b : n - k <= 4 /\ WellFormed(SubSeq(s, k, n - 1))
                THEN b \cup {n} ELSE b
  IN bounds[Len(s) + 1]

\* "If up_to_first_error is set, convert as much text as possible. If false,
\* raise an utf8::exception": one byte for each character of the longest
\* well-formed prefix, and an exception exactly when that is not all of the
\* text and the caller wants to know.
ConvertsWellFormedPrefix ==
  from = "utf8" =>
    LET b == Boundaries(trip[1])
    IN /\ Len(trip) > 1 => Len(trip[2]) = Cardinality(b) - 1
       /\ Len(trip) > 1 /\ ~up_to_first_error => Len(trip[1]) + 1 \in b
       /\ thrown # "UTF8_OK" => ~up_to_first_error /\ Len(trip[1]) + 1 \notin b

\* A text whose characters are all in the table comes back from EBU Latin as
\* it was, and a string of EBU Latin from UTF-8, but for NUL, which comes back
\* as a space: no two bytes share a character and no position is off.
ThereAndBack ==
  Len(trip) = 3 =>
    IF from = "ebu"
    THEN trip[3] = [k \in DOMAIN trip[1] |-> IF trip[1][k] = 0 THEN 32 ELSE trip[1][k]]
    ELSE LET text == SubSeq(trip[1], 1, Max(Boundaries(trip[1])) - 1)
         IN Range(utf8to32(text).cps) \subseteq Range(EbuLatin) => trip[3] = text
=============================================================================
