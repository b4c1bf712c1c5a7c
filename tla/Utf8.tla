--------------------------------- MODULE Utf8 ---------------------------------
(***************************************************************************)
(* lib/charset/utf8, the copy of utf8-cpp that the character set converter *)
(* is built on: decoding with its checks, and encoding.  A text is a       *)
(* sequence of octets, an iterator the index of the octet it points to,    *)
(* and the end is one past the last.                                       *)
(***************************************************************************)
EXTENDS Integers, Sequences, FiniteSetsExt

CODE_POINT_MAX == 1114111

is_trail(octet) == octet \div 64 = 2

is_surrogate(cp) == cp >= 55296 /\ cp <= 57343

is_code_point_valid(cp) == cp <= CODE_POINT_MAX /\ ~is_surrogate(cp)

sequence_length(lead) ==
  IF lead < 128 THEN 1
  ELSE IF lead \div 32 = 6 THEN 2
  ELSE IF lead \div 16 = 14 THEN 3
  ELSE IF lead \div 8 = 30 THEN 4
  ELSE 0

\* Mutant of is_overlong_sequence: the bound of the longest is left out.
OverlongButFour(cp, length) ==
  \/ cp < 128 /\ length # 1
  \/ cp >= 128 /\ cp < 2048 /\ length # 2

is_overlong_sequence(cp, length) ==
  \/ cp < 128 /\ length # 1
  \/ cp >= 128 /\ cp < 2048 /\ length # 2
  \/ cp >= 2048 /\ cp < 65536 /\ length # 3

\* The code point of get_sequence_1 to get_sequence_4: what the masks keep of
\* the lead, and six bits of each trail octet.
Low6(octet) == octet % 64
DecodeSequence(s, it, length) ==
  IF length = 1 THEN s[it]
  ELSE IF length = 2 THEN (s[it] % 32) * 64 + Low6(s[it + 1])
  ELSE IF length = 3
    THEN (s[it] % 16) * 4096 + Low6(s[it + 1]) * 64 + Low6(s[it + 2])
  ELSE (s[it] % 8) * 262144 + Low6(s[it + 1]) * 4096
       + Low6(s[it + 2]) * 64 + Low6(s[it + 3])

\* Where increase_safely stops the get_sequence of that length: at the end, or
\* at an octet that is not a trail.
Stops(s, it, length) ==
  {k \in (it + 1)..(it + length - 1) : k > Len(s) \/ ~is_trail(s[k])}

\* The error, and where the iterator is then: behind the sequence, or where
\* it was.  The code point is 0 after an error.
validate_next(s, it) ==
  LET length == sequence_length(s[it])
      stops == Stops(s, it, length)
      cp == DecodeSequence(s, it, length)
      Fails(err) == [err |-> err, it |-> it, cp |-> 0]
  IN IF length = 0 THEN Fails("INVALID_LEAD")
     ELSE IF stops # {} THEN
       Fails(IF Min(stops) > Len(s) THEN "NOT_ENOUGH_ROOM" ELSE "INCOMPLETE_SEQUENCE")
     ELSE IF ~is_code_point_valid(cp) THEN Fails("INVALID_CODE_POINT")
     ELSE IF is_overlong_sequence(cp, length) THEN Fails("OVERLONG_SEQUENCE")
     ELSE [err |-> "UTF8_OK", it |-> it + length, cp |-> cp]

\* The first index from which on the text is invalid, or the end.
find_invalid(s) ==
  LET from[it \in 1..(Len(s) + 1)] ==
        IF it > Len(s) THEN it
        ELSE LET n == validate_next(s, it)
             IN IF n.err = "UTF8_OK" THEN from[n.it] ELSE n.it
  IN from[1]

is_valid(s) == find_invalid(s) = Len(s) + 1

\* The code points up to the end, or up to the error that next throws.
utf8to32(s) ==
  LET from[it \in 1..(Len(s) + 1)] ==
        IF it > Len(s) THEN [cps |-> <<>>, err |-> "UTF8_OK"]
        ELSE LET n == validate_next(s, it)
             IN IF n.err # "UTF8_OK" THEN [cps |-> <<>>, err |-> n.err]
                ELSE LET rest == from[n.it]
                     IN [rest EXCEPT !.cps = <<n.cp>> \o @]
  IN from[1]

\* The octets of a valid code point.
Trail(bits) == 128 + Low6(bits)
append(cp) ==
  IF cp < 128 THEN <<cp>>
  ELSE IF cp < 2048 THEN <<192 + cp \div 64, Trail(cp)>>
  ELSE IF cp < 65536 THEN <<224 + cp \div 4096, Trail(cp \div 64), Trail(cp)>>
  ELSE <<240 + cp \div 262144, Trail(cp \div 4096), Trail(cp \div 64), Trail(cp)>>
=============================================================================
