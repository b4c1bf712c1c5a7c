---------------------------- MODULE CharsetProofs ----------------------------
(***************************************************************************)
(* Proofs about modules Utf8 and Charset.  The decoder accepts the         *)
(* encoding of every valid code point and nothing else, for texts of any   *)
(* length; its loops go along the boundaries of the longest well-formed    *)
(* prefix; the codes of the table are valid and distinct.  From these:     *)
(* what the invariant CharsetInv says of a trip through both conversions.  *)
(***************************************************************************)
EXTENDS Charset, InductionProofs, SequenceTheorems

\* What validate_next says where nothing is wrong.
LEMMA ValidNext ==
  ASSUME NEW s, NEW it, NEW length \in 1..4,
         sequence_length(s[it]) = length,
         Stops(s, it, length) = {},
         is_code_point_valid(DecodeSequence(s, it, length)),
         ~is_overlong_sequence(DecodeSequence(s, it, length), length)
  PROVE validate_next(s, it) =
          [err |-> "UTF8_OK", it |-> it + length, cp |-> DecodeSequence(s, it, length)]
  BY SMT DEF validate_next

\* Six bits at a time, and what is above them.
LEMMA Parts ==
  ASSUME NEW cp \in Nat
  PROVE /\ cp = (cp \div 64) * 64 + (cp % 64)
        /\ cp \div 64 \in Nat /\ cp % 64 \in 0..63
        /\ cp \div 4096 \in Nat /\ cp \div 262144 \in Nat
        /\ cp \div 64 = (cp \div 4096) * 64 + ((cp \div 64) % 64)
        /\ cp \div 4096 = (cp \div 262144) * 64 + ((cp \div 4096) % 64)
  BY SMT

\* A trail octet is one, and keeps its six bits.
LEMMA TrailOctet ==
  ASSUME NEW bits \in Nat
  PROVE /\ Trail(bits) \in 128..191
        /\ is_trail(Trail(bits))
        /\ Low6(Trail(bits)) = bits % 64
  BY SMT DEF Trail, Low6, is_trail

\* The lead that append makes for each length, and what the decoder keeps.
LEMMA LeadOctets ==
  ASSUME NEW bits \in Nat
  PROVE /\ bits < 32 => sequence_length(192 + bits) = 2 /\ (192 + bits) % 32 = bits
        /\ bits < 16 => sequence_length(224 + bits) = 3 /\ (224 + bits) % 16 = bits
        /\ bits < 8 => sequence_length(240 + bits) = 4 /\ (240 + bits) % 8 = bits
  BY SMT DEF sequence_length

\* append's octets decode to the code point that they were made from: no
\* valid code point is refused, taken for another one, or found too long.
THEOREM AppendDecodes ==
  ASSUME NEW cp \in Nat, is_code_point_valid(cp)
  PROVE validate_next(append(cp), 1) =
          [err |-> "UTF8_OK", it |-> Len(append(cp)) + 1, cp |-> cp]
  <1> DEFINE s == append(cp)
  <1>1. CASE cp < 128
    <2>1. s = <<cp>>
      BY SMT, <1>1 DEF append
    <2>2. sequence_length(s[1]) = 1 /\ DecodeSequence(s, 1, 1) = cp
      BY SMT, <2>1, <1>1 DEF sequence_length, DecodeSequence
    <2>3. Stops(s, 1, 1) = {}
      BY SMT DEF Stops
    <2>4. ~is_overlong_sequence(cp, 1)
      BY SMT, <1>1 DEF is_overlong_sequence
    <2> HIDE DEF s
    <2>5. validate_next(s, 1) = [err |-> "UTF8_OK", it |-> 2, cp |-> cp]
      BY SMT, <2>2, <2>3, <2>4, ValidNext
    <2> QED
      BY SMT, <2>1, <2>5 DEF s
  <1>2. CASE cp >= 128 /\ cp < 2048
    <2>1. s = <<192 + (cp \div 64), Trail(cp)>>
      BY SMT, <1>2 DEF append
    <2>2. cp \div 64 < 32
      BY SMT, <1>2
    <2>3. sequence_length(s[1]) = 2 /\ s[1] % 32 = cp \div 64
      BY SMT, <2>1, <2>2, LeadOctets, Parts
    <2>4. DecodeSequence(s, 1, 2) = cp
      BY SMT, <2>1, <2>3, TrailOctet, Parts DEF DecodeSequence
    <2>5. Stops(s, 1, 2) = {}
      BY SMT, <2>1, TrailOctet DEF Stops
    <2>6. ~is_overlong_sequence(cp, 2)
      BY SMT, <1>2 DEF is_overlong_sequence
    <2> HIDE DEF s
    <2>7. validate_next(s, 1) = [err |-> "UTF8_OK", it |-> 3, cp |-> cp]
      BY SMT, <2>3, <2>4, <2>5, <2>6, ValidNext
    <2> QED
      BY SMT, <2>1, <2>7 DEF s
  <1>3. CASE cp >= 2048 /\ cp < 65536
    <2>1. s = <<224 + (cp \div 4096), Trail(cp \div 64), Trail(cp)>>
      BY SMT, <1>3 DEF append
    <2>2. cp \div 4096 < 16
      BY SMT, <1>3
    <2>3. sequence_length(s[1]) = 3 /\ s[1] % 16 = cp \div 4096
      BY SMT, <2>1, <2>2, LeadOctets, Parts
    <2>4. DecodeSequence(s, 1, 3) = cp
      BY SMT, <2>1, <2>3, TrailOctet, Parts DEF DecodeSequence
    <2>5. Stops(s, 1, 3) = {}
      BY SMT, <2>1, TrailOctet, Parts DEF Stops
    <2>6. ~is_overlong_sequence(cp, 3)
      BY SMT, <1>3 DEF is_overlong_sequence
    <2> HIDE DEF s
    <2>7. validate_next(s, 1) = [err |-> "UTF8_OK", it |-> 4, cp |-> cp]
      BY SMT, <2>3, <2>4, <2>5, <2>6, ValidNext
    <2> QED
      BY SMT, <2>1, <2>7 DEF s
  <1>4. CASE cp >= 65536
    <2>1. s = <<240 + (cp \div 262144), Trail(cp \div 4096), Trail(cp \div 64), Trail(cp)>>
      BY SMT, <1>4 DEF append
    <2>2. cp \div 262144 < 8
      BY SMT DEF is_code_point_valid, CODE_POINT_MAX
    <2>3. sequence_length(s[1]) = 4 /\ s[1] % 8 = cp \div 262144
      BY SMT, <2>1, <2>2, LeadOctets, Parts
    <2>4. DecodeSequence(s, 1, 4) = cp
      <3>1. /\ Low6(s[2]) = (cp \div 4096) % 64
            /\ Low6(s[3]) = (cp \div 64) % 64
            /\ Low6(s[4]) = cp % 64
        BY SMT, <2>1, TrailOctet, Parts
      <3>2. DecodeSequence(s, 1, 4) =
              (cp \div 262144) * 262144 + ((cp \div 4096) % 64) * 4096
              + ((cp \div 64) % 64) * 64 + (cp % 64)
        BY SMT, <2>3, <3>1 DEF DecodeSequence
      <3> QED
        BY SMT, <3>2
    <2>5. Stops(s, 1, 4) = {}
      BY SMT, <2>1, TrailOctet, Parts DEF Stops
    <2>6. ~is_overlong_sequence(cp, 4)
      BY SMT, <1>4 DEF is_overlong_sequence
    <2> HIDE DEF s
    <2>7. validate_next(s, 1) = [err |-> "UTF8_OK", it |-> 5, cp |-> cp]
      BY SMT, <2>3, <2>4, <2>5, <2>6, ValidNext
    <2> QED
      BY SMT, <2>1, <2>7 DEF s
  <1> QED
    BY SMT, <1>1, <1>2, <1>3, <1>4

\* What validate_next has seen where it says that all is well.
LEMMA ValidNextMeans ==
  ASSUME NEW s, NEW it, validate_next(s, it).err = "UTF8_OK"
  PROVE LET length == sequence_length(s[it])
            cp == DecodeSequence(s, it, length)
        IN /\ length # 0
           /\ Stops(s, it, length) = {}
           /\ is_code_point_valid(cp) /\ ~is_overlong_sequence(cp, length)
           /\ validate_next(s, it).it = it + length
           /\ validate_next(s, it).cp = cp
  BY SMT DEF validate_next

\* What a text is made of.
Octet == {o \in Nat : o < 256}

\* The octets that the decoder has passed, by their lead and their six bits.
LEMMA TrailPassed ==
  ASSUME NEW s \in Seq(Octet), NEW it \in 1..Len(s), NEW length \in 1..4,
         Stops(s, it, length) = {},
         NEW k \in 1..3, k < length
  PROVE it + k \in 1..Len(s) /\ s[it + k] = 128 + Low6(s[it + k])
        /\ Low6(s[it + k]) \in 0..63
  <1>1. it + k <= Len(s) /\ is_trail(s[it + k])
    <2>1. it + k \in (it + 1)..(it + length - 1)
      BY SMT
    <2>2. ~(it + k > Len(s) \/ ~is_trail(s[it + k]))
      BY SMT, <2>1 DEF Stops
    <2>3. it + k \in Int /\ Len(s) \in Int
      BY SMT
    <2> QED
      BY SMT, <2>2, <2>3
  <1>2. s[it + k] \in Nat /\ s[it + k] < 256
    BY SMT, <1>1 DEF Octet
  <1>3. it + k \in 1..Len(s)
    BY SMT, <1>1
  <1> DEFINE o == s[it + k]
  <1>4. o \in Nat /\ o \div 64 = 2
    BY SMT, <1>1, <1>2 DEF is_trail
  <1> HIDE DEF o
  <1>5. o = 128 + Low6(o) /\ Low6(o) \in 0..63
    BY SMT, <1>4 DEF Low6
  <1> QED
    BY SMT, <1>3, <1>5 DEF o

\* The lead that the decoder has passed, by its length.
LEMMA LeadPassed ==
  ASSUME NEW lead \in Octet
  PROVE /\ sequence_length(lead) \in 0..4
        /\ sequence_length(lead) = 1 => lead < 128
        /\ sequence_length(lead) = 2 => lead = 192 + (lead % 32) /\ lead % 32 \in 0..31
        /\ sequence_length(lead) = 3 => lead = 224 + (lead % 16) /\ lead % 16 \in 0..15
        /\ sequence_length(lead) = 4 => lead = 240 + (lead % 8) /\ lead % 8 \in 0..7
  BY SMT DEF sequence_length, Octet

\* What the decoder accepts is what append makes of the code point that it
\* returns: of the many ways to put a code point into octets it takes one only,
\* and refuses the surrogates and what is too large.
THEOREM DecodesOnlyAppended ==
  ASSUME NEW s \in Seq(Octet), NEW it \in 1..Len(s),
         validate_next(s, it).err = "UTF8_OK"
  PROVE /\ is_code_point_valid(validate_next(s, it).cp)
        /\ append(validate_next(s, it).cp) = SubSeq(s, it, validate_next(s, it).it - 1)
  <1> DEFINE length == sequence_length(s[it])
             cp == DecodeSequence(s, it, length)
             b == Low6(s[it + 1])
             c == Low6(s[it + 2])
             d == Low6(s[it + 3])
  <1>1. s[it] \in Octet
    BY SMT
  <1>2. /\ Stops(s, it, length) = {}
        /\ is_code_point_valid(cp) /\ ~is_overlong_sequence(cp, length)
        /\ validate_next(s, it).it = it + length
        /\ validate_next(s, it).cp = cp
        /\ length # 0
    BY ValidNextMeans
  <1>3. length \in 1..4
    BY SMT, <1>1, <1>2, LeadPassed
  <1>4. ASSUME NEW k \in 1..3, k < length
        PROVE it + k \in 1..Len(s) /\ s[it + k] = 128 + Low6(s[it + k])
              /\ Low6(s[it + k]) \in 0..63
    <2> HIDE DEF length, cp
    <2>1. Stops(s, it, length) = {}
      BY <1>2
    <2>2. k < length
      BY <1>4
    <2> QED
      BY <1>3, <2>1, <2>2, TrailPassed
  <1> HIDE DEF cp, length
  <1>5. ASSUME length = 1
        PROVE append(cp) = SubSeq(s, it, it + length - 1)
    <2>1. s[it] < 128
      BY SMT, <1>1, <1>5, LeadPassed DEF length
    <2>2. cp = s[it]
      BY SMT, <1>5 DEF DecodeSequence, cp
    <2>3. append(cp) = <<s[it]>>
      BY SMT, <2>1, <2>2 DEF append
    <2> QED
      BY SMT, <1>5, <2>3
  <1>6. ASSUME length = 2
        PROVE append(cp) = SubSeq(s, it, it + length - 1)
    <2> DEFINE a == s[it] % 32
    <2>1. s[it] = 192 + a /\ a \in 0..31
      BY SMT, <1>1, <1>6, LeadPassed DEF length
    <2>2. it + 1 \in 1..Len(s) /\ s[it + 1] = 128 + b /\ b \in 0..63
      BY SMT, <1>4, <1>6
    <2>3. cp = a * 64 + b
      BY SMT, <1>6 DEF DecodeSequence, cp
    <2> HIDE DEF a, b, c, d
    <2>4. cp >= 128
      BY SMT, <1>2, <1>6, <2>1, <2>2, <2>3 DEF is_overlong_sequence
    <2>5. append(cp) = <<s[it], s[it + 1]>>
      <3>1. cp \in Nat /\ cp < 2048 /\ cp \div 64 = a /\ Low6(cp) = b
        BY SMT, <2>1, <2>2, <2>3 DEF Low6
      <3>2. append(cp) = <<192 + a, 128 + b>>
        BY SMT, <2>4, <3>1 DEF append, Trail
      <3> QED
        BY SMT, <2>1, <2>2, <3>2
    <2> QED
      BY SMT, <1>6, <2>2, <2>5
  <1>7. ASSUME length = 3
        PROVE append(cp) = SubSeq(s, it, it + length - 1)
    <2> DEFINE a == s[it] % 16
    <2>1. s[it] = 224 + a /\ a \in 0..15
      BY SMT, <1>1, <1>7, LeadPassed DEF length
    <2>2. it + 1 \in 1..Len(s) /\ s[it + 1] = 128 + b /\ b \in 0..63
      BY SMT, <1>4, <1>7
    <2>3. it + 2 \in 1..Len(s) /\ s[it + 2] = 128 + c /\ c \in 0..63
      BY SMT, <1>4, <1>7
    <2>4. cp = a * 4096 + b * 64 + c
      BY SMT, <1>7 DEF DecodeSequence, cp
    <2> HIDE DEF a, b, c, d
    <2>5. cp >= 2048
      BY SMT, <1>2, <1>7, <2>1, <2>2, <2>3, <2>4 DEF is_overlong_sequence
    <2>6. append(cp) = <<s[it], s[it + 1], s[it + 2]>>
      <3>1. /\ cp \in Nat /\ cp < 65536
            /\ cp \div 64 = a * 64 + b /\ Low6(cp) = c
        BY SMT, <2>1, <2>2, <2>3, <2>4 DEF Low6
      <3>2. cp \div 4096 = a /\ Low6(cp \div 64) = b
        BY SMT, <2>1, <2>2, <3>1 DEF Low6
      <3>3. append(cp) = <<224 + a, 128 + b, 128 + c>>
        BY SMT, <2>5, <3>1, <3>2 DEF append, Trail
      <3> QED
        BY SMT, <2>1, <2>2, <2>3, <3>3
    <2> QED
      BY SMT, <1>7, <2>2, <2>3, <2>6
  <1>8. ASSUME length = 4
        PROVE append(cp) = SubSeq(s, it, it + length - 1)
    <2> DEFINE a == s[it] % 8
    <2>1. s[it] = 240 + a /\ a \in 0..7
      BY SMT, <1>1, <1>8, LeadPassed DEF length
    <2>2. it + 1 \in 1..Len(s) /\ s[it + 1] = 128 + b /\ b \in 0..63
      BY SMT, <1>4, <1>8
    <2>3. it + 2 \in 1..Len(s) /\ s[it + 2] = 128 + c /\ c \in 0..63
      BY SMT, <1>4, <1>8
    <2>4. it + 3 \in 1..Len(s) /\ s[it + 3] = 128 + d /\ d \in 0..63
      BY SMT, <1>4, <1>8
    <2>5. cp = a * 262144 + b * 4096 + c * 64 + d
      BY SMT, <1>8 DEF DecodeSequence, cp
    <2> HIDE DEF a, b, c, d
    <2>6. cp >= 65536
      BY SMT, <1>2, <1>8, <2>1, <2>2, <2>3, <2>4, <2>5 DEF is_overlong_sequence
    <2>7. append(cp) = <<s[it], s[it + 1], s[it + 2], s[it + 3]>>
      <3>1. cp \in Nat /\ cp \div 64 = (a * 64 + b) * 64 + c /\ Low6(cp) = d
        BY SMT, <2>1, <2>2, <2>3, <2>4, <2>5 DEF Low6
      <3>2. cp \div 4096 = a * 64 + b /\ Low6(cp \div 64) = c
        BY SMT, <2>1, <2>2, <2>3, <3>1 DEF Low6
      <3>3. cp \div 262144 = a /\ Low6(cp \div 4096) = b
        <4>1. cp \div 4096 = (cp \div 262144) * 64 + Low6(cp \div 4096)
          BY SMT, <3>1, Parts DEF Low6
        <4>2. cp \div 262144 \in Int /\ Low6(cp \div 4096) \in 0..63
          BY SMT, <3>1 DEF Low6
        <4>3. a \in Int /\ b \in 0..63
          BY SMT, <2>1, <2>2
        <4> DEFINE high == cp \div 262144
                   low == Low6(cp \div 4096)
        <4>4. a * 64 + b = high * 64 + low
          BY <3>2, <4>1
        <4>5. high \in Int /\ low \in 0..63
          BY <4>2
        <4> HIDE DEF high, low
        <4>6. high = a /\ low = b
          BY SMT, <4>3, <4>4, <4>5
        <4> QED
          BY <4>6 DEF high, low
      <3>4. append(cp) = <<240 + a, 128 + b, 128 + c, 128 + d>>
        BY SMT, <2>6, <3>1, <3>2, <3>3 DEF append, Trail
      <3> QED
        <4>1. /\ s[it] = 240 + a /\ s[it + 1] = 128 + b
              /\ s[it + 2] = 128 + c /\ s[it + 3] = 128 + d
          BY <2>1, <2>2, <2>3, <2>4
        <4> QED
          BY SMT, <3>4, <4>1
    <2> QED
      BY SMT, <1>8, <2>2, <2>3, <2>4, <2>7
  <1>9. append(cp) = SubSeq(s, it, it + length - 1)
    BY SMT, <1>3, <1>5, <1>6, <1>7, <1>8
  <1> QED
    <2>1. validate_next(s, it).cp = cp /\ is_code_point_valid(cp)
      BY <1>2
    <2>2. validate_next(s, it).it - 1 = it + length - 1
      BY SMT, <1>2, <1>3
    <2> QED
      BY <1>9, <2>1, <2>2

\* The table of the well-formed sequences, octet by octet.
Two(a, b) == a \in 194..223 /\ b \in 128..191
Three(a, b, c) ==
  /\ a \in 224..239 /\ b \in 128..191 /\ c \in 128..191
  /\ a = 224 => b >= 160
  /\ a = 237 => b < 160
Four(a, b, c, d) ==
  /\ a \in 240..244 /\ b \in 128..191 /\ c \in 128..191 /\ d \in 128..191
  /\ a = 240 => b >= 144
  /\ a = 244 => b < 144

\* Trail octets, by their value.
LEMMA Trails ==
  ASSUME NEW o \in Nat
  PROVE  /\ is_trail(o) <=> o \in 128..191
         /\ o \in 128..191 => Low6(o) = o - 128
  BY SMT DEF is_trail, Low6

\* WellFormed, for each length, by the octets themselves.
LEMMA WellFormedOne ==
  ASSUME NEW a \in Nat
  PROVE  WellFormed(<<a>>) <=> a < 128
  BY SMT DEF WellFormed

\* Two octets.
LEMMA WellFormedTwo ==
  ASSUME NEW a \in Nat, NEW b \in Nat
  PROVE  WellFormed(<<a, b>>) <=> Two(a, b)
  <1> DEFINE q == <<a, b>>
  <1>1. Len(q) = 2 /\ q[1] = a /\ q[2] = b
    OBVIOUS
  <1> HIDE DEF q
  <1>2. WellFormed(q) <=> q[1] \in 194..223 /\ is_trail(q[2])
    BY <1>1 DEF WellFormed
  <1> QED
    BY Trails, <1>1, <1>2 DEF Two, q

\* Three octets: neither an overlong sequence nor a surrogate.
LEMMA WellFormedThree ==
  ASSUME NEW a \in Nat, NEW b \in Nat, NEW c \in Nat
  PROVE  WellFormed(<<a, b, c>>) <=> Three(a, b, c)
  <1> DEFINE q == <<a, b, c>>
  <1>1. Len(q) = 3 /\ q[1] = a /\ q[2] = b /\ q[3] = c
    OBVIOUS
  <1> DEFINE range == IF a = 224 THEN 160..191 ELSE IF a = 237 THEN 128..159 ELSE 128..191
  <1> HIDE DEF q, range
  <1>2. WellFormed(q) <=> a \in 224..239 /\ b \in range /\ is_trail(c)
    BY <1>1 DEF WellFormed, range
  <1>3. b \in range <=> b \in 128..191 /\ (a = 224 => b >= 160) /\ (a = 237 => b < 160)
    <2>1. CASE a = 224
      BY <2>1 DEF range
    <2>2. CASE a = 237
      BY <2>2 DEF range
    <2>3. CASE a # 224 /\ a # 237
      BY <2>3 DEF range
    <2> QED
      BY <2>1, <2>2, <2>3
  <1> QED
    BY Trails, <1>2, <1>3 DEF Three, q

\* Four octets: neither an overlong sequence nor a code too large.
LEMMA WellFormedFour ==
  ASSUME NEW a \in Nat, NEW b \in Nat, NEW c \in Nat, NEW d \in Nat
  PROVE  WellFormed(<<a, b, c, d>>) <=> Four(a, b, c, d)
  <1> DEFINE q == <<a, b, c, d>>
  <1>1. Len(q) = 4 /\ q[1] = a /\ q[2] = b /\ q[3] = c /\ q[4] = d
    OBVIOUS
  <1> DEFINE range == IF a = 240 THEN 144..191 ELSE IF a = 244 THEN 128..143 ELSE 128..191
  <1> HIDE DEF q, range
  <1>2. WellFormed(q) <=> a \in 240..244 /\ b \in range /\ is_trail(c) /\ is_trail(d)
    BY <1>1 DEF WellFormed, range
  <1>3. b \in range <=> b \in 128..191 /\ (a = 240 => b >= 144) /\ (a = 244 => b < 144)
    <2>1. CASE a = 240
      BY <2>1 DEF range
    <2>2. CASE a = 244
      BY <2>2 DEF range
    <2>3. CASE a # 240 /\ a # 244
      BY <2>3 DEF range
    <2> QED
      BY <2>1, <2>2, <2>3
  <1> QED
    BY Trails, <1>2, <1>3 DEF Four, q

\* What append makes is octets, four at most, and well-formed.
LEMMA AppendWellFormed ==
  ASSUME NEW cp \in Nat, is_code_point_valid(cp)
  PROVE  /\ append(cp) \in Seq(Octet) /\ Len(append(cp)) \in 1..4
         /\ WellFormed(append(cp))
  <1> DEFINE a == append(cp)
  <1>1. CASE cp < 128
    <2>1. a = <<cp>> /\ cp \in Octet
      BY SMT, <1>1 DEF append, Octet
    <2> HIDE DEF a
    <2> QED
      BY SMT, <1>1, <2>1, WellFormedOne DEF a
  <1>2. CASE cp >= 128 /\ cp < 2048
    <2> DEFINE x == 192 + cp \div 64
               y == Trail(cp)
    <2>1. a = <<x, y>>
      BY SMT, <1>2 DEF append
    <2>2. Two(x, y)
      BY SMT, <1>2 DEF Two, Trail, Low6
    <2>3. x \in Octet /\ y \in Octet
      BY SMT, <2>2 DEF Two, Octet
    <2> HIDE DEF a, x, y
    <2>4. WellFormed(a)
      BY SMT, <2>1, <2>2, <2>3, WellFormedTwo DEF Octet
    <2> QED
      BY SMT, <2>1, <2>3, <2>4 DEF a
  <1>3. CASE cp >= 2048 /\ cp < 65536
    <2> DEFINE x == 224 + cp \div 4096
               y == Trail(cp \div 64)
               z == Trail(cp)
    <2>1. a = <<x, y, z>>
      BY SMT, <1>3 DEF append
    <2>2. x = 224 + cp \div 4096 /\ y = 128 + ((cp \div 64) % 64) /\ z = 128 + (cp % 64)
      BY SMT DEF Trail, Low6
    <2> HIDE DEF a, x, y, z
    <2>3. Three(x, y, z)
      <3>1. /\ x \in 224..239 /\ y \in 128..191 /\ z \in 128..191
        BY SMT, <1>3, <2>2
      <3>2. x = 224 => y >= 160
        BY SMT, <1>3, <2>2
      <3>3. x = 237 => y < 160
        BY SMT, <1>3, <2>2 DEF is_code_point_valid, is_surrogate
      <3> QED
        BY SMT, <3>1, <3>2, <3>3 DEF Three
    <2>4. x \in Octet /\ y \in Octet /\ z \in Octet
      BY SMT, <2>3 DEF Three, Octet
    <2>5. WellFormed(a)
      BY SMT, <2>1, <2>3, <2>4, WellFormedThree DEF Octet
    <2> QED
      BY SMT, <2>1, <2>4, <2>5 DEF a
  <1>4. CASE cp >= 65536
    <2> DEFINE w == 240 + cp \div 262144
               x == Trail(cp \div 4096)
               y == Trail(cp \div 64)
               z == Trail(cp)
    <2>1. a = <<w, x, y, z>>
      BY SMT, <1>4 DEF append
    <2>2. /\ w = 240 + cp \div 262144 /\ x = 128 + ((cp \div 4096) % 64)
          /\ y = 128 + ((cp \div 64) % 64) /\ z = 128 + (cp % 64)
      BY SMT DEF Trail, Low6
    <2> HIDE DEF a, w, x, y, z
    <2>3. Four(w, x, y, z)
      <3>0. cp <= 1114111
        BY SMT DEF is_code_point_valid, CODE_POINT_MAX
      <3>1. /\ w \in 240..244 /\ x \in 128..191 /\ y \in 128..191 /\ z \in 128..191
        BY SMT, <1>4, <2>2, <3>0
      <3>2. w = 240 => x >= 144
        BY SMT, <1>4, <2>2
      <3>3. w = 244 => x < 144
        BY SMT, <3>0, <2>2
      <3> QED
        BY SMT, <3>1, <3>2, <3>3 DEF Four
    <2>4. w \in Octet /\ x \in Octet /\ y \in Octet /\ z \in Octet
      BY SMT, <2>3 DEF Four, Octet
    <2>5. WellFormed(a)
      BY SMT, <2>1, <2>3, <2>4, WellFormedFour DEF Octet
    <2> QED
      BY SMT, <2>1, <2>4, <2>5 DEF a
  <1> QED
    BY SMT, <1>1, <1>2, <1>3, <1>4

\* And every well-formed sequence is made so.
LEMMA WellFormedAppended ==
  ASSUME NEW q \in Seq(Octet), Len(q) \in 1..4, WellFormed(q)
  PROVE  \E cp \in Nat : is_code_point_valid(cp) /\ append(cp) = q
  <1>0. \A k \in 1..Len(q) : q[k] \in Nat /\ q[k] < 256
    BY SMT DEF Octet
  <1>1. CASE Len(q) = 1
    <2>1. q = <<q[1]>> /\ q[1] \in Nat
      BY SMT, <1>0, <1>1
    <2>2. q[1] < 128
      BY SMT, <2>1, WellFormedOne
    <2> DEFINE a == q[1]
    <2>3. a < 128 /\ a \in Nat /\ q = <<a>>
      BY SMT, <2>1, <2>2
    <2> HIDE DEF a
    <2>4. is_code_point_valid(a) /\ append(a) = <<a>>
      BY SMT, <2>3 DEF is_code_point_valid, is_surrogate, CODE_POINT_MAX, append
    <2> QED
      BY SMT, <2>3, <2>4
  <1>2. CASE Len(q) = 2
    <2> DEFINE a == q[1]
               b == q[2]
    <2>1. q = <<a, b>> /\ a \in Nat /\ b \in Nat
      BY SMT, <1>0, <1>2
    <2> HIDE DEF a, b
    <2>2. Two(a, b)
      BY SMT, <2>1, WellFormedTwo
    <2> DEFINE cp == (a - 192) * 64 + (b - 128)
    <2>3. cp \in 128..2047 /\ cp \div 64 = a - 192 /\ cp % 64 = b - 128
      BY SMT, <2>2 DEF Two
    <2> HIDE DEF cp
    <2>4. is_code_point_valid(cp)
      BY SMT, <2>3 DEF is_code_point_valid, is_surrogate, CODE_POINT_MAX
    <2>5. append(cp) = <<a, b>>
      <3>1. append(cp) = <<192 + cp \div 64, Trail(cp)>>
        BY SMT, <2>3 DEF append
      <3>2. 192 + cp \div 64 = a /\ Trail(cp) = b
        BY SMT, <2>2, <2>3 DEF Trail, Low6, Two
      <3> QED
        BY SMT, <3>1, <3>2
    <2> QED
      BY SMT, <2>1, <2>3, <2>4, <2>5
  <1>3. CASE Len(q) = 3
    <2> DEFINE a == q[1]
               b == q[2]
               c == q[3]
    <2>1. q = <<a, b, c>> /\ a \in Nat /\ b \in Nat /\ c \in Nat
      BY SMT, <1>0, <1>3
    <2> HIDE DEF a, b, c
    <2>2. Three(a, b, c)
      BY SMT, <2>1, WellFormedThree
    <2> DEFINE cp == (a - 224) * 4096 + (b - 128) * 64 + (c - 128)
    <2>3. /\ cp \in Nat /\ cp >= 2048 /\ cp < 65536 /\ cp \div 4096 = a - 224
          /\ (cp \div 64) % 64 = b - 128 /\ cp % 64 = c - 128
      BY SMT, <2>2 DEF Three
    <2>4. ~(cp >= 55296 /\ cp <= 57343)
      BY SMT, <2>2 DEF Three
    <2> HIDE DEF cp
    <2>5. is_code_point_valid(cp)
      BY SMT, <2>3, <2>4 DEF is_code_point_valid, is_surrogate, CODE_POINT_MAX
    <2>6. append(cp) = <<a, b, c>>
      <3>1. append(cp) = <<224 + cp \div 4096, Trail(cp \div 64), Trail(cp)>>
        BY SMT, <2>3 DEF append
      <3>2. 224 + cp \div 4096 = a /\ Trail(cp \div 64) = b /\ Trail(cp) = c
        BY SMT, <2>2, <2>3 DEF Trail, Low6, Three
      <3> QED
        BY SMT, <3>1, <3>2
    <2> QED
      BY SMT, <2>1, <2>3, <2>5, <2>6
  <1>4. CASE Len(q) = 4
    <2> DEFINE a == q[1]
               b == q[2]
               c == q[3]
               d == q[4]
    <2>1. q = <<a, b, c, d>> /\ a \in Nat /\ b \in Nat /\ c \in Nat /\ d \in Nat
      BY SMT, <1>0, <1>4
    <2> HIDE DEF a, b, c, d
    <2>2. Four(a, b, c, d)
      BY SMT, <2>1, WellFormedFour
    <2> DEFINE cp == (a - 240) * 262144 + (b - 128) * 4096 + (c - 128) * 64 + (d - 128)
    <2>3. /\ cp \in Nat /\ cp >= 65536 /\ cp <= 1114111 /\ cp \div 262144 = a - 240
          /\ (cp \div 4096) % 64 = b - 128
          /\ (cp \div 64) % 64 = c - 128 /\ cp % 64 = d - 128
      <3> DEFINE w == a - 240
                 x == b - 128
                 y == c - 128
                 z == d - 128
                 f == w * 64 + x
                 e == f * 64 + y
      <3>1. /\ w \in Nat /\ w <= 4 /\ x \in 0..63 /\ y \in 0..63 /\ z \in 0..63
            /\ w = 0 => x >= 16
            /\ w = 4 => x < 16
        BY SMT, <2>2 DEF Four
      <3>2. cp = e * 64 + z
        BY SMT, <2>2 DEF Four
      <3> HIDE DEF w, x, y, z, cp
      <3>3. /\ f \in Nat /\ f >= 16 /\ f < 272 /\ f \div 64 = w /\ f % 64 = x
        BY SMT, <3>1
      <3> HIDE DEF f
      <3>4. e \in Nat /\ e >= 1024 /\ e < 17408 /\ e \div 64 = f /\ e % 64 = y
        BY SMT, <3>1, <3>3
      <3> HIDE DEF e
      <3>5. /\ cp \in Nat /\ cp >= 65536 /\ cp <= 1114111 /\ cp \div 64 = e /\ cp % 64 = z
        BY SMT, <3>1, <3>2, <3>4
      <3>6. cp \div 4096 = (cp \div 64) \div 64 /\ cp \div 262144 = (cp \div 4096) \div 64
        BY SMT, <3>5
      <3> QED
        BY SMT, <3>3, <3>4, <3>5, <3>6 DEF w, x, y, z
    <2> HIDE DEF cp
    <2>5. is_code_point_valid(cp)
      BY SMT, <2>3 DEF is_code_point_valid, is_surrogate, CODE_POINT_MAX
    <2>6. append(cp) = <<a, b, c, d>>
      <3>1. append(cp) = <<240 + cp \div 262144, Trail(cp \div 4096), Trail(cp \div 64), Trail(cp)>>
        BY SMT, <2>3 DEF append
      <3>2. /\ 240 + cp \div 262144 = a /\ Trail(cp \div 4096) = b
            /\ Trail(cp \div 64) = c /\ Trail(cp) = d
        BY SMT, <2>2, <2>3 DEF Trail, Low6, Four
      <3> QED
        BY SMT, <3>1, <3>2
    <2> QED
      BY SMT, <2>1, <2>3, <2>5, <2>6
  <1> QED
    BY SMT, <1>1, <1>2, <1>3, <1>4

\* The decoder finds what append made wherever it is in a text.
LEMMA DecodesAt ==
  ASSUME NEW s \in Seq(Octet), NEW it \in 1..Len(s), NEW cp \in Nat, is_code_point_valid(cp),
         it + Len(append(cp)) - 1 <= Len(s),
         SubSeq(s, it, it + Len(append(cp)) - 1) = append(cp)
  PROVE  validate_next(s, it) =
           [err |-> "UTF8_OK", it |-> it + Len(append(cp)), cp |-> cp]
  <1> DEFINE a == append(cp)
             l == Len(a)
  <1>1. a \in Seq(Octet) /\ l \in 1..4
    BY AppendWellFormed
  <1>2. validate_next(a, 1) = [err |-> "UTF8_OK", it |-> l + 1, cp |-> cp]
    BY SMT, AppendDecodes
  <1> DEFINE m == sequence_length(a[1])
  <1>3. /\ m # 0 /\ Stops(a, 1, m) = {} /\ 1 + m = l + 1
        /\ is_code_point_valid(DecodeSequence(a, 1, m))
        /\ ~is_overlong_sequence(DecodeSequence(a, 1, m), m)
        /\ DecodeSequence(a, 1, m) = cp
    <2>1. validate_next(a, 1).err = "UTF8_OK" /\ validate_next(a, 1).it = l + 1
          /\ validate_next(a, 1).cp = cp
      BY <1>2
    <2> HIDE DEF a, l
    <2> QED
      BY <2>1, ValidNextMeans
  <1>4. m = l
    <2>1. a[1] \in Octet
      BY SMT, <1>1
    <2>2. m \in 0..4
      BY SMT, <2>1, LeadPassed
    <2> HIDE DEF m, l
    <2> QED
      BY SMT, <1>1, <1>3, <2>2
  <1>5. \A k \in 1..l : a[k] = s[it + k - 1]
    <2> HIDE DEF a
    <2>1. SubSeq(s, it, it + l - 1) = a /\ it + l - 1 <= Len(s)
      BY SMT DEF a
    <2> HIDE DEF l
    <2>2. \A k \in 1..l : SubSeq(s, it, it + l - 1)[k] = s[it + k - 1]
      BY <1>1, <2>1
    <2> HIDE DEF m
    <2> QED
      BY <2>1, <2>2
  <1>6. sequence_length(s[it]) = l
    BY SMT, <1>1, <1>4, <1>5
  <1>7. DecodeSequence(s, it, l) = cp
    <2>1. DecodeSequence(a, 1, l) = cp
      BY SMT, <1>3, <1>4
    <2> HIDE DEF a, l
    <2>2. DecodeSequence(s, it, l) = DecodeSequence(a, 1, l)
      <3>1. CASE l = 1
        BY SMT, <1>5, <3>1 DEF DecodeSequence
      <3>2. CASE l = 2
        BY SMT, <1>5, <3>2 DEF DecodeSequence
      <3>3. CASE l = 3
        BY SMT, <1>5, <3>3 DEF DecodeSequence
      <3>4. CASE l = 4
        BY SMT, <1>5, <3>4 DEF DecodeSequence
      <3> QED
        BY SMT, <1>1, <3>1, <3>2, <3>3, <3>4
    <2> QED
      BY SMT, <2>1, <2>2
  <1>8. Stops(s, it, l) = {}
    <2>0. Stops(a, 1, l) = {}
      BY SMT, <1>3, <1>4
    <2>1. it + l - 1 <= Len(s)
      BY SMT
    <2> HIDE DEF a, l
    <2>2. ASSUME NEW k \in (it + 1)..(it + l - 1) PROVE ~(k > Len(s) \/ ~is_trail(s[k]))
      <3>1. k - it + 1 \in (1 + 1)..(1 + l - 1)
        BY SMT, <1>1, <2>2
      <3>2. ~(k - it + 1 > Len(a) \/ ~is_trail(a[k - it + 1]))
        BY SMT, <2>0, <3>1 DEF Stops
      <3>3. a[k - it + 1] = s[k]
        <4>1. k - it + 1 \in 1..l /\ it + (k - it + 1) - 1 = k
          BY SMT, <1>1, <3>1
        <4> QED
          BY SMT, <1>5, <4>1
      <3> QED
        BY SMT, <1>1, <2>1, <2>2, <3>2, <3>3
    <2> QED
      BY SMT, <2>2 DEF Stops
  <1> HIDE DEF a, l, m
  <1> QED
    <2>1. validate_next(s, it) = [err |-> "UTF8_OK", it |-> it + l, cp |-> cp]
      BY SMT, <1>1, <1>3, <1>4, <1>6, <1>7, <1>8, ValidNext
    <2> QED
      BY SMT, <2>1 DEF a, l

\* What validate_next, and so utf8_to_ebu, reports.
Errors == {"UTF8_OK", "NOT_ENOUGH_ROOM", "INVALID_LEAD", "INCOMPLETE_SEQUENCE",
           "OVERLONG_SEQUENCE", "INVALID_CODE_POINT"}

\* What validate_next returns, after an error and without one.
LEMMA NextTypes ==
  ASSUME NEW s \in Seq(Octet), NEW it \in 1..Len(s)
  PROVE  LET n == validate_next(s, it)
         IN  /\ n.err \in Errors
             /\ n.err # "UTF8_OK" => n.it = it
             /\ n.err = "UTF8_OK" =>
                  /\ n.cp \in Nat /\ is_code_point_valid(n.cp)
                  /\ n.it \in it + 1..it + 4 /\ n.it <= Len(s) + 1
                  /\ append(n.cp) = SubSeq(s, it, n.it - 1)
  <1> DEFINE n == validate_next(s, it)
             length == sequence_length(s[it])
             cp == DecodeSequence(s, it, length)
  <1>1. n.err \in Errors /\ (n.err # "UTF8_OK" => n.it = it)
    BY SMT DEF validate_next, Errors
  <1>2. ASSUME n.err = "UTF8_OK"
        PROVE  /\ n.cp \in Nat /\ is_code_point_valid(n.cp)
               /\ n.it \in it + 1..it + 4 /\ n.it <= Len(s) + 1
               /\ append(n.cp) = SubSeq(s, it, n.it - 1)
    <2>1. is_code_point_valid(n.cp) /\ append(n.cp) = SubSeq(s, it, n.it - 1)
      BY <1>2, DecodesOnlyAppended
    <2>2. s[it] \in Octet
      OBVIOUS
    <2>3. /\ Stops(s, it, length) = {} /\ n.it = it + length /\ length # 0 /\ n.cp = cp
      BY <1>2, ValidNextMeans
    <2>4. length \in 1..4
      BY <2>2, <2>3, LeadPassed
    <2> HIDE DEF n
    <2>5. ASSUME NEW k \in 1..3, k < length
          PROVE  it + k <= Len(s) /\ Low6(s[it + k]) \in Nat
      <3> HIDE DEF length, cp
      <3>1. /\ it + k \in 1..Len(s) /\ s[it + k] = 128 + Low6(s[it + k])
            /\ Low6(s[it + k]) \in 0..63
        <4>1. Stops(s, it, length) = {} /\ k < length
          BY <2>3, <2>5
        <4> QED
          BY <2>4, <4>1, TrailPassed
      <3>2. it + k <= Len(s)
        BY <3>1
      <3> DEFINE low == Low6(s[it + k])
      <3>3. low \in 0..63
        BY <3>1
      <3> HIDE DEF low
      <3>4. low \in Nat
        BY <3>3
      <3> QED
        BY <3>2, <3>4 DEF low
    <2>6. cp \in Nat
      <3>1. s[it] \in Nat
        BY <2>2 DEF Octet
      <3> HIDE DEF length
      <3>2. CASE length = 1
        BY <3>1, <3>2 DEF DecodeSequence
      <3>3. CASE length = 2
        <4>1. Low6(s[it + 1]) \in Nat
          BY <2>5, <3>3
        <4> QED
          BY SMT, <3>1, <3>3, <4>1 DEF DecodeSequence
      <3>4. CASE length = 3
        <4>1. Low6(s[it + 1]) \in Nat /\ Low6(s[it + 2]) \in Nat
          BY <2>5, <3>4
        <4> QED
          BY SMT, <3>1, <3>4, <4>1 DEF DecodeSequence
      <3>5. CASE length = 4
        <4>1. Low6(s[it + 1]) \in Nat /\ Low6(s[it + 2]) \in Nat /\ Low6(s[it + 3]) \in Nat
          BY <2>5, <3>5
        <4>2. cp = (s[it] % 8) * 262144 + Low6(s[it + 1]) * 4096
                   + Low6(s[it + 2]) * 64 + Low6(s[it + 3])
          BY SMT, <3>5 DEF DecodeSequence
        <4>3. s[it] % 8 \in Nat
          BY SMT, <3>1
        <4> DEFINE w == s[it] % 8
                   x == Low6(s[it + 1])
                   y == Low6(s[it + 2])
                   z == Low6(s[it + 3])
        <4>4. w \in Nat /\ x \in Nat /\ y \in Nat /\ z \in Nat
              /\ cp = w * 262144 + x * 4096 + y * 64 + z
          BY <4>1, <4>2, <4>3
        <4> HIDE DEF w, x, y, z, cp
        <4> QED
          BY SMT, <4>4
      <3> QED
        BY <2>4, <3>2, <3>3, <3>4, <3>5
    <2>7. it + length <= Len(s) + 1
      <3> HIDE DEF length
      <3>1. CASE length = 1
        BY <3>1
      <3>2. CASE length # 1
        <4>1. length - 1 \in 1..3 /\ length - 1 < length
          BY <2>4, <3>2
        <4>2. it + (length - 1) <= Len(s)
          BY <2>5, <4>1
        <4> QED
          BY <2>4, <4>2
      <3> QED
        BY <3>1, <3>2
    <2> HIDE DEF length, cp
    <2> QED
      BY <2>1, <2>3, <2>4, <2>6, <2>7
  <1> QED
    BY <1>1, <1>2

\* The decoder goes from k to n.
Takes(s, k, n) ==
  k \in 1..Len(s) /\ validate_next(s, k).err = "UTF8_OK" /\ validate_next(s, k).it = n

\* It does so where the octets between them are well-formed, and nowhere else.
LEMMA TakesWellFormed ==
  ASSUME NEW s \in Seq(Octet), NEW k \in 1..Len(s), NEW n \in 1..Len(s) + 1, k < n
  PROVE  Takes(s, k, n) <=> n - k <= 4 /\ WellFormed(SubSeq(s, k, n - 1))
  <1> DEFINE q == SubSeq(s, k, n - 1)
  <1>1. q \in Seq(Octet) /\ Len(q) = n - k
    OBVIOUS
  <1>2. ASSUME Takes(s, k, n) PROVE n - k <= 4 /\ WellFormed(q)
    <2> DEFINE v == validate_next(s, k)
    <2>1. v.err = "UTF8_OK" /\ v.it = n
      BY <1>2 DEF Takes
    <2>2. /\ v.cp \in Nat /\ is_code_point_valid(v.cp)
          /\ v.it \in k + 1..k + 4 /\ append(v.cp) = SubSeq(s, k, v.it - 1)
      BY <2>1, NextTypes
    <2> HIDE DEF v
    <2>3. append(v.cp) = q
      BY <2>1, <2>2
    <2> HIDE DEF q
    <2>4. WellFormed(q)
      BY <2>2, <2>3, AppendWellFormed
    <2> QED
      BY <2>1, <2>2, <2>4
  <1>3. ASSUME n - k <= 4, WellFormed(q) PROVE Takes(s, k, n)
    <2>1. PICK cp \in Nat : is_code_point_valid(cp) /\ append(cp) = q
      <3> HIDE DEF q
      <3>1. Len(q) \in 1..4
        BY <1>1, <1>3
      <3> QED
        BY <1>1, <1>3, <3>1, WellFormedAppended
    <2>2. k + Len(append(cp)) = n
      BY <1>1, <2>1
    <2>3. SubSeq(s, k, k + Len(append(cp)) - 1) = append(cp)
      BY <2>1, <2>2
    <2>4. k + Len(append(cp)) - 1 <= Len(s)
      BY <2>2
    <2>5. validate_next(s, k) = [err |-> "UTF8_OK", it |-> k + Len(append(cp)), cp |-> cp]
      BY <2>1, <2>3, <2>4, DecodesAt
    <2> QED
      BY <2>2, <2>5 DEF Takes
  <1> HIDE DEF q
  <1>4. Takes(s, k, n) <=> n - k <= 4 /\ WellFormed(q)
    BY <1>2, <1>3
  <1> QED
    BY <1>4 DEF q

-----------------------------------------------------------------------------
(* The boundaries are what the decoder goes along.                         *)

\* A character from b ends before n.
Joins(s, b, n) == \E k \in b : n - k <= 4 /\ WellFormed(SubSeq(s, k, n - 1))

\* The function of Boundaries.
Bounds(s, bounds) ==
  /\ bounds \in [1..Len(s) + 1 -> SUBSET (1..Len(s) + 1)]
  /\ bounds[1] = {1}
  /\ \A n \in 2..Len(s) + 1 :
       bounds[n] = IF Joins(s, bounds[n - 1], n) THEN bounds[n - 1] \cup {n} ELSE bounds[n - 1]

\* The function that Boundaries chooses.
LEMMA BoundsLoop ==
  ASSUME NEW s \in Seq(Octet)
  PROVE  \E bounds : Bounds(s, bounds) /\ Boundaries(s) = bounds[Len(s) + 1]
  <1> DEFINE N == Len(s) + 1
             D == 1..N
             V == SUBSET D
             Value(g, n) == IF n = 1 THEN {1}
                            ELSE IF Joins(s, g[n - 1], n) THEN g[n - 1] \cup {n} ELSE g[n - 1]
             step == [n \in D |-> [g \in [D -> V] |-> Value(g, n)]]
             rank == [n \in D |-> n]
  <1>1. N \in Nat /\ 1 \in D
    OBVIOUS
  <1>2. step \in [D -> [[D -> V] -> V]]
    <2>1. ASSUME NEW n \in D, NEW g \in [D -> V]
          PROVE  Value(g, n) \in V
      <3>1. CASE n = 1
        BY <3>1
      <3>2. CASE n # 1
        <4>1. n - 1 \in D
          BY <1>1, <3>2
        <4>2. g[n - 1] \in V
          BY <4>1
        <4> HIDE DEF D
        <4> QED
          BY <3>2, <4>2
      <3> QED
        BY <3>1, <3>2
    <2> HIDE DEF V, D, Value
    <2> QED
      BY <2>1
  <1>3. \A n \in D : \A g, h \in [D -> V] :
          (\A e \in D : rank[e] < rank[n] => g[e] = h[e]) => step[n][g] = step[n][h]
    <2> SUFFICES ASSUME NEW n \in D, NEW g \in [D -> V], NEW h \in [D -> V],
                        \A e \in D : rank[e] < rank[n] => g[e] = h[e]
                 PROVE  step[n][g] = step[n][h]
      BY Zenon
    <2>1. n # 1 => g[n - 1] = h[n - 1]
      <3>1. n # 1 => n - 1 \in D /\ rank[n - 1] < rank[n]
        OBVIOUS
      <3> HIDE DEF rank, D
      <3> QED
        BY <3>1
    <2> HIDE DEF V, rank, D
    <2> QED
      BY <2>1
  <1>4. PICK f \in [D -> V] : \A n \in D : f[n] = step[n][f]
    <2>1. V # {} /\ N \in Nat /\ rank \in [D -> 0..N]
      OBVIOUS
    <2> HIDE DEF step, rank, V, D
    <2>2. Ranked(D, V, N, rank, step)
      BY <1>2, <1>3, <2>1 DEF Ranked
    <2> QED
      BY <2>2, Recursion DEF Solves
  <1> DEFINE Equation(bounds) ==
        bounds = [n \in 1..(Len(s) + 1) |->
                    IF n = 1 THEN {1}
                    ELSE LET b == bounds[n - 1]
                         IN IF \E k \in b : n - k <= 4 /\ WellFormed(SubSeq(s, k, n - 1))
                            THEN b \cup {n} ELSE b]
             chosen == CHOOSE bounds : Equation(bounds)
  <1>5. Equation(f)
    <2>1. \A n \in D : f[n] = Value(f, n)
      <3> HIDE DEF V, D, Value
      <3> QED
        BY <1>4
    <2> QED
      BY <1>4, <2>1 DEF Joins
  <1>6. Equation(chosen)
    <2> HIDE DEF Equation
    <2> QED
      BY <1>5
  <1>7. Boundaries(s) = chosen[Len(s) + 1]
    BY DEF Boundaries
  <1> HIDE DEF chosen
  <1>8. chosen = [n \in D |-> Value(chosen, n)]
    BY <1>6 DEF Joins
  <1> HIDE DEF Equation, step, rank
  <1>9. \A n \in 1..N : chosen[n] \in V
    <2> DEFINE S == {n \in 0..Len(s) : chosen[n + 1] \in V}
    <2>1. 0 \in S
      BY <1>1, <1>8
    <2>2. ASSUME NEW n \in 0..Len(s) - 1, n \in S PROVE n + 1 \in S
      <3>1. n + 2 \in D /\ n + 2 # 1 /\ n + 2 - 1 = n + 1
        OBVIOUS
      <3>2. chosen[n + 1] \in V
        BY <2>2
      <3>3. chosen[n + 2] = IF Joins(s, chosen[n + 1], n + 2) THEN chosen[n + 1] \cup {n + 2}
                            ELSE chosen[n + 1]
        <4>1. chosen[n + 2] = Value(chosen, n + 2)
          <5> HIDE DEF D, Value
          <5> QED
            BY <1>8, <3>1
        <4>2. Value(chosen, n + 2) = IF Joins(s, chosen[(n + 2) - 1], n + 2)
                                     THEN chosen[(n + 2) - 1] \cup {n + 2}
                                     ELSE chosen[(n + 2) - 1]
          BY <3>1
        <4> QED
          BY <3>1, <4>1, <4>2
      <3>4. chosen[n + 2] \in V
        <4> HIDE DEF D
        <4> QED
          BY <3>1, <3>2, <3>3
      <3>5. n + 1 \in 0..Len(s) /\ (n + 1) + 1 = n + 2
        OBVIOUS
      <3> HIDE DEF V
      <3> QED
        BY <3>4, <3>5
    <2>3. 0..Len(s) \subseteq S
      <3>1. Len(s) \in Nat
        OBVIOUS
      <3> HIDE DEF S
      <3> QED
        BY <2>1, <2>2, <3>1, InductionUpTo
    <2> TAKE n \in 1..N
    <2>4. n - 1 \in 0..Len(s) /\ (n - 1) + 1 = n
      OBVIOUS
    <2> HIDE DEF V
    <2> QED
      BY <2>3, <2>4
  <1>10. Bounds(s, chosen)
    <2>1. chosen \in [D -> V]
      <3> HIDE DEF V, Value
      <3> QED
        BY <1>8, <1>9
    <2>2. chosen[1] = {1}
      BY <1>1, <1>8
    <2>3. \A n \in 2..N : chosen[n] = IF Joins(s, chosen[n - 1], n) THEN chosen[n - 1] \cup {n}
                                      ELSE chosen[n - 1]
      <3> TAKE n \in 2..N
      <3>1. n \in D /\ n # 1
        OBVIOUS
      <3> HIDE DEF D
      <3> QED
        BY <1>8, <3>1
    <2> QED
      BY <2>1, <2>2, <2>3 DEF Bounds
  <1> QED
    BY <1>7, <1>10

\* Which indices are boundaries.
LEMMA BoundaryOf ==
  ASSUME NEW s \in Seq(Octet)
  PROVE  /\ Boundaries(s) \subseteq 1..Len(s) + 1 /\ 1 \in Boundaries(s)
         /\ \A n \in 2..Len(s) + 1 :
              n \in Boundaries(s) <=>
                \E k \in Boundaries(s) :
                  k < n /\ n - k <= 4 /\ WellFormed(SubSeq(s, k, n - 1))
  <1> DEFINE N == Len(s) + 1
             B == Boundaries(s)
  <1>1. PICK bounds : Bounds(s, bounds) /\ B = bounds[N]
    BY BoundsLoop
  <1>2. N \in Nat /\ N >= 1 /\ Len(s) \in Nat
    OBVIOUS
  <1>3. /\ \A n \in 1..N : bounds[n] \subseteq 1..N
        /\ bounds[1] = {1}
        /\ \A n \in 2..N :
             bounds[n] = IF Joins(s, bounds[n - 1], n) THEN bounds[n - 1] \cup {n}
                         ELSE bounds[n - 1]
    BY <1>1 DEF Bounds
  <1> HIDE DEF B
  <1> DEFINE Cut(m) == /\ bounds[m + 1] \subseteq 1..m + 1
                       /\ \A i \in 1..m + 1 : bounds[i] = bounds[m + 1] \cap (1..i)
             S == {m \in 0..Len(s) : Cut(m)}
  <1>4. 0 \in S
    BY <1>2, <1>3
  <1>5. ASSUME NEW m \in 0..Len(s) - 1, m \in S PROVE m + 1 \in S
    <2> DEFINE old == bounds[m + 1]
               new == bounds[m + 2]
    <2>1. Cut(m) /\ m + 2 \in 2..N /\ (m + 2) - 1 = m + 1
      BY <1>5
    <2>2. new = old \cup {m + 2} \/ new = old
      BY <1>3, <2>1
    <2>3. old \subseteq 1..m + 1 /\ \A i \in 1..m + 1 : bounds[i] = old \cap (1..i)
      BY <2>1
    <2> HIDE DEF old
    <2>4. new \subseteq 1..m + 2
      BY <2>2, <2>3
    <2>5. ASSUME NEW i \in 1..m + 2 PROVE bounds[i] = new \cap (1..i)
      <3>1. CASE i = m + 2
        BY <2>4, <3>1
      <3>2. CASE i # m + 2
        <4>1. i \in 1..m + 1 /\ m + 2 \notin 1..i
          BY <3>2
        <4>2. bounds[i] = old \cap (1..i)
          BY <2>3, <4>1
        <4> HIDE DEF new
        <4> QED
          BY <2>2, <4>1, <4>2
      <3> QED
        BY <3>1, <3>2
    <2>6. Cut(m + 1)
      <3>1. (m + 1) + 1 = m + 2
        OBVIOUS
      <3> QED
        BY <2>4, <2>5, <3>1
    <2>7. m + 1 \in 0..Len(s)
      BY <1>2
    <2> HIDE DEF Cut
    <2> QED
      BY <2>6, <2>7
  <1>6. Cut(Len(s))
    <2> HIDE DEF S
    <2>1. 0..Len(s) \subseteq S
      BY <1>2, <1>4, <1>5, InductionUpTo
    <2>2. Len(s) \in S
      BY <1>2, <2>1
    <2> QED
      BY <2>2 DEF S
  <1>7. /\ B \subseteq 1..N /\ \A i \in 1..N : bounds[i] = B \cap (1..i)
    BY <1>1, <1>6
  <1>8. 1 \in B
    <2>1. 1 \in bounds[1] /\ 1 \in 1..N
      BY <1>2, <1>3
    <2> QED
      BY <1>7, <2>1
  <1>9. ASSUME NEW n \in 2..N
        PROVE  n \in B <=> \E k \in B : k < n /\ n - k <= 4 /\ WellFormed(SubSeq(s, k, n - 1))
    <2>1. n \in 1..N /\ n - 1 \in 1..N /\ n \in 1..n /\ n \notin 1..n - 1
      OBVIOUS
    <2>2. n \in B <=> n \in bounds[n]
      BY <1>7, <2>1
    <2>3. bounds[n - 1] = B \cap (1..n - 1)
      BY <1>7, <2>1
    <2>4. n \in bounds[n] <=> Joins(s, bounds[n - 1], n)
      BY <1>3, <2>1, <2>3
    <2>5. \A k \in B : k \in bounds[n - 1] <=> k < n
      BY <1>7, <2>3
    <2> QED
      BY <2>2, <2>3, <2>4, <2>5 DEF Joins
  <1> QED
    BY <1>7, <1>8, <1>9 DEF B

\* The decoder goes from one boundary to the next.
LEMMA BoundaryTaken ==
  ASSUME NEW s \in Seq(Octet), NEW n \in 2..Len(s) + 1
  PROVE  n \in Boundaries(s) <=> \E k \in Boundaries(s) : k < n /\ Takes(s, k, n)
  <1> DEFINE B == Boundaries(s)
  <1>1. B \subseteq 1..Len(s) + 1
    BY BoundaryOf
  <1>2. n \in B <=> \E k \in B : k < n /\ n - k <= 4 /\ WellFormed(SubSeq(s, k, n - 1))
    BY BoundaryOf
  <1> HIDE DEF B
  <1>3. ASSUME NEW k \in B, k < n
        PROVE  Takes(s, k, n) <=> n - k <= 4 /\ WellFormed(SubSeq(s, k, n - 1))
    <2>1. k \in 1..Len(s) /\ n \in 1..Len(s) + 1
      BY <1>1, <1>3
    <2> QED
      BY <1>3, <2>1, TakesWellFormed
  <1>4. n \in B <=> \E k \in B : k < n /\ Takes(s, k, n)
    BY <1>2, <1>3
  <1> QED
    BY <1>4 DEF B

\* No boundary is passed over: one that has another behind it is followed by
\* the one that the decoder goes to.
LEMMA BoundaryChain ==
  ASSUME NEW s \in Seq(Octet), NEW k \in Boundaries(s), NEW n \in Boundaries(s), k < n
  PROVE  LET v == validate_next(s, k)
         IN  /\ k \in 1..Len(s)
             /\ v.err = "UTF8_OK" /\ v.it \in Boundaries(s) /\ k < v.it /\ v.it <= n
  <1> DEFINE N == Len(s) + 1
             B == Boundaries(s)
             Go(i, j) == /\ validate_next(s, i).err = "UTF8_OK"
                         /\ validate_next(s, i).it \in B
                         /\ i < validate_next(s, i).it /\ validate_next(s, i).it <= j
             Chain(m) == \A i, j \in B : i < j /\ j <= m => Go(i, j)
             S == {m \in 0..N : Chain(m)}
  <1>1. B \subseteq 1..N /\ N \in Nat
    BY BoundaryOf
  <1>2. \A j \in 2..N : j \in B <=> \E i \in B : i < j /\ Takes(s, i, j)
    BY BoundaryTaken
  <1> HIDE DEF B, N
  <1>3. 0 \in S
    BY <1>1
  <1>4. ASSUME NEW m \in 0..N - 1, m \in S PROVE m + 1 \in S
    <2>1. Chain(m) /\ m + 1 \in 0..N
      BY <1>1, <1>4
    <2>2. ASSUME NEW i \in B, NEW j \in B, i < j, j <= m + 1 PROVE Go(i, j)
      <3>1. CASE j <= m
        <4> HIDE DEF Go
        <4> QED
          BY <2>1, <2>2, <3>1
      <3>2. CASE j = m + 1
        <4>1. j \in 2..N
          BY <1>1, <2>2, <3>2
        <4>2. PICK l \in B : l < j /\ Takes(s, l, j)
          BY <1>2, <4>1
        <4>3. validate_next(s, l).err = "UTF8_OK" /\ validate_next(s, l).it = j
          BY <4>2 DEF Takes
        <4>4. CASE i = l
          BY <2>2, <4>3, <4>4, <1>1
        <4>5. CASE i < l
          <5>1. l <= m
            BY <1>1, <3>2, <4>2
          <5>2. Go(i, l)
            <6> HIDE DEF Go
            <6> QED
              BY <2>1, <4>5, <5>1
          <5>3. validate_next(s, i).it \in Int /\ l \in Int /\ j \in Int
            <6>1. \A b \in B : b \in Int
              BY <1>1
            <6>2. validate_next(s, i).it \in B
              BY <5>2
            <6> HIDE DEF Go
            <6> QED
              BY <6>1, <6>2
          <5> QED
            BY <4>2, <5>2, <5>3
        <4>6. CASE l < i
          <5>1. i <= m
            BY <1>1, <2>2, <3>2
          <5>2. Go(l, i)
            <6> HIDE DEF Go
            <6> QED
              BY <2>1, <4>6, <5>1
          <5>3. j <= i
            BY <4>3, <5>2
          <5> QED
            BY <1>1, <2>2, <5>3
        <4> QED
          BY <1>1, <4>4, <4>5, <4>6
      <3> QED
        BY <1>1, <2>2, <3>1, <3>2
    <2>3. Chain(m + 1)
      <3> HIDE DEF Go
      <3> QED
        BY <2>2
    <2> HIDE DEF Chain
    <2> QED
      BY <2>1, <2>3
  <1>5. Chain(N)
    <2>1. 0..N \subseteq S
      <3> HIDE DEF S
      <3> QED
        BY <1>1, <1>3, <1>4, InductionUpTo
    <2>2. N \in S
      BY <1>1, <2>1
    <2> HIDE DEF Chain
    <2> QED
      BY <2>2
  <1>6. Go(k, n)
    <2>1. k \in B /\ n \in B
      BY DEF B
    <2>2. n <= N
      BY <1>1, <2>1
    <2> HIDE DEF Go
    <2> QED
      BY <1>5, <2>1, <2>2
  <1>7. k \in 1..Len(s)
    <2>1. k \in 1..N /\ n \in 1..N
      BY <1>1 DEF B
    <2> QED
      BY <2>1 DEF N
  <1> QED
    BY <1>6, <1>7 DEF B

\* A step of the decoder from a boundary is to a boundary.
LEMMA BoundaryStep ==
  ASSUME NEW s \in Seq(Octet), NEW k \in Boundaries(s), k <= Len(s),
         validate_next(s, k).err = "UTF8_OK"
  PROVE  LET n == validate_next(s, k).it
         IN  n \in Boundaries(s) /\ k < n /\ n \in 2..Len(s) + 1
  <1> DEFINE n == validate_next(s, k).it
  <1>1. k \in 1..Len(s)
    BY BoundaryOf
  <1>2. n \in k + 1..k + 4 /\ n <= Len(s) + 1
    BY <1>1, NextTypes
  <1>3. Takes(s, k, n)
    BY <1>1 DEF Takes
  <1> HIDE DEF n
  <1>4. n \in 2..Len(s) + 1 /\ k < n
    BY <1>1, <1>2
  <1>5. n \in Boundaries(s)
    BY <1>3, <1>4, BoundaryTaken
  <1> QED
    BY <1>4, <1>5 DEF n

-----------------------------------------------------------------------------
(* find_invalid and utf8to32 go along the boundaries.                      *)

\* What is true of the end and, going down, of each boundary that has been
\* shown it for what is behind, is true of all boundaries.
LEMMA BoundariesDown ==
  ASSUME NEW N \in Nat, NEW B \in SUBSET (1..N + 1), NEW S,
         \A k \in B : (\A n \in B : k < n => n \in S) => k \in S
  PROVE  B \subseteq S
  <1> DEFINE T == {m \in 0..N + 1 : \A k \in B : k >= N + 2 - m => k \in S}
  <1>1. 0 \in T
    OBVIOUS
  <1>2. ASSUME NEW m \in 0..(N + 1) - 1, m \in T PROVE m + 1 \in T
    <2>1. \A n \in B : n >= N + 2 - m => n \in S
      BY <1>2
    <2>2. ASSUME NEW k \in B, k >= N + 2 - (m + 1) PROVE k \in S
      <3>1. \A n \in B : k < n => n >= N + 2 - m
        BY <2>2
      <3> QED
        BY <2>1, <3>1
    <2>3. m + 1 \in 0..N + 1
      OBVIOUS
    <2> QED
      BY <2>2, <2>3
  <1>3. 0..N + 1 \subseteq T
    <2>1. N + 1 \in Nat
      OBVIOUS
    <2> HIDE DEF T
    <2> QED
      BY <1>1, <1>2, <2>1, InductionUpTo
  <1>4. N + 1 \in T
    <2>1. N + 1 \in 0..N + 1
      OBVIOUS
    <2> HIDE DEF T
    <2> QED
      BY <1>3, <2>1
  <1> QED
    BY <1>4

\* The function of find_invalid.
Invalids(s, loop) ==
  \A it \in 1..Len(s) + 1 :
    loop[it] = IF it > Len(s) THEN it
               ELSE IF validate_next(s, it).err = "UTF8_OK" THEN loop[validate_next(s, it).it]
               ELSE validate_next(s, it).it

\* The function that find_invalid chooses.
LEMMA FindInvalidLoop ==
  ASSUME NEW s \in Seq(Octet)
  PROVE  \E loop : Invalids(s, loop) /\ find_invalid(s) = loop[1]
  <1> DEFINE N == Len(s) + 1
             D == 1..N
             V == D
             Value(g, it) ==
               IF it > Len(s) THEN it
               ELSE IF validate_next(s, it).err = "UTF8_OK" THEN g[validate_next(s, it).it]
               ELSE validate_next(s, it).it
             step == [it \in D |-> [g \in [D -> V] |-> Value(g, it)]]
             rank == [it \in D |-> N - it]
  <1>0. ASSUME NEW it \in D, it <= Len(s)
        PROVE  /\ validate_next(s, it).it \in D
               /\ validate_next(s, it).err = "UTF8_OK" => validate_next(s, it).it > it
    <2>1. it \in 1..Len(s)
      BY <1>0
    <2>2. CASE validate_next(s, it).err = "UTF8_OK"
      <3>1. validate_next(s, it).it \in it + 1..it + 4 /\ validate_next(s, it).it <= Len(s) + 1
        BY <2>1, <2>2, NextTypes
      <3> QED
        BY <2>1, <3>1
    <2>3. CASE validate_next(s, it).err # "UTF8_OK"
      BY <2>1, <2>3, NextTypes
    <2> QED
      BY <2>2, <2>3
  <1>2. step \in [D -> [[D -> V] -> V]]
    <2>1. ASSUME NEW it \in D, NEW g \in [D -> V]
          PROVE  Value(g, it) \in V
      <3> HIDE DEF D
      <3>1. CASE it > Len(s)
        BY <3>1
      <3>2. CASE ~(it > Len(s))
        <4>1. it <= Len(s)
          BY <3>2 DEF D
        <4>2. validate_next(s, it).it \in D
          BY <1>0, <4>1
        <4> QED
          BY <3>2, <4>2
      <3> QED
        BY <3>1, <3>2
    <2> HIDE DEF V, D, Value
    <2> QED
      BY <2>1
  <1>3. \A it \in D : \A g, h \in [D -> V] :
          (\A e \in D : rank[e] < rank[it] => g[e] = h[e]) => step[it][g] = step[it][h]
    <2> SUFFICES ASSUME NEW it \in D, NEW g \in [D -> V], NEW h \in [D -> V],
                        \A e \in D : rank[e] < rank[it] => g[e] = h[e]
                 PROVE  step[it][g] = step[it][h]
      BY Zenon
    <2> DEFINE n == validate_next(s, it).it
    <2>1. ASSUME it <= Len(s), validate_next(s, it).err = "UTF8_OK" PROVE g[n] = h[n]
      <3>1. n \in D /\ n > it
        BY <1>0, <2>1
      <3> HIDE DEF n
      <3>2. rank[n] < rank[it]
        BY <3>1
      <3> HIDE DEF rank, D
      <3> QED
        BY <3>1, <3>2
    <2>2. it > Len(s) \/ it <= Len(s)
      OBVIOUS
    <2>3. Value(g, it) = Value(h, it)
      BY <2>1, <2>2
    <2> HIDE DEF V, rank, D, Value, n
    <2> QED
      BY <2>3
  <1>4. PICK f \in [D -> V] : \A it \in D : f[it] = step[it][f]
    <2>1. N \in Nat /\ 1 \in V
      OBVIOUS
    <2>2. rank \in [D -> 0..N]
      OBVIOUS
    <2> HIDE DEF step, rank, V, D
    <2>3. Ranked(D, V, N, rank, step)
      BY <1>2, <1>3, <2>1, <2>2 DEF Ranked
    <2> QED
      BY <2>3, Recursion DEF Solves
  <1> DEFINE Equation(loop) ==
        loop = [it \in 1..(Len(s) + 1) |->
                  IF it > Len(s) THEN it
                  ELSE LET n == validate_next(s, it)
                       IN IF n.err = "UTF8_OK" THEN loop[n.it] ELSE n.it]
             chosen == CHOOSE loop : Equation(loop)
  <1>5. Equation(f)
    <2>1. \A it \in D : f[it] = Value(f, it)
      <3> HIDE DEF V, D, Value
      <3> QED
        BY <1>4
    <2> QED
      BY <1>4, <2>1
  <1>6. Equation(chosen)
    <2> HIDE DEF Equation
    <2> QED
      BY <1>5
  <1>7. find_invalid(s) = chosen[1]
    BY DEF find_invalid
  <1> HIDE DEF chosen
  <1>8. chosen = [it \in D |-> Value(chosen, it)]
    BY <1>6
  <1>9. Invalids(s, chosen)
    <2>1. \A it \in D : chosen[it] = Value(chosen, it)
      <3> HIDE DEF D, Value, Equation
      <3> QED
        BY <1>8
    <2> HIDE DEF Equation, step, rank
    <2> QED
      BY <2>1 DEF Invalids
  <1> QED
    BY <1>7, <1>9

\* find_invalid finds the last boundary.
LEMMA InvalidIsLast ==
  ASSUME NEW s \in Seq(Octet)
  PROVE  /\ find_invalid(s) \in Boundaries(s)
         /\ \A n \in Boundaries(s) : n <= find_invalid(s)
  <1> DEFINE B == Boundaries(s)
             IsLast(i) == i \in B /\ \A n \in B : n <= i
  <1>1. B \subseteq 1..Len(s) + 1 /\ 1 \in B /\ Len(s) \in Nat
    BY BoundaryOf
  <1>2. PICK loop : Invalids(s, loop) /\ find_invalid(s) = loop[1]
    BY FindInvalidLoop
  <1> DEFINE S == {k \in B : IsLast(loop[k])}
  <1>3. ASSUME NEW k \in B, \A n \in B : k < n => n \in S PROVE k \in S
    <2> DEFINE v == validate_next(s, k)
    <2>0. k \in 1..Len(s) + 1
      BY <1>1
    <2>1. CASE k > Len(s)
      <3>1. loop[k] = k
        BY <1>2, <2>0, <2>1 DEF Invalids
      <3>2. \A n \in B : n <= k
        BY <1>1, <2>0, <2>1
      <3> HIDE DEF B
      <3> QED
        BY <3>1, <3>2
    <2>2. CASE k <= Len(s) /\ v.err = "UTF8_OK"
      <3>1. v.it \in B /\ k < v.it
        BY <2>2, BoundaryStep
      <3>2. loop[k] = loop[v.it]
        BY <1>2, <2>0, <2>2 DEF Invalids
      <3>3. v.it \in S
        BY <1>3, <3>1
      <3> HIDE DEF v, B
      <3> QED
        BY <3>2, <3>3
    <2>3. CASE k <= Len(s) /\ v.err # "UTF8_OK"
      <3>1. k \in 1..Len(s)
        BY <2>0, <2>3
      <3>2. loop[k] = v.it
        BY <1>2, <2>0, <2>3 DEF Invalids
      <3>3. v.it = k
        BY <2>3, <3>1, NextTypes
      <3>4. \A n \in B : ~(k < n)
        <4> TAKE n \in B
        <4> SUFFICES ASSUME k < n PROVE FALSE
          OBVIOUS
        <4> QED
          BY <2>3, BoundaryChain
      <3>5. \A n \in B : n <= k
        BY <1>1, <2>0, <3>4
      <3> HIDE DEF v, B
      <3> QED
        BY <3>2, <3>3, <3>5
    <2> HIDE DEF S, v
    <2> QED
      BY <2>0, <2>1, <2>2, <2>3
  <1>4. B \subseteq S
    <2> HIDE DEF S, B
    <2> QED
      BY <1>1, <1>3, BoundariesDown
  <1> HIDE DEF B
  <1>5. IsLast(loop[1])
    BY <1>1, <1>4
  <1> QED
    BY <1>2, <1>5 DEF B

\* What utf8to32 returns.
Texts32 == [cps : Seq(Nat), err : Errors]

\* The function of utf8to32.
Converts(s, loop) ==
  /\ loop \in [1..Len(s) + 1 -> Texts32]
  /\ \A it \in 1..Len(s) + 1 :
       loop[it] =
         IF it > Len(s) THEN [cps |-> <<>>, err |-> "UTF8_OK"]
         ELSE IF validate_next(s, it).err # "UTF8_OK"
              THEN [cps |-> <<>>, err |-> validate_next(s, it).err]
         ELSE [cps |-> <<validate_next(s, it).cp>> \o loop[validate_next(s, it).it].cps,
               err |-> loop[validate_next(s, it).it].err]

\* A record with its code points replaced.
LEMMA CpsReplaced ==
  ASSUME NEW r \in Texts32, NEW x
  PROVE  [r EXCEPT !.cps = x] = [cps |-> x, err |-> r.err]
  <1>1. r = [cps |-> r.cps, err |-> r.err]
    BY DEF Texts32
  <1> DEFINE a == r.cps
             b == r.err
  <1>2. r = [cps |-> a, err |-> b]
    BY <1>1
  <1> HIDE DEF a, b
  <1>3. [r EXCEPT !.cps = x] = [cps |-> x, err |-> b]
    BY <1>2
  <1> QED
    BY <1>3 DEF b

\* The function that utf8to32 chooses.
LEMMA Utf8to32Loop ==
  ASSUME NEW s \in Seq(Octet)
  PROVE  \E loop : Converts(s, loop) /\ utf8to32(s) = loop[1]
  <1> DEFINE N == Len(s) + 1
             D == 1..N
             V == Texts32
             At(it) == validate_next(s, it)
             Value(g, it) ==
               IF it > Len(s) THEN [cps |-> <<>>, err |-> "UTF8_OK"]
               ELSE IF At(it).err # "UTF8_OK" THEN [cps |-> <<>>, err |-> At(it).err]
               ELSE [cps |-> <<At(it).cp>> \o g[At(it).it].cps, err |-> g[At(it).it].err]
             step == [it \in D |-> [g \in [D -> V] |-> Value(g, it)]]
             rank == [it \in D |-> N - it]
  <1>0. ASSUME NEW it \in D, it <= Len(s)
        PROVE  /\ At(it).err \in Errors
               /\ At(it).err = "UTF8_OK" =>
                    At(it).it \in D /\ At(it).it > it /\ At(it).cp \in Nat
    <2>1. it \in 1..Len(s)
      BY <1>0
    <2>2. CASE At(it).err = "UTF8_OK"
      <3>1. /\ At(it).it \in it + 1..it + 4 /\ At(it).it <= Len(s) + 1
            /\ At(it).cp \in Nat
        BY <2>1, <2>2, NextTypes
      <3>2. At(it).it \in D /\ At(it).it > it
        BY <2>1, <3>1
      <3> QED
        BY <2>2, <3>1, <3>2 DEF Errors
    <2>3. CASE At(it).err # "UTF8_OK"
      BY <2>1, <2>3, NextTypes
    <2> QED
      BY <2>2, <2>3
  <1>1. \A g : \A it \in D : Value(g, it) =
               IF it > Len(s) THEN [cps |-> <<>>, err |-> "UTF8_OK"]
               ELSE IF At(it).err # "UTF8_OK" THEN [cps |-> <<>>, err |-> At(it).err]
               ELSE [cps |-> <<At(it).cp>> \o g[At(it).it].cps, err |-> g[At(it).it].err]
    OBVIOUS
  <1> HIDE DEF At
  <1>2. ASSUME NEW it \in D, NEW g \in [D -> V]
        PROVE  Value(g, it) \in V
    <2> HIDE DEF D
    <2>1. CASE it > Len(s)
      BY <2>1 DEF Texts32, Errors
    <2>2. CASE ~(it > Len(s)) /\ At(it).err # "UTF8_OK"
      <3>1. it <= Len(s)
        BY <2>2 DEF D
      <3>2. At(it).err \in Errors
        BY <1>0, <3>1
      <3> QED
        BY <2>2, <3>2 DEF Texts32
    <2>3. CASE ~(it > Len(s)) /\ At(it).err = "UTF8_OK"
      <3>1. it <= Len(s)
        BY <2>3 DEF D
      <3>2. At(it).it \in D /\ At(it).cp \in Nat
        BY <1>0, <2>3, <3>1
      <3>3. g[At(it).it] \in V
        BY <3>2
      <3>4. g[At(it).it].cps \in Seq(Nat) /\ g[At(it).it].err \in Errors
        BY <3>3 DEF Texts32
      <3>5. <<At(it).cp>> \o g[At(it).it].cps \in Seq(Nat)
        BY <3>2, <3>4
      <3> QED
        BY <2>3, <3>4, <3>5 DEF Texts32
    <2> HIDE DEF Value
    <2> QED
      BY <2>1, <2>2, <2>3
  <1>3. step \in [D -> [[D -> V] -> V]]
    <2> HIDE DEF V, D, Value
    <2> QED
      BY <1>2
  <1>4. \A it \in D : \A g, h \in [D -> V] :
          (\A e \in D : rank[e] < rank[it] => g[e] = h[e]) => step[it][g] = step[it][h]
    <2> SUFFICES ASSUME NEW it \in D, NEW g \in [D -> V], NEW h \in [D -> V],
                        \A e \in D : rank[e] < rank[it] => g[e] = h[e]
                 PROVE  step[it][g] = step[it][h]
      BY Zenon
    <2> DEFINE n == At(it).it
    <2>1. ASSUME it <= Len(s), At(it).err = "UTF8_OK" PROVE g[n] = h[n]
      <3>1. n \in D /\ n > it
        BY <1>0, <2>1
      <3> HIDE DEF n
      <3>2. rank[n] < rank[it]
        BY <3>1
      <3> HIDE DEF rank, D
      <3> QED
        BY <3>1, <3>2
    <2>2. it > Len(s) \/ it <= Len(s)
      OBVIOUS
    <2>3. Value(g, it) = Value(h, it)
      BY <2>1, <2>2
    <2> HIDE DEF V, rank, D, Value, n
    <2> QED
      BY <2>3
  <1>5. PICK f \in [D -> V] : \A it \in D : f[it] = step[it][f]
    <2>1. N \in Nat /\ [cps |-> <<>>, err |-> "UTF8_OK"] \in V
      BY DEF Texts32, Errors
    <2>2. rank \in [D -> 0..N]
      OBVIOUS
    <2> HIDE DEF step, rank, V, D
    <2>3. Ranked(D, V, N, rank, step)
      BY <1>3, <1>4, <2>1, <2>2 DEF Ranked
    <2> QED
      BY <2>3, Recursion DEF Solves
  <1> DEFINE Equation(loop) ==
        loop = [it \in 1..(Len(s) + 1) |->
                  IF it > Len(s) THEN [cps |-> <<>>, err |-> "UTF8_OK"]
                  ELSE LET n == validate_next(s, it)
                       IN IF n.err # "UTF8_OK" THEN [cps |-> <<>>, err |-> n.err]
                          ELSE LET rest == loop[n.it]
                               IN [rest EXCEPT !.cps = <<n.cp>> \o @]]
             chosen == CHOOSE loop : Equation(loop)
             Value2(g, it) ==
               IF it > Len(s) THEN [cps |-> <<>>, err |-> "UTF8_OK"]
               ELSE IF At(it).err # "UTF8_OK" THEN [cps |-> <<>>, err |-> At(it).err]
               ELSE [g[At(it).it] EXCEPT !.cps = <<At(it).cp>> \o @]
  <1>6. \A g : Equation(g) <=> g = [it \in D |-> Value2(g, it)]
    BY DEF At
  <1>7. ASSUME NEW g, NEW it \in D, ASSUME it <= Len(s), At(it).err = "UTF8_OK"
                                    PROVE g[At(it).it] \in V
        PROVE  Value2(g, it) = Value(g, it)
    <2>1. CASE it > Len(s)
      BY <2>1
    <2>2. CASE ~(it > Len(s)) /\ At(it).err # "UTF8_OK"
      BY <2>2
    <2>3. CASE ~(it > Len(s)) /\ At(it).err = "UTF8_OK"
      <3>1. g[At(it).it] \in V
        BY <1>7, <2>3
      <3> DEFINE r == g[At(it).it]
                 c == <<At(it).cp>>
      <3>3. [r EXCEPT !.cps = c \o @] = [cps |-> c \o r.cps, err |-> r.err]
        <4> HIDE DEF r, c
        <4> QED
          BY <3>1, CpsReplaced DEF r
      <3> QED
        BY <2>3, <3>3
    <2> HIDE DEF Value, Value2
    <2> QED
      BY <2>1, <2>2, <2>3
  <1> HIDE DEF Value, Value2
  <1>8. Equation(f)
    <2>1. \A it \in D : f[it] = Value(f, it)
      <3> HIDE DEF V, D
      <3> QED
        BY <1>5
    <2>2. ASSUME NEW it \in D PROVE Value2(f, it) = Value(f, it)
      <3>1. ASSUME it <= Len(s), At(it).err = "UTF8_OK" PROVE f[At(it).it] \in V
        <4>1. At(it).it \in D
          BY <1>0, <3>1
        <4> HIDE DEF V, D
        <4> QED
          BY <1>5, <4>1
      <3> HIDE DEF V, D
      <3> QED
        BY <1>7, <3>1
    <2>3. f = [it \in D |-> Value2(f, it)]
      <3> HIDE DEF V, D
      <3> QED
        BY <1>5, <2>1, <2>2
    <2> HIDE DEF Equation
    <2> QED
      BY <1>6, <2>3
  <1>9. Equation(chosen)
    <2> HIDE DEF Equation
    <2> QED
      BY <1>8
  <1>10. utf8to32(s) = chosen[1]
    BY DEF utf8to32
  <1> HIDE DEF chosen
  <1>11. chosen = [it \in D |-> Value2(chosen, it)]
    <2> HIDE DEF Equation
    <2> QED
      BY <1>6, <1>9
  <1> HIDE DEF Equation, step, rank
  <1> DEFINE T == {it \in D : chosen[it] \in V /\ chosen[it] = Value(chosen, it)}
  <1>12. ASSUME NEW it \in D, \A n \in D : it < n => n \in T PROVE it \in T
    <2>1. ASSUME it <= Len(s), At(it).err = "UTF8_OK" PROVE chosen[At(it).it] \in V
      <3>1. At(it).it \in D /\ it < At(it).it
        BY <1>0, <2>1
      <3> HIDE DEF D, V
      <3> QED
        BY <1>12, <3>1
    <2>2. chosen[it] = Value(chosen, it)
      <3> HIDE DEF D, V
      <3> QED
        BY <1>7, <1>11, <2>1
    <2>3. Value(chosen, it) \in V
      <3> DEFINE g == [n \in D |-> IF n > it THEN chosen[n] ELSE [cps |-> <<>>, err |-> "UTF8_OK"]]
      <3>1. g \in [D -> V]
        <4>1. [cps |-> <<>>, err |-> "UTF8_OK"] \in V
          BY DEF Texts32, Errors
        <4>2. \A n \in D : n > it => chosen[n] \in V
          BY <1>12
        <4> HIDE DEF D, V
        <4> QED
          BY <4>1, <4>2
      <3>2. Value(g, it) = Value(chosen, it)
        <4>1. ASSUME it <= Len(s), At(it).err = "UTF8_OK"
              PROVE  g[At(it).it] = chosen[At(it).it]
          <5>1. At(it).it \in D /\ it < At(it).it
            BY <1>0, <4>1
          <5>2. At(it).it > it
            BY <5>1
          <5> HIDE DEF D, V
          <5> QED
            BY <5>1, <5>2
        <4>2. it > Len(s) \/ it <= Len(s)
          OBVIOUS
        <4> HIDE DEF g
        <4> QED
          BY <4>1, <4>2 DEF Value
      <3> HIDE DEF g, D, V
      <3> QED
        BY <1>2, <3>1, <3>2
    <2> HIDE DEF D, V
    <2> QED
      BY <2>2, <2>3
  <1>13. D \subseteq T
    <2>1. D \in SUBSET (1..Len(s) + 1) /\ Len(s) \in Nat
      OBVIOUS
    <2> HIDE DEF T, D
    <2> QED
      BY <1>12, <2>1, BoundariesDown
  <1>14. Converts(s, chosen)
    <2>1. chosen \in [D -> V]
      <3> HIDE DEF D, V
      <3> QED
        BY <1>11, <1>13
    <2>2. \A it \in D : chosen[it] = Value(chosen, it)
      <3> HIDE DEF D, V
      <3> QED
        BY <1>13
    <2> QED
      BY <2>1, <2>2 DEF Converts, Value, At
  <1> QED
    BY <1>10, <1>14

\* What utf8to32 returns.
LEMMA Utf8to32Types ==
  ASSUME NEW s \in Seq(Octet)
  PROVE  utf8to32(s) \in Texts32
  <1>1. PICK loop : Converts(s, loop) /\ utf8to32(s) = loop[1]
    BY Utf8to32Loop
  <1>2. 1 \in 1..Len(s) + 1
    OBVIOUS
  <1> QED
    BY <1>1, <1>2 DEF Converts

\* The function where the decoder goes on.
LEMMA ConvertsOn ==
  ASSUME NEW s, NEW loop, Converts(s, loop), NEW k \in 1..Len(s) + 1, ~(k > Len(s)),
         validate_next(s, k).err = "UTF8_OK"
  PROVE  loop[k] = [cps |-> <<validate_next(s, k).cp>> \o loop[validate_next(s, k).it].cps,
                    err |-> loop[validate_next(s, k).it].err]
  BY DEF Converts

\* The same where the decoder fails.
LEMMA ConvertsStops ==
  ASSUME NEW s, NEW loop, Converts(s, loop), NEW k \in 1..Len(s) + 1, ~(k > Len(s)),
         validate_next(s, k).err # "UTF8_OK"
  PROVE  loop[k] = [cps |-> <<>>, err |-> validate_next(s, k).err]
  BY DEF Converts

\* utf8to32 returns one code point for each boundary but the last, and no
\* error, exactly where the last one is the end of the text.
LEMMA Utf8to32Counts ==
  ASSUME NEW s \in Seq(Octet)
  PROVE  /\ utf8to32(s).err = "UTF8_OK" <=> Len(s) + 1 \in Boundaries(s)
         /\ Len(s) + 1 \in Boundaries(s) =>
              Len(utf8to32(s).cps) = Cardinality(Boundaries(s)) - 1
  <1> DEFINE B == Boundaries(s)
             N == Len(s) + 1
             Behind(k) == {j \in B : j >= k}
  <1>1. B \subseteq 1..N /\ 1 \in B /\ Len(s) \in Nat
    BY BoundaryOf
  <1>2. PICK loop : Converts(s, loop) /\ utf8to32(s) = loop[1]
    BY Utf8to32Loop
  <1>3. \A k \in 1..N : IsFiniteSet(Behind(k)) /\ Cardinality(Behind(k)) \in Nat
    <2>1. IsFiniteSet(1..N)
      BY <1>1, FS_Interval
    <2> TAKE k \in 1..N
    <2>2. Behind(k) \subseteq 1..N
      BY <1>1
    <2> HIDE DEF Behind
    <2> QED
      BY <2>1, <2>2, FS_Subset, FS_CardinalityType
  <1>4. \A k \in 1..N : loop[k] \in Texts32
    BY <1>2 DEF Converts
  <1> DEFINE Fine(k) == /\ loop[k].err = "UTF8_OK" <=> N \in B
                        /\ N \in B => Len(loop[k].cps) + 1 = Cardinality(Behind(k))
             S == {k \in B : Fine(k)}
  <1>5. ASSUME NEW k \in B, \A n \in B : k < n => n \in S PROVE k \in S
    <2> DEFINE v == validate_next(s, k)
    <2>0. k \in 1..N
      BY <1>1
    <2>1. CASE k > Len(s)
      <3>1. k = N
        BY <2>0, <2>1
      <3>2. loop[k] = [cps |-> <<>>, err |-> "UTF8_OK"]
        BY <1>2, <2>0, <2>1 DEF Converts
      <3>3. Behind(k) = {N}
        BY <1>1, <3>1
      <3>4. Cardinality({N}) = 1
        BY FS_Singleton
      <3>5. Fine(k)
        <4> HIDE DEF B, Behind, N
        <4> QED
          BY <3>1, <3>2, <3>3, <3>4
      <3> HIDE DEF Fine, B
      <3> QED
        BY <3>5
    <2>2. CASE k <= Len(s) /\ v.err = "UTF8_OK"
      <3>0. k \in 1..Len(s)
        BY <2>0, <2>2
      <3>1. v.it \in B /\ k < v.it
        BY <2>2, BoundaryStep
      <3>2. v.cp \in Nat
        BY <2>2, <3>0, NextTypes
      <3>3. Fine(v.it)
        <4> HIDE DEF v, B, Fine
        <4> QED
          BY <1>5, <3>1
      <3>4. loop[k] = [cps |-> <<v.cp>> \o loop[v.it].cps, err |-> loop[v.it].err]
        <4>1. k \in 1..Len(s) + 1 /\ Len(s) \in Nat /\ Converts(s, loop)
          BY <1>1, <1>2, <2>0
        <4>2. ~(k > Len(s)) /\ validate_next(s, k).err = "UTF8_OK"
          BY <1>1, <2>0, <2>2
        <4> HIDE DEF v, Behind, B, Fine, S, N
        <4>3. loop[k] = [cps |-> <<validate_next(s, k).cp>> \o loop[validate_next(s, k).it].cps,
                         err |-> loop[validate_next(s, k).it].err]
          BY <4>1, <4>2, ConvertsOn
        <4> QED
          BY <4>3 DEF v
      <3>5. v.it \in 1..N
        <4> HIDE DEF v
        <4> QED
          BY <1>1, <3>1
      <3>6. loop[v.it].cps \in Seq(Nat)
        BY <1>4, <3>5 DEF Texts32
      <3>7. \A n \in B : k < n => v.it <= n
        BY BoundaryChain
      <3>8. Behind(k) = Behind(v.it) \cup {k} /\ k \notin Behind(v.it)
        <4> DEFINE i == v.it
        <4>1. i \in B /\ k < i /\ i \in 1..N /\ \A n \in B : k < n => i <= n
          BY <3>1, <3>5, <3>7
        <4> HIDE DEF v, i, B, N
        <4>2. \A n \in B : n \in Int
          BY <1>1 DEF N
        <4>3. \A n \in B : n >= k <=> n = k \/ n >= i
          BY <2>0, <4>1, <4>2
        <4>4. Behind(k) = Behind(i) \cup {k} /\ k \notin Behind(i)
          <5>1. i \in Int /\ k \in Int /\ ~(k >= i) /\ k >= k
            BY <4>1, <4>2
          <5> QED
            BY <4>1, <4>3, <5>1
        <4> QED
          BY <4>4 DEF i
      <3>9. Cardinality(Behind(k)) = Cardinality(Behind(v.it)) + 1
        <4>1. IsFiniteSet(Behind(v.it))
          BY <1>3, <3>5
        <4> HIDE DEF Behind, v
        <4> QED
          BY <3>8, <4>1, FS_AddElement
      <3>10. Len(<<v.cp>> \o loop[v.it].cps) = Len(loop[v.it].cps) + 1
        <4> HIDE DEF v
        <4> QED
          BY <3>2, <3>6
      <3>11. Fine(k)
        <4>1. Cardinality(Behind(v.it)) \in Nat /\ Len(loop[v.it].cps) \in Nat
          BY <1>3, <3>5, <3>6
        <4> HIDE DEF v, Behind, B, N
        <4> QED
          BY <3>3, <3>4, <3>9, <3>10, <4>1
      <3> HIDE DEF Fine, v, B
      <3> QED
        BY <3>11
    <2>3. CASE k <= Len(s) /\ v.err # "UTF8_OK"
      <3>1. loop[k] = [cps |-> <<>>, err |-> v.err]
        <4>1. ~(k > Len(s))
          BY <1>1, <2>0, <2>3
        <4> QED
          BY <1>2, <2>0, <2>3, <4>1, ConvertsStops
      <3>2. N \notin B
        <4> SUFFICES ASSUME N \in B PROVE FALSE
          OBVIOUS
        <4>1. k < N
          BY <2>0, <2>3
        <4> QED
          BY <2>3, <4>1, BoundaryChain
      <3>3. Fine(k)
        <4> HIDE DEF v, B, N, Behind
        <4> QED
          BY <2>3, <3>1, <3>2
      <3> HIDE DEF Fine, v, B
      <3> QED
        BY <3>3
    <2> HIDE DEF S, v
    <2> QED
      BY <2>0, <2>1, <2>2, <2>3
  <1>6. B \subseteq S
    <2> HIDE DEF S, B
    <2> QED
      BY <1>1, <1>5, BoundariesDown
  <1>7. Fine(1)
    <2> HIDE DEF Fine, B
    <2> QED
      BY <1>1, <1>6
  <1>8. Behind(1) = B
    BY <1>1
  <1>9. Cardinality(B) \in Nat /\ Len(loop[1].cps) \in Nat
    <2>1. 1 \in 1..N
      BY <1>1
    <2>2. loop[1].cps \in Seq(Nat)
      BY <1>4, <2>1 DEF Texts32
    <2> HIDE DEF Behind
    <2> QED
      BY <1>3, <1>8, <2>1, <2>2
  <1> HIDE DEF Behind, B
  <1>10. /\ utf8to32(s).err = "UTF8_OK" <=> N \in B
         /\ N \in B => Len(utf8to32(s).cps) = Cardinality(B) - 1
    BY <1>2, <1>7, <1>8, <1>9
  <1> QED
    BY <1>10 DEF B

\* What is in front of the first error has the same boundaries.
LEMMA PrefixBoundaries ==
  ASSUME NEW s \in Seq(Octet)
  PROVE  LET t == SubSeq(s, 1, find_invalid(s) - 1)
         IN  /\ t \in Seq(Octet) /\ Len(t) = find_invalid(s) - 1
             /\ Boundaries(t) = Boundaries(s) /\ Len(t) + 1 \in Boundaries(t)
  <1> DEFINE m == find_invalid(s)
             t == SubSeq(s, 1, m - 1)
             B == Boundaries(s)
             C == Boundaries(t)
  <1>1. /\ B \subseteq 1..Len(s) + 1 /\ 1 \in B /\ Len(s) \in Nat
        /\ \A n \in 2..Len(s) + 1 :
             n \in B <=> \E k \in B : k < n /\ n - k <= 4 /\ WellFormed(SubSeq(s, k, n - 1))
    BY BoundaryOf
  <1>2. m \in B /\ \A n \in B : n <= m
    BY InvalidIsLast
  <1>3. m \in 1..Len(s) + 1
    BY <1>1, <1>2
  <1>4. t \in Seq(Octet) /\ Len(t) = m - 1 /\ \A k \in 1..m - 1 : t[k] = s[k]
    <2> HIDE DEF m
    <2> QED
      BY <1>3
  <1>5. ASSUME NEW k \in 1..m, NEW n \in 1..m, k < n
        PROVE  SubSeq(t, k, n - 1) = SubSeq(s, k, n - 1)
    <2> HIDE DEF m, t
    <2> QED
      BY <1>3, <1>4, <1>5
  <1>6. /\ C \subseteq 1..m /\ 1 \in C
        /\ \A n \in 2..m :
             n \in C <=> \E k \in C : k < n /\ n - k <= 4 /\ WellFormed(SubSeq(t, k, n - 1))
    <2>1. /\ C \subseteq 1..Len(t) + 1 /\ 1 \in C
          /\ \A n \in 2..Len(t) + 1 :
               n \in C <=> \E k \in C : k < n /\ n - k <= 4 /\ WellFormed(SubSeq(t, k, n - 1))
      <3> HIDE DEF t
      <3> QED
        BY <1>4, BoundaryOf
    <2>2. Len(t) + 1 = m
      <3> HIDE DEF t, m
      <3> QED
        BY <1>3, <1>4
    <2> HIDE DEF t, m, C
    <2> QED
      BY <2>1, <2>2
  <1> HIDE DEF B, C, m, t
  <1> DEFINE Same(i) == \A n \in 1..i + 1 : n \in C <=> n \in B
             S == {i \in 0..m - 1 : Same(i)}
  <1>7. 0 \in S
    BY <1>1, <1>3, <1>6
  <1>8. ASSUME NEW i \in 0..(m - 1) - 1, i \in S PROVE i + 1 \in S
    <2>1. Same(i) /\ i + 2 \in 2..m /\ i + 2 \in 2..Len(s) + 1 /\ i + 1 \in 0..m - 1
      BY <1>3, <1>8
    <2> DEFINE n == i + 2
    <2>2. \A k \in 1..m : k < n => (k \in C <=> k \in B)
      BY <2>1
    <2>3. \A k \in 1..m : k < n => SubSeq(t, k, n - 1) = SubSeq(s, k, n - 1)
      <3>1. n \in 1..m
        BY <2>1
      <3> HIDE DEF n
      <3> QED
        BY <1>5, <3>1
    <2>4. \A k \in B : k <= m
      BY <1>2
    <2>5. \A k \in B : k \in 1..m
      BY <1>1, <1>3, <2>4
    <2>6. n \in C <=> \E k \in C : k < n /\ n - k <= 4 /\ WellFormed(SubSeq(t, k, n - 1))
      BY <1>6, <2>1
    <2>7. n \in B <=> \E k \in B : k < n /\ n - k <= 4 /\ WellFormed(SubSeq(s, k, n - 1))
      BY <1>1, <2>1
    <2>8. n \in C <=> n \in B
      <3> HIDE DEF n
      <3> QED
        BY <1>6, <2>2, <2>3, <2>5, <2>6, <2>7
    <2>9. Same(i + 1)
      <3>1. \A j \in 1..(i + 1) + 1 : j \in 1..i + 1 \/ j = n
        BY <2>1
      <3> HIDE DEF n
      <3> QED
        BY <2>1, <2>8, <3>1
    <2> HIDE DEF Same
    <2> QED
      BY <2>1, <2>9
  <1>9. Same(m - 1)
    <2>1. m - 1 \in Nat /\ m - 1 \in 0..m - 1
      BY <1>3
    <2> HIDE DEF S
    <2>2. 0..m - 1 \subseteq S
      BY <1>7, <1>8, <2>1, InductionUpTo
    <2>3. m - 1 \in S
      BY <2>1, <2>2
    <2> HIDE DEF Same
    <2> QED
      BY <2>3 DEF S
  <1>10. C = B
    <2>1. \A n \in 1..m : n \in C <=> n \in B
      BY <1>3, <1>9
    <2>2. \A n \in B : n \in 1..m
      BY <1>1, <1>2, <1>3
    <2> QED
      BY <1>6, <2>1, <2>2
  <1>11. Len(t) + 1 \in C
    <2>1. Len(t) + 1 = m
      BY <1>3, <1>4
    <2> QED
      BY <1>2, <1>10, <2>1
  <1> QED
    BY <1>4, <1>10, <1>11 DEF t, m, B, C

-----------------------------------------------------------------------------
(* The table.                                                              *)

\* The code points, but for U+2047.
CodePoints == {cp \in Nat : is_code_point_valid(cp) /\ cp # 8263}

\* The codes of the table are among them.
LEMMA Codes ==
  \A k \in 1..255 : EbuLatin[k] \in CodePoints
  <1> DEFINE Code == {cp \in Nat : cp <= 8364 /\ cp # 8263}
  <1>1. EbuLatin \in [1..255 -> Code]
    BY SMTT(60) DEF EbuLatin
  <1>2. Code \subseteq CodePoints
    BY SMT DEF is_code_point_valid, CODE_POINT_MAX, is_surrogate, CodePoints
  <1> HIDE DEF Code
  <1> QED
    BY <1>1, <1>2

\* The constructor decodes the entries to the codes that they are made from.
LEMMA ConversionTable ==
  \A k \in 1..255 : /\ m_conversion_table[k] = EbuLatin[k]
                    /\ utf8_encoded_EBU_Latin[k] = append(EbuLatin[k])
  <1> TAKE k \in 1..255
  <1> DEFINE cp == EbuLatin[k]
  <1>1. cp \in Nat /\ is_code_point_valid(cp)
    <2>1. cp \in CodePoints
      BY Codes
    <2> HIDE DEF cp
    <2> QED
      BY <2>1 DEF CodePoints
  <1>2. utf8_encoded_EBU_Latin[k] = append(cp)
    BY DEF utf8_encoded_EBU_Latin
  <1>3. m_conversion_table[k] = validate_next(utf8_encoded_EBU_Latin[k], 1).cp
    BY DEF m_conversion_table
  <1> HIDE DEF cp
  <1>4. validate_next(append(cp), 1) =
          [err |-> "UTF8_OK", it |-> Len(append(cp)) + 1, cp |-> cp]
    BY <1>1, AppendDecodes
  <1>5. m_conversion_table[k] = cp
    BY <1>2, <1>3, <1>4
  <1> QED
    BY <1>2, <1>5 DEF cp

\* A set of natural numbers has a least one.
LEMMA Least ==
  ASSUME NEW S \in SUBSET Nat, S # {}
  PROVE  Min(S) \in S /\ \A n \in S : Min(S) <= n
  <1> DEFINE None == {n \in Nat : \A m \in S : n <= m}
  <1>1. PICK m \in S : m + 1 \notin None
    <2>1. PICK m \in S : m \in Nat
      OBVIOUS
    <2>2. ~(m + 1 <= m)
      BY <2>1
    <2> QED
      BY <2>1, <2>2
  <1>2. 0 \in None
    OBVIOUS
  <1>3. None # Nat
    BY <1>1
  <1>4. PICK n \in None : n + 1 \notin None
    <2> HIDE DEF None
    <2>1. None \in SUBSET Nat
      BY DEF None
    <2> QED
      BY <1>2, <1>3, <2>1, Induction
  <1>5. n \in S /\ \A k \in S : n <= k
    <2>1. PICK k \in S : ~(n + 1 <= k)
      BY <1>4
    <2>2. n <= k /\ n \in Nat /\ k \in Nat
      BY <1>4, <2>1
    <2>3. n = k
      BY <2>1, <2>2
    <2> QED
      BY <1>4, <2>3
  <1> QED
    BY <1>5 DEF Min

\* A character is a byte, its place in the table where it has one.
LEMMA EbuOfByte ==
  ASSUME NEW cp
  PROVE  /\ EbuOf(cp) \in 1..255
         /\ (\E k \in 1..255 : EbuLatin[k] = cp) => EbuLatin[EbuOf(cp)] = cp
         /\ (\A k \in 1..255 : EbuLatin[k] # cp) => EbuOf(cp) = 32
  <1> DEFINE found == {k \in 1..255 : m_conversion_table[k] = cp}
             least == Min(found)
  <1>1. \A k \in found : k \in 1..255 /\ EbuLatin[k] = cp
    BY ConversionTable
  <1>2. \A k \in 1..255 : EbuLatin[k] = cp => k \in found
    BY ConversionTable
  <1>3. EbuOf(cp) = IF found # {} THEN least ELSE 32
    BY DEF EbuOf
  <1>4. found # {} => least \in found
    <2>1. found \in SUBSET Nat
      OBVIOUS
    <2> HIDE DEF found
    <2> QED
      BY <2>1, Least
  <1> HIDE DEF found, least
  <1>5. CASE found = {}
    BY <1>1, <1>2, <1>3, <1>5
  <1>6. CASE found # {}
    BY <1>1, <1>2, <1>3, <1>4, <1>6
  <1> QED
    BY <1>5, <1>6

-----------------------------------------------------------------------------
(* Texts put together from the encodings of their characters.              *)

\* The function of FlattenSeq, from the first sequence to the last.
Flattens(seqs, flat) ==
  /\ flat[1] = seqs[1]
  /\ \A i \in 2..Len(seqs) : flat[i] = flat[i - 1] \o seqs[i]

\* It is what FlattenSeq chooses.
LEMMA FlattenLoop ==
  ASSUME NEW X, NEW seqs \in Seq(Seq(X)), Len(seqs) # 0
  PROVE  \E flat \in [1..Len(seqs) -> Seq(X)] :
           Flattens(seqs, flat) /\ FlattenSeq(seqs) = flat[Len(seqs)]
  <1> DEFINE N == Len(seqs)
             D == 1..N
             V == Seq(X)
             Value(g, i) == IF i = 1 THEN seqs[i] ELSE g[i - 1] \o seqs[i]
             step == [i \in D |-> [g \in [D -> V] |-> Value(g, i)]]
             rank == [i \in D |-> i]
  <1>1. N \in Nat /\ 1 \in D /\ \A i \in D : seqs[i] \in V
    OBVIOUS
  <1>2. step \in [D -> [[D -> V] -> V]]
    <2>1. ASSUME NEW i \in D, NEW g \in [D -> V] PROVE Value(g, i) \in V
      <3>1. CASE i = 1
        BY <1>1, <3>1
      <3>2. CASE i # 1
        <4>1. i - 1 \in D
          BY <3>2
        <4>2. g[i - 1] \in V
          <5> HIDE DEF D, V
          <5> QED
            BY <4>1
        <4>3. g[i - 1] \o seqs[i] \in V
          BY <1>1, <4>2
        <4> QED
          BY <3>2, <4>3
      <3> QED
        BY <3>1, <3>2
    <2> HIDE DEF V, D, Value
    <2> QED
      BY <2>1
  <1>3. \A i \in D : \A g, h \in [D -> V] :
          (\A e \in D : rank[e] < rank[i] => g[e] = h[e]) => step[i][g] = step[i][h]
    <2> SUFFICES ASSUME NEW i \in D, NEW g \in [D -> V], NEW h \in [D -> V],
                        \A e \in D : rank[e] < rank[i] => g[e] = h[e]
                 PROVE  step[i][g] = step[i][h]
      BY Zenon
    <2>1. i # 1 => g[i - 1] = h[i - 1]
      <3>1. i # 1 => i - 1 \in D /\ rank[i - 1] < rank[i]
        OBVIOUS
      <3> HIDE DEF rank, D
      <3> QED
        BY <3>1
    <2>2. Value(g, i) = Value(h, i)
      BY <2>1
    <2> HIDE DEF V, rank, D, Value
    <2> QED
      BY <2>2
  <1>4. PICK f \in [D -> V] : \A i \in D : f[i] = step[i][f]
    <2>1. <<>> \in V /\ N \in Nat /\ rank \in [D -> 0..N]
      OBVIOUS
    <2> HIDE DEF step, rank, V, D
    <2>2. Ranked(D, V, N, rank, step)
      BY <1>2, <1>3, <2>1, Zenon DEF Ranked
    <2> QED
      BY <2>2, Recursion DEF Solves
  <1> DEFINE Equation(flatten) ==
        flatten = [i \in 1..Len(seqs) |->
                     IF i = 1 THEN seqs[i] ELSE flatten[i - 1] \o seqs[i]]
             chosen == CHOOSE flatten : Equation(flatten)
  <1>5. Equation(f)
    <2>1. \A i \in D : f[i] = Value(f, i)
      <3> HIDE DEF V, D, Value
      <3> QED
        BY <1>4
    <2> QED
      BY <2>1
  <1>6. Equation(chosen)
    <2> HIDE DEF Equation
    <2> QED
      BY <1>5, Zenon
  <1>7. FlattenSeq(seqs) = chosen[N]
    BY DEF FlattenSeq
  <1> HIDE DEF chosen
  <1>8. chosen = [i \in D |-> Value(chosen, i)]
    BY <1>6
  <1> HIDE DEF Equation, step, rank
  <1>9. \A i \in D : chosen[i] = Value(chosen, i)
    <2> HIDE DEF D, Value
    <2> QED
      BY <1>8
  <1>10. Flattens(seqs, chosen)
    <2>1. chosen[1] = seqs[1]
      BY <1>1, <1>9
    <2>2. ASSUME NEW i \in 2..Len(seqs) PROVE chosen[i] = chosen[i - 1] \o seqs[i]
      <3>1. i \in D /\ i # 1
        OBVIOUS
      <3>2. chosen[i] = Value(chosen, i)
        BY <1>9, <3>1
      <3> QED
        BY <3>1, <3>2
    <2> QED
      BY <2>1, <2>2 DEF Flattens
  <1>11. \A i \in D : chosen[i] \in V
    <2> DEFINE S == {n \in 0..N - 1 : chosen[n + 1] \in V}
    <2>1. 0 \in S
      BY <1>1, <1>10 DEF Flattens
    <2>2. ASSUME NEW n \in 0..(N - 1) - 1, n \in S PROVE n + 1 \in S
      <3>1. n + 2 \in 2..N /\ n + 2 \in D /\ (n + 2) - 1 = n + 1 /\ n + 1 \in 0..N - 1
        OBVIOUS
      <3>2. chosen[n + 2] = chosen[(n + 2) - 1] \o seqs[n + 2]
        BY <1>10, <3>1 DEF Flattens
      <3>3. chosen[n + 1] \in V /\ seqs[n + 2] \in V
        BY <1>1, <2>2, <3>1
      <3>4. chosen[n + 2] \in V
        BY <3>1, <3>2, <3>3
      <3>5. (n + 1) + 1 = n + 2
        OBVIOUS
      <3> QED
        BY <3>1, <3>4, <3>5
    <2>3. 0..N - 1 \subseteq S
      <3>1. N - 1 \in Nat
        BY <1>1
      <3> HIDE DEF S
      <3> QED
        BY <2>1, <2>2, <3>1, InductionUpTo
    <2> TAKE i \in D
    <2>4. i - 1 \in 0..N - 1 /\ (i - 1) + 1 = i
      OBVIOUS
    <2> HIDE DEF V, D
    <2> QED
      BY <2>3, <2>4
  <1>12. chosen \in [D -> V]
    <2> HIDE DEF V, D, Value
    <2> QED
      BY <1>8, <1>11
  <1> QED
    BY <1>7, <1>10, <1>12

\* FlattenSeq returns a sequence of what its sequences are made of.
LEMMA FlattenType ==
  ASSUME NEW X, NEW seqs \in Seq(Seq(X))
  PROVE  FlattenSeq(seqs) \in Seq(X)
  <1>1. CASE Len(seqs) = 0
    <2>1. seqs = <<>>
      BY <1>1
    <2>2. FlattenSeq(seqs) = seqs
      BY <1>1 DEF FlattenSeq
    <2>3. <<>> \in Seq(X)
      OBVIOUS
    <2> QED
      BY <2>1, <2>2, <2>3
  <1>2. CASE Len(seqs) # 0
    <2>1. PICK flat \in [1..Len(seqs) -> Seq(X)] :
            Flattens(seqs, flat) /\ FlattenSeq(seqs) = flat[Len(seqs)]
      BY <1>2, FlattenLoop
    <2>2. Len(seqs) \in 1..Len(seqs)
      BY <1>2
    <2> QED
      BY <2>1, <2>2
  <1> QED
    BY <1>1, <1>2

\* One sequence and two.
LEMMA FlattenShort ==
  ASSUME NEW X, NEW a \in Seq(X), NEW b \in Seq(X)
  PROVE  FlattenSeq(<<a>>) = a /\ FlattenSeq(<<a, b>>) = a \o b
  <1>1. FlattenSeq(<<a>>) = a
    <2> DEFINE q == <<a>>
    <2>1. q \in Seq(Seq(X)) /\ Len(q) = 1 /\ q[1] = a
      OBVIOUS
    <2> HIDE DEF q
    <2>2. PICK flat \in [1..Len(q) -> Seq(X)] :
            Flattens(q, flat) /\ FlattenSeq(q) = flat[Len(q)]
      BY <2>1, FlattenLoop
    <2>3. FlattenSeq(q) = a
      BY <2>1, <2>2 DEF Flattens
    <2> QED
      BY <2>3 DEF q
  <1>2. FlattenSeq(<<a, b>>) = a \o b
    <2> DEFINE q == <<a, b>>
    <2>1. q \in Seq(Seq(X)) /\ Len(q) = 2 /\ Len(q) # 0 /\ q[1] = a /\ q[2] = b
      OBVIOUS
    <2> HIDE DEF q
    <2>2. PICK flat \in [1..Len(q) -> Seq(X)] :
            Flattens(q, flat) /\ FlattenSeq(q) = flat[Len(q)]
      BY <2>1, FlattenLoop
    <2>3. flat[1] = a
      BY <2>1, <2>2 DEF Flattens
    <2>4. flat[2] = flat[2 - 1] \o q[2]
      <3>1. 2 \in 2..Len(q)
        BY <2>1
      <3> QED
        BY <2>2, <3>1 DEF Flattens
    <2>5. FlattenSeq(q) = a \o b
      BY <2>1, <2>2, <2>3, <2>4
    <2> QED
      BY <2>5 DEF q
  <1> QED
    BY <1>1, <1>2

\* A sequence in front of the others.
LEMMA FlattenCons ==
  ASSUME NEW X, NEW a \in Seq(X), NEW rest \in Seq(Seq(X))
  PROVE  FlattenSeq(<<a>> \o rest) = a \o FlattenSeq(rest)
  <1> DEFINE all == <<a>> \o rest
             N == Len(rest)
  <1>0. N \in Nat
    OBVIOUS
  <1>1. /\ all \in Seq(Seq(X)) /\ Len(all) = N + 1 /\ all[1] = a
        /\ \A i \in 1..N : all[i + 1] = rest[i]
    OBVIOUS
  <1>2. CASE N = 0
    <2>1. rest = <<>>
      BY <1>2
    <2>2. <<a>> \o <<>> = <<a>> /\ a \o <<>> = a
      OBVIOUS
    <2>3. FlattenSeq(rest) = <<>>
      BY <1>2, <2>1 DEF FlattenSeq
    <2> QED
      BY <2>1, <2>2, <2>3, FlattenShort
  <1>3. CASE N # 0
    <2> HIDE DEF all
    <2>1. PICK whole \in [1..Len(all) -> Seq(X)] :
            Flattens(all, whole) /\ FlattenSeq(all) = whole[Len(all)]
      BY <1>0, <1>1, FlattenLoop
    <2>2. PICK flat \in [1..N -> Seq(X)] :
            Flattens(rest, flat) /\ FlattenSeq(rest) = flat[N]
      BY <1>3, FlattenLoop
    <2> DEFINE S == {n \in 0..N - 1 : whole[n + 2] = a \o flat[n + 1]}
    <2>3. 0 \in S
      <3>1. whole[1] = a /\ flat[1] = rest[1]
        BY <1>1, <2>1, <2>2 DEF Flattens
      <3>2. whole[2] = whole[2 - 1] \o all[2]
        <4>1. 2 \in 2..Len(all)
          BY <1>0, <1>1, <1>3
        <4> QED
          BY <2>1, <4>1 DEF Flattens
      <3>3. all[2] = rest[1]
        <4>1. 1 \in 1..N
          BY <1>0, <1>3
        <4> QED
          BY <1>1, <4>1
      <3>4. whole[2] = a \o flat[1]
        <4>1. 2 - 1 = 1
          OBVIOUS
        <4> QED
          BY <3>1, <3>2, <3>3, <4>1
      <3> QED
        BY <1>0, <1>3, <3>4
    <2>4. ASSUME NEW n \in 0..(N - 1) - 1, n \in S PROVE n + 1 \in S
      <3>1. /\ n + 3 \in 2..Len(all) /\ n + 2 \in 2..N /\ n + 2 \in 1..N
            /\ n + 1 \in 1..N /\ n + 1 \in 0..N - 1
            /\ (n + 3) - 1 = n + 2 /\ (n + 2) - 1 = n + 1 /\ (n + 2) + 1 = n + 3
        BY <1>0, <1>1
      <3>2. whole[n + 3] = whole[(n + 3) - 1] \o all[n + 3]
        BY <2>1, <3>1 DEF Flattens
      <3>3. flat[n + 2] = flat[(n + 2) - 1] \o rest[n + 2]
        BY <2>2, <3>1 DEF Flattens
      <3>4. all[n + 3] = rest[n + 2]
        BY <1>1, <3>1
      <3>5. whole[n + 2] = a \o flat[n + 1]
        BY <2>4
      <3>6. flat[n + 1] \in Seq(X) /\ rest[n + 2] \in Seq(X)
        <4> HIDE DEF N
        <4>1. flat[n + 1] \in Seq(X)
          BY <2>2, <3>1
        <4>2. rest[n + 2] \in Seq(X)
          BY <3>1 DEF N
        <4> QED
          BY <4>1, <4>2
      <3>7. whole[n + 3] = (a \o flat[n + 1]) \o rest[n + 2]
        BY <3>1, <3>2, <3>4, <3>5
      <3>8. (a \o flat[n + 1]) \o rest[n + 2] = a \o (flat[n + 1] \o rest[n + 2])
        <4> DEFINE b == flat[n + 1]
                   c == rest[n + 2]
        <4>1. b \in Seq(X) /\ c \in Seq(X)
          BY <3>6
        <4> HIDE DEF b, c
        <4>2. (a \o b) \o c = a \o (b \o c)
          <5> HIDE DEF S, N
          <5> QED
            BY <4>1
        <4> QED
          BY <4>2 DEF b, c
      <3>9. whole[n + 3] = a \o flat[n + 2]
        BY <3>1, <3>3, <3>7, <3>8
      <3>10. (n + 1) + 2 = n + 3 /\ (n + 1) + 1 = n + 2
        OBVIOUS
      <3> QED
        BY <3>1, <3>9, <3>10
    <2>5. N - 1 \in S
      <3>1. N - 1 \in Nat /\ N - 1 \in 0..N - 1
        BY <1>0, <1>3
      <3> HIDE DEF S
      <3>2. 0..N - 1 \subseteq S
        BY <2>3, <2>4, <3>1, InductionUpTo
      <3> QED
        BY <3>1, <3>2
    <2>6. whole[N + 1] = a \o flat[N]
      <3>1. (N - 1) + 2 = N + 1 /\ (N - 1) + 1 = N
        BY <1>0
      <3> QED
        BY <2>5, <3>1
    <2> QED
      BY <1>1, <2>1, <2>2, <2>6 DEF all
  <1> QED
    BY <1>2, <1>3

\* The valid code points.
Valid == {cp \in Nat : is_code_point_valid(cp)}

\* The texts of the characters.
Encoded(cps) == [k \in DOMAIN cps |-> append(cps[k])]

\* They are texts.
LEMMA EncodedType ==
  ASSUME NEW cps \in Seq(Valid)
  PROVE  Encoded(cps) \in Seq(Seq(Octet)) /\ Len(Encoded(cps)) = Len(cps)
  <1>1. \A k \in 1..Len(cps) : append(cps[k]) \in Seq(Octet)
    <2> TAKE k \in 1..Len(cps)
    <2> DEFINE cp == cps[k]
    <2>1. cp \in Valid
      OBVIOUS
    <2> HIDE DEF cp
    <2>2. cp \in Nat /\ is_code_point_valid(cp)
      BY <2>1 DEF Valid
    <2>3. append(cp) \in Seq(Octet)
      BY <2>2, AppendWellFormed
    <2> QED
      BY <2>3 DEF cp
  <1>2. DOMAIN cps = 1..Len(cps) /\ Len(cps) \in Nat
    OBVIOUS
  <1> DEFINE e == [k \in 1..Len(cps) |-> append(cps[k])]
  <1>3. Encoded(cps) = e
    BY <1>2 DEF Encoded
  <1>4. e \in [1..Len(cps) -> Seq(Octet)]
    BY <1>1
  <1> HIDE DEF e
  <1> QED
    BY <1>2, <1>3, <1>4

\* A character in front of the others.
LEMMA EncodedCons ==
  ASSUME NEW cps \in Seq(Valid), NEW cp \in Valid
  PROVE  Encoded(<<cp>> \o cps) = <<append(cp)>> \o Encoded(cps)
  <1> DEFINE all == <<cp>> \o cps
             N == Len(cps)
  <1>1. /\ all \in Seq(Valid) /\ Len(all) = N + 1 /\ N \in Nat /\ all[1] = cp
        /\ \A k \in 2..N + 1 : all[k] = cps[k - 1]
    OBVIOUS
  <1>2. Encoded(all) \in Seq(Seq(Octet)) /\ Len(Encoded(all)) = N + 1
    BY <1>1, EncodedType
  <1>3. Encoded(cps) \in Seq(Seq(Octet)) /\ Len(Encoded(cps)) = N
    BY EncodedType
  <1>4. append(cp) \in Seq(Octet)
    BY AppendWellFormed DEF Valid
  <1>5. \A k \in 1..N + 1 : Encoded(all)[k] = append(all[k])
    <2> HIDE DEF all
    <2>1. DOMAIN all = 1..N + 1
      BY <1>1
    <2> QED
      BY <2>1 DEF Encoded
  <1>6. \A k \in 1..N : Encoded(cps)[k] = append(cps[k])
    <2>1. DOMAIN cps = 1..N
      OBVIOUS
    <2> QED
      BY <2>1 DEF Encoded
  <1> DEFINE one == append(cp)
             rest == Encoded(cps)
             front == <<one>> \o rest
  <1>7. /\ front \in Seq(Seq(Octet)) /\ Len(front) = N + 1 /\ front[1] = one
        /\ \A k \in 2..N + 1 : front[k] = rest[k - 1]
    <2> HIDE DEF one, rest, N
    <2> QED
      BY <1>1, <1>3, <1>4 DEF one, rest
  <1>8. \A k \in 1..N + 1 : Encoded(all)[k] = front[k]
    <2> TAKE k \in 1..N + 1
    <2> HIDE DEF all, front, N, one, rest
    <2>1. CASE k = 1
      BY <1>1, <1>5, <1>7, <2>1 DEF one
    <2>2. CASE k # 1
      <3>1. k \in 2..N + 1 /\ k - 1 \in 1..N
        BY <1>1, <2>2
      <3> QED
        BY <1>1, <1>5, <1>6, <1>7, <3>1 DEF rest
    <2> QED
      BY <2>1, <2>2
  <1> DEFINE whole == Encoded(all)
  <1>9. whole = front
    <2>1. whole \in Seq(Seq(Octet)) /\ Len(whole) = N + 1 /\ \A k \in 1..N + 1 : whole[k] = front[k]
      BY <1>2, <1>8
    <2> HIDE DEF whole, front, N
    <2> QED
      BY <1>1, <1>7, <2>1
  <1> QED
    BY <1>9

\* The code points of a text that has no error, encoded again, are the text.
LEMMA EncodedBack ==
  ASSUME NEW s \in Seq(Octet), Len(s) + 1 \in Boundaries(s)
  PROVE  /\ utf8to32(s).cps \in Seq(Valid)
         /\ FlattenSeq(Encoded(utf8to32(s).cps)) = s
  <1> DEFINE B == Boundaries(s)
             N == Len(s) + 1
  <1>1. B \subseteq 1..N /\ 1 \in B /\ Len(s) \in Nat
    BY BoundaryOf
  <1>2. PICK loop : Converts(s, loop) /\ utf8to32(s) = loop[1]
    BY Utf8to32Loop
  <1> DEFINE Back(k) == /\ loop[k].cps \in Seq(Valid)
                        /\ FlattenSeq(Encoded(loop[k].cps)) = SubSeq(s, k, Len(s))
             S == {k \in B : Back(k)}
  <1>3. ASSUME NEW k \in B, \A n \in B : k < n => n \in S PROVE k \in S
    <2> DEFINE v == validate_next(s, k)
    <2>0. k \in 1..N
      BY <1>1
    <2>1. CASE k > Len(s)
      <3>1. loop[k] = [cps |-> <<>>, err |-> "UTF8_OK"]
        BY <1>2, <2>0, <2>1 DEF Converts
      <3>2. SubSeq(s, k, Len(s)) = <<>>
        BY <2>0, <2>1
      <3>3. Encoded(<<>>) = <<>>
        BY DEF Encoded
      <3>4. FlattenSeq(<<>>) = <<>>
        BY DEF FlattenSeq
      <3>5. Back(k)
        BY <3>1, <3>2, <3>3, <3>4
      <3> HIDE DEF Back, B
      <3> QED
        BY <3>5
    <2>2. CASE k <= Len(s)
      <3>1. v.err = "UTF8_OK" /\ v.it \in B /\ k < v.it
        <4>1. N \in B /\ k < N
          BY <1>1, <2>0, <2>2
        <4> QED
          BY <4>1, BoundaryChain
      <3>2. k \in 1..Len(s)
        BY <2>0, <2>2
      <3>3. v.cp \in Valid /\ append(v.cp) = SubSeq(s, k, v.it - 1)
        BY <3>1, <3>2, NextTypes DEF Valid
      <3>4. Back(v.it)
        <4> HIDE DEF v, B, Back
        <4> QED
          BY <1>3, <3>1
      <3>5. loop[k].cps = <<v.cp>> \o loop[v.it].cps
        <4>1. k \in 1..Len(s) + 1 /\ ~(k > Len(s)) /\ validate_next(s, k).err = "UTF8_OK"
          BY <2>0, <3>1, <3>2
        <4>2. loop[k] = [cps |-> <<v.cp>> \o loop[v.it].cps, err |-> loop[v.it].err]
          BY <1>2, <4>1, ConvertsOn
        <4> HIDE DEF v
        <4> QED
          BY <4>2
      <3> DEFINE rest == loop[v.it].cps
                 i == v.it
                 cp == v.cp
      <3>6. /\ i \in B /\ k < i /\ i \in 1..N
            /\ cp \in Valid /\ append(cp) = SubSeq(s, k, i - 1)
            /\ rest \in Seq(Valid) /\ FlattenSeq(Encoded(rest)) = SubSeq(s, i, Len(s))
            /\ loop[k].cps = <<cp>> \o rest
        <4>1. i \in 1..N
          <5> HIDE DEF v
          <5> QED
            BY <1>1, <3>1
        <4> QED
          BY <3>1, <3>3, <3>4, <3>5, <4>1
      <3> HIDE DEF v, i, cp, rest
      <3>7. <<cp>> \o rest \in Seq(Valid)
        BY <3>6
      <3>8. FlattenSeq(Encoded(<<cp>> \o rest)) = append(cp) \o FlattenSeq(Encoded(rest))
        <4>1. append(cp) \in Seq(Octet)
          BY <3>6, AppendWellFormed DEF Valid
        <4>2. Encoded(rest) \in Seq(Seq(Octet))
          BY <3>6, EncodedType
        <4>3. Encoded(<<cp>> \o rest) = <<append(cp)>> \o Encoded(rest)
          BY <3>6, EncodedCons
        <4> QED
          BY <4>1, <4>2, <4>3, FlattenCons
      <3>9. SubSeq(s, k, i - 1) \o SubSeq(s, i, Len(s)) = SubSeq(s, k, Len(s))
        <4> HIDE DEF B, N
        <4>1. k \in 1..Len(s) + 1 /\ i - 1 \in k - 1..Len(s) /\ Len(s) \in i - 1..Len(s)
              /\ (i - 1) + 1 = i
          BY <1>1, <2>0, <3>2, <3>6 DEF N
        <4> QED
          BY <4>1, ConcatAdjacentSubSeq
      <3>10. Back(k)
        BY <3>6, <3>7, <3>8, <3>9
      <3> HIDE DEF Back, B
      <3> QED
        BY <3>10
    <2>3. k > Len(s) \/ k <= Len(s)
      BY <1>1, <2>0
    <2> HIDE DEF S
    <2> QED
      BY <2>1, <2>2, <2>3
  <1>4. B \subseteq S
    <2> HIDE DEF S, B
    <2> QED
      BY <1>1, <1>3, BoundariesDown
  <1>5. Back(1)
    <2> HIDE DEF Back, B
    <2> QED
      BY <1>1, <1>4
  <1>6. SubSeq(s, 1, Len(s)) = s
    OBVIOUS
  <1> QED
    BY <1>2, <1>5, <1>6

\* What ToConvert takes of a text.
Prefix(whole, s) == IF whole THEN s ELSE SubSeq(s, 1, find_invalid(s) - 1)

\* The code points that utf8_to_ebu gets, in terms of the boundaries.
LEMMA Converted ==
  ASSUME NEW s \in Seq(Octet), NEW whole \in BOOLEAN
  PROVE  LET t == Prefix(whole, s)
             r == utf8to32(t)
             b == Boundaries(s)
         IN  /\ t \in Seq(Octet) /\ r \in Texts32
             /\ r.err = "UTF8_OK" => /\ Len(r.cps) = Cardinality(b) - 1
                                     /\ Len(t) + 1 \in Boundaries(t)
                                     /\ t = SubSeq(s, 1, Max(b) - 1)
                                     /\ whole => Len(s) + 1 \in b
             /\ r.err # "UTF8_OK" => whole /\ Len(s) + 1 \notin b
  <1> DEFINE t == Prefix(whole, s)
             r == utf8to32(t)
             b == Boundaries(s)
             m == find_invalid(s)
  <1>1. b \subseteq 1..Len(s) + 1 /\ Len(s) \in Nat
    BY BoundaryOf
  <1>2. m \in b /\ \A n \in b : n <= m
    BY InvalidIsLast
  <1>3. Max(b) = m
    <2> DEFINE Greatest(x) == \A y \in b : x >= y
               chosen == CHOOSE x \in b : Greatest(x)
    <2>1. m \in b /\ Greatest(m)
      <3> HIDE DEF m, b
      <3> QED
        BY <1>1, <1>2
    <2>2. chosen \in b /\ Greatest(chosen)
      <3> HIDE DEF Greatest, b, m
      <3> QED
        BY <2>1
    <2>3. Max(b) = chosen
      BY DEF Max
    <2> HIDE DEF chosen, b, m
    <2> QED
      BY <1>1, <2>1, <2>2, <2>3
  <1>4. CASE ~whole
    <2>1. t = SubSeq(s, 1, m - 1)
      BY <1>4 DEF Prefix
    <2>2. t \in Seq(Octet) /\ Boundaries(t) = b /\ Len(t) + 1 \in Boundaries(t)
      <3> DEFINE p == SubSeq(s, 1, find_invalid(s) - 1)
      <3>1. p \in Seq(Octet) /\ Boundaries(p) = b /\ Len(p) + 1 \in Boundaries(p)
        BY PrefixBoundaries
      <3> HIDE DEF t, b
      <3> QED
        BY <2>1, <3>1
    <2> HIDE DEF t, b, m
    <2>3. r.err = "UTF8_OK" /\ Len(r.cps) = Cardinality(Boundaries(t)) - 1
      BY <2>2, Utf8to32Counts
    <2>4. r \in Texts32
      BY <2>2, Utf8to32Types
    <2> HIDE DEF r
    <2>5. /\ t \in Seq(Octet) /\ r \in Texts32
          /\ r.err = "UTF8_OK" => /\ Len(r.cps) = Cardinality(b) - 1
                                  /\ Len(t) + 1 \in Boundaries(t)
                                  /\ t = SubSeq(s, 1, Max(b) - 1)
                                  /\ whole => Len(s) + 1 \in b
          /\ r.err # "UTF8_OK" => whole /\ Len(s) + 1 \notin b
      BY <1>3, <1>4, <2>1, <2>2, <2>3, <2>4
    <2> QED
      BY <2>5 DEF t, b, r
  <1>5. CASE whole
    <2>1. t = s
      BY <1>5 DEF Prefix
    <2> HIDE DEF t, b, m
    <2>2. r = utf8to32(s)
      BY <2>1
    <2>3. r \in Texts32
      BY <2>2, Utf8to32Types
    <2>4. /\ r.err = "UTF8_OK" <=> Len(s) + 1 \in b
          /\ Len(s) + 1 \in b => Len(r.cps) = Cardinality(b) - 1
      <3> HIDE DEF r
      <3> QED
        BY <2>2, Utf8to32Counts DEF b
    <2>5. Len(s) + 1 \in b => s = SubSeq(s, 1, m - 1)
      <3> SUFFICES ASSUME Len(s) + 1 \in b PROVE s = SubSeq(s, 1, m - 1)
        OBVIOUS
      <3>1. m = Len(s) + 1
        BY <1>1, <1>2
      <3>2. s = SubSeq(s, 1, Len(s))
        OBVIOUS
      <3>3. m - 1 = Len(s)
        BY <1>1, <3>1
      <3> QED
        BY <3>2, <3>3
    <2>6. b = Boundaries(t)
      BY <2>1 DEF b
    <2> HIDE DEF r
    <2>7. /\ t \in Seq(Octet) /\ r \in Texts32
          /\ r.err = "UTF8_OK" => /\ Len(r.cps) = Cardinality(b) - 1
                                  /\ Len(t) + 1 \in Boundaries(t)
                                  /\ t = SubSeq(s, 1, Max(b) - 1)
                                  /\ whole => Len(s) + 1 \in b
          /\ r.err # "UTF8_OK" => whole /\ Len(s) + 1 \notin b
      BY <1>3, <1>5, <2>1, <2>3, <2>4, <2>5, <2>6
    <2> QED
      BY <2>7 DEF t, b, r
  <1> QED
    BY <1>4, <1>5

\* Two characters, encoded, decode to themselves.
LEMMA TwoDecoded ==
  ASSUME NEW x \in Valid, NEW y \in Valid
  PROVE  LET s == append(x) \o append(y)
         IN  /\ s \in Seq(Octet) /\ Len(s) + 1 \in Boundaries(s)
             /\ utf8to32(s) = [cps |-> <<x, y>>, err |-> "UTF8_OK"]
  <1> DEFINE a == append(x)
             b == append(y)
             s == a \o b
  <1>1. /\ x \in Nat /\ is_code_point_valid(x) /\ y \in Nat /\ is_code_point_valid(y)
    BY DEF Valid
  <1>2. a \in Seq(Octet) /\ Len(a) \in 1..4 /\ b \in Seq(Octet) /\ Len(b) \in 1..4
    BY <1>1, AppendWellFormed
  <1> DEFINE i == Len(a) + 1
  <1>3. /\ s \in Seq(Octet) /\ Len(s) = Len(a) + Len(b)
        /\ SubSeq(s, 1, Len(a)) = a /\ SubSeq(s, i, Len(a) + Len(b)) = b
    <2> HIDE DEF a, b
    <2> QED
      BY <1>2
  <1>4. validate_next(s, 1) = [err |-> "UTF8_OK", it |-> i, cp |-> x]
    <2>1. 1 \in 1..Len(s) /\ 1 + Len(a) - 1 <= Len(s) /\ 1 + Len(a) - 1 = Len(a)
          /\ 1 + Len(a) = i
      <3> HIDE DEF a, b, s
      <3> QED
        BY <1>2, <1>3
    <2>2. SubSeq(s, 1, 1 + Len(append(x)) - 1) = append(x)
      BY <1>3, <2>1
    <2> HIDE DEF s
    <2>3. validate_next(s, 1) = [err |-> "UTF8_OK", it |-> 1 + Len(append(x)), cp |-> x]
      BY <1>1, <1>3, <2>1, <2>2, DecodesAt
    <2> QED
      BY <2>1, <2>3
  <1>5. validate_next(s, i) = [err |-> "UTF8_OK", it |-> Len(s) + 1, cp |-> y]
    <2>1. /\ i \in 1..Len(s) /\ i + Len(b) - 1 <= Len(s)
          /\ i + Len(b) - 1 = Len(a) + Len(b) /\ i + Len(b) = Len(s) + 1
      <3> HIDE DEF a, b, s
      <3> QED
        BY <1>2, <1>3
    <2>2. SubSeq(s, i, i + Len(append(y)) - 1) = append(y)
      BY <1>3, <2>1
    <2> HIDE DEF s, i
    <2>3. validate_next(s, i) = [err |-> "UTF8_OK", it |-> i + Len(append(y)), cp |-> y]
      BY <1>1, <1>3, <2>1, <2>2, DecodesAt
    <2> QED
      BY <2>1, <2>3
  <1>6. PICK loop : Converts(s, loop) /\ utf8to32(s) = loop[1]
    <2> HIDE DEF s
    <2> QED
      BY <1>3, Utf8to32Loop
  <1>7. /\ 1 \in 1..Len(s) + 1 /\ ~(1 > Len(s)) /\ i \in 1..Len(s) + 1 /\ ~(i > Len(s))
        /\ Len(s) + 1 \in 1..Len(s) + 1 /\ Len(s) + 1 > Len(s)
    <2> HIDE DEF a, b, s
    <2> QED
      BY <1>2, <1>3
  <1> HIDE DEF s, a, b, i
  <1>8. loop[Len(s) + 1] = [cps |-> <<>>, err |-> "UTF8_OK"]
    BY <1>6, <1>7 DEF Converts
  <1>9. loop[i] = [cps |-> <<y>> \o <<>>, err |-> "UTF8_OK"]
    <2>1. validate_next(s, i).err = "UTF8_OK" /\ validate_next(s, i).it = Len(s) + 1
          /\ validate_next(s, i).cp = y
      BY <1>5
    <2>2. loop[i] = [cps |-> <<y>> \o loop[Len(s) + 1].cps, err |-> loop[Len(s) + 1].err]
      <3>1. loop[i] = [cps |-> <<validate_next(s, i).cp>> \o loop[validate_next(s, i).it].cps,
                       err |-> loop[validate_next(s, i).it].err]
        BY <1>6, <1>7, <2>1, ConvertsOn
      <3> QED
        BY <2>1, <3>1
    <2> QED
      BY <1>8, <2>2
  <1>10. loop[1] = [cps |-> <<x>> \o (<<y>> \o <<>>), err |-> "UTF8_OK"]
    <2>1. validate_next(s, 1).err = "UTF8_OK" /\ validate_next(s, 1).it = i
          /\ validate_next(s, 1).cp = x
      BY <1>4
    <2>2. loop[1] = [cps |-> <<x>> \o loop[i].cps, err |-> loop[i].err]
      BY <1>6, <1>7, <2>1, ConvertsOn
    <2> QED
      BY <1>9, <2>2
  <1>11. <<x>> \o (<<y>> \o <<>>) = <<x, y>>
    <2>1. <<y>> \o <<>> = <<y>>
      BY ConcatEmptySeq
    <2>2. <<x>> \o <<y>> = <<x, y>>
      <3> DEFINE p == <<x>> \o <<y>>
                 q == <<x, y>>
      <3>1. p \in Seq(Valid) /\ Len(p) = 2 /\ p[1] = x /\ p[2] = y
        OBVIOUS
      <3>2. q \in Seq(Valid) /\ Len(q) = 2 /\ q[1] = x /\ q[2] = y
        OBVIOUS
      <3> HIDE DEF p, q
      <3>3. \A k \in 1..2 : p[k] = q[k]
        BY <3>1, <3>2
      <3>4. p = q
        BY <3>1, <3>2, <3>3
      <3> QED
        BY <3>4 DEF p, q
    <2> QED
      BY <2>1, <2>2
  <1>12. utf8to32(s) = [cps |-> <<x, y>>, err |-> "UTF8_OK"]
    BY <1>6, <1>10, <1>11
  <1>13. Len(s) + 1 \in Boundaries(s)
    <2>1. utf8to32(s).err = "UTF8_OK"
      BY <1>12
    <2> QED
      BY <1>3, <2>1, Utf8to32Counts
  <1> QED
    BY <1>3, <1>12, <1>13 DEF s, a, b

\* Where the codes are in the table, those up to 382 by themselves.
Places ==
  <<0, 0, 0, 0, 0, 0, 0, 0, 0, 10, 11, 0, 0, 0, 0, 0, 0, 0, 0, 0, 0, 0, 0,
  0, 0, 0, 0, 0, 0, 0, 0, 32, 33, 34, 35, 171, 37, 38, 39, 40, 41, 42, 43,
  44, 45, 46, 47, 48, 49, 50, 51, 52, 53, 54, 55, 56, 57, 58, 59, 60, 61,
  62, 63, 64, 65, 66, 67, 68, 69, 70, 71, 72, 73, 74, 75, 76, 77, 78, 79,
  80, 81, 82, 83, 84, 85, 86, 87, 88, 89, 90, 91, 0, 93, 0, 95, 0, 97, 98,
  99, 100, 101, 102, 103, 104, 105, 106, 107, 108, 109, 110, 111, 112, 113,
  114, 115, 116, 117, 118, 119, 120, 121, 122, 0, 0, 0, 0, 0, 0, 0, 31, 0,
  0, 0, 0, 0, 0, 0, 0, 0, 0, 0, 0, 0, 0, 0, 0, 0, 0, 0, 0, 0, 0, 0, 0, 0, 0,
  0, 0, 0, 0, 142, 0, 170, 0, 0, 0, 0, 0, 162, 0, 123, 0, 0, 0, 0, 187, 0,
  0, 0, 0, 0, 0, 0, 0, 0, 0, 125, 0, 0, 0, 185, 193, 192, 208, 224, 209,
  225, 226, 139, 195, 194, 210, 211, 197, 196, 212, 213, 206, 138, 199, 198,
  214, 230, 215, 0, 231, 201, 200, 216, 217, 229, 232, 141, 129, 128, 144,
  240, 145, 241, 242, 155, 131, 130, 146, 147, 133, 132, 148, 149, 239, 154,
  135, 134, 150, 246, 151, 0, 247, 137, 136, 152, 153, 245, 248, 159, 172,
  188, 4, 20, 96, 16, 235, 251, 0, 0, 9, 25, 203, 219, 6, 22, 0, 222, 173,
  189, 0, 0, 5, 21, 1, 17, 27, 165, 0, 0, 164, 157, 12, 28, 163, 179, 0, 0,
  127, 255, 0, 0, 174, 190, 0, 0, 2, 18, 181, 158, 0, 0, 0, 0, 160, 176, 0,
  13, 29, 178, 180, 126, 186, 207, 223, 94, 36, 15, 182, 161, 177, 26, 166,
  0, 233, 249, 0, 0, 0, 0, 168, 167, 227, 243, 234, 250, 0, 0, 202, 218,
  236, 252, 0, 0, 140, 156, 204, 220, 0, 0, 238, 254, 0, 0, 0, 0, 175, 191,
  0, 0, 92, 124, 184, 183, 3, 19, 0, 244, 0, 228, 143, 237, 253, 14, 30,
  205, 221>>

PlaceOf(cp) ==
  IF cp <= 382 THEN Places[cp]
  ELSE IF cp = 536 THEN 7
  ELSE IF cp = 537 THEN 23
  ELSE IF cp = 538 THEN 8
  ELSE IF cp = 539 THEN 24
  ELSE 169

\* They are there.
LEMMA LatinPlaces ==
  \A k \in 1..255 : PlaceOf(EbuLatin[k]) = k
  <1>1. \A k \in 1..16 : PlaceOf(EbuLatin[k]) = k
    <2>1. /\ EbuLatin[1] = 280 /\ EbuLatin[2] = 302 /\ EbuLatin[3] = 370
          /\ EbuLatin[4] = 258 /\ EbuLatin[5] = 278 /\ EbuLatin[6] = 270
          /\ EbuLatin[7] = 536 /\ EbuLatin[8] = 538 /\ EbuLatin[9] = 266
          /\ EbuLatin[10] = 10 /\ EbuLatin[11] = 11 /\ EbuLatin[12] = 288
          /\ EbuLatin[13] = 313 /\ EbuLatin[14] = 379 /\ EbuLatin[15] = 323
          /\ EbuLatin[16] = 261
      BY SMTT(60) DEF EbuLatin
    <2>2. /\ Places[280] = 1 /\ Places[302] = 2 /\ Places[370] = 3 /\ Places[258] = 4
          /\ Places[278] = 5 /\ Places[270] = 6 /\ Places[266] = 9 /\ Places[10] = 10
          /\ Places[11] = 11 /\ Places[288] = 12 /\ Places[313] = 13
          /\ Places[379] = 14 /\ Places[323] = 15 /\ Places[261] = 16
      BY SMTT(60) DEF Places
    <2> QED
      BY SMT, <2>1, <2>2 DEF PlaceOf
  <1>2. \A k \in 17..32 : PlaceOf(EbuLatin[k]) = k
    <2>1. /\ EbuLatin[17] = 281 /\ EbuLatin[18] = 303 /\ EbuLatin[19] = 371
          /\ EbuLatin[20] = 259 /\ EbuLatin[21] = 279 /\ EbuLatin[22] = 271
          /\ EbuLatin[23] = 537 /\ EbuLatin[24] = 539 /\ EbuLatin[25] = 267
          /\ EbuLatin[26] = 327 /\ EbuLatin[27] = 282 /\ EbuLatin[28] = 289
          /\ EbuLatin[29] = 314 /\ EbuLatin[30] = 380 /\ EbuLatin[31] = 130
          /\ EbuLatin[32] = 32
      BY SMTT(60) DEF EbuLatin
    <2>2. /\ Places[281] = 17 /\ Places[303] = 18 /\ Places[371] = 19
          /\ Places[259] = 20 /\ Places[279] = 21 /\ Places[271] = 22
          /\ Places[267] = 25 /\ Places[327] = 26 /\ Places[282] = 27
          /\ Places[289] = 28 /\ Places[314] = 29 /\ Places[380] = 30
          /\ Places[130] = 31 /\ Places[32] = 32
      BY SMTT(60) DEF Places
    <2> QED
      BY SMT, <2>1, <2>2 DEF PlaceOf
  <1>3. \A k \in 33..48 : PlaceOf(EbuLatin[k]) = k
    <2>1. /\ EbuLatin[33] = 33 /\ EbuLatin[34] = 34 /\ EbuLatin[35] = 35
          /\ EbuLatin[36] = 322 /\ EbuLatin[37] = 37 /\ EbuLatin[38] = 38
          /\ EbuLatin[39] = 39 /\ EbuLatin[40] = 40 /\ EbuLatin[41] = 41
          /\ EbuLatin[42] = 42 /\ EbuLatin[43] = 43 /\ EbuLatin[44] = 44
          /\ EbuLatin[45] = 45 /\ EbuLatin[46] = 46 /\ EbuLatin[47] = 47
          /\ EbuLatin[48] = 48
      BY SMTT(60) DEF EbuLatin
    <2>2. /\ Places[33] = 33 /\ Places[34] = 34 /\ Places[35] = 35 /\ Places[322] = 36
          /\ Places[37] = 37 /\ Places[38] = 38 /\ Places[39] = 39 /\ Places[40] = 40
          /\ Places[41] = 41 /\ Places[42] = 42 /\ Places[43] = 43 /\ Places[44] = 44
          /\ Places[45] = 45 /\ Places[46] = 46 /\ Places[47] = 47 /\ Places[48] = 48
      BY SMTT(60) DEF Places
    <2> QED
      BY SMT, <2>1, <2>2 DEF PlaceOf
  <1>4. \A k \in 49..64 : PlaceOf(EbuLatin[k]) = k
    <2>1. /\ EbuLatin[49] = 49 /\ EbuLatin[50] = 50 /\ EbuLatin[51] = 51
          /\ EbuLatin[52] = 52 /\ EbuLatin[53] = 53 /\ EbuLatin[54] = 54
          /\ EbuLatin[55] = 55 /\ EbuLatin[56] = 56 /\ EbuLatin[57] = 57
          /\ EbuLatin[58] = 58 /\ EbuLatin[59] = 59 /\ EbuLatin[60] = 60
          /\ EbuLatin[61] = 61 /\ EbuLatin[62] = 62 /\ EbuLatin[63] = 63
          /\ EbuLatin[64] = 64
      BY SMTT(60) DEF EbuLatin
    <2>2. /\ Places[49] = 49 /\ Places[50] = 50 /\ Places[51] = 51 /\ Places[52] = 52
          /\ Places[53] = 53 /\ Places[54] = 54 /\ Places[55] = 55 /\ Places[56] = 56
          /\ Places[57] = 57 /\ Places[58] = 58 /\ Places[59] = 59 /\ Places[60] = 60
          /\ Places[61] = 61 /\ Places[62] = 62 /\ Places[63] = 63 /\ Places[64] = 64
      BY SMTT(60) DEF Places
    <2> QED
      BY SMT, <2>1, <2>2 DEF PlaceOf
  <1>5. \A k \in 65..80 : PlaceOf(EbuLatin[k]) = k
    <2>1. /\ EbuLatin[65] = 65 /\ EbuLatin[66] = 66 /\ EbuLatin[67] = 67
          /\ EbuLatin[68] = 68 /\ EbuLatin[69] = 69 /\ EbuLatin[70] = 70
          /\ EbuLatin[71] = 71 /\ EbuLatin[72] = 72 /\ EbuLatin[73] = 73
          /\ EbuLatin[74] = 74 /\ EbuLatin[75] = 75 /\ EbuLatin[76] = 76
          /\ EbuLatin[77] = 77 /\ EbuLatin[78] = 78 /\ EbuLatin[79] = 79
          /\ EbuLatin[80] = 80
      BY SMTT(60) DEF EbuLatin
    <2>2. /\ Places[65] = 65 /\ Places[66] = 66 /\ Places[67] = 67 /\ Places[68] = 68
          /\ Places[69] = 69 /\ Places[70] = 70 /\ Places[71] = 71 /\ Places[72] = 72
          /\ Places[73] = 73 /\ Places[74] = 74 /\ Places[75] = 75 /\ Places[76] = 76
          /\ Places[77] = 77 /\ Places[78] = 78 /\ Places[79] = 79 /\ Places[80] = 80
      BY SMTT(60) DEF Places
    <2> QED
      BY SMT, <2>1, <2>2 DEF PlaceOf
  <1>6. \A k \in 81..96 : PlaceOf(EbuLatin[k]) = k
    <2>1. /\ EbuLatin[81] = 81 /\ EbuLatin[82] = 82 /\ EbuLatin[83] = 83
          /\ EbuLatin[84] = 84 /\ EbuLatin[85] = 85 /\ EbuLatin[86] = 86
          /\ EbuLatin[87] = 87 /\ EbuLatin[88] = 88 /\ EbuLatin[89] = 89
          /\ EbuLatin[90] = 90 /\ EbuLatin[91] = 91 /\ EbuLatin[92] = 366
          /\ EbuLatin[93] = 93 /\ EbuLatin[94] = 321 /\ EbuLatin[95] = 95
          /\ EbuLatin[96] = 260
      BY SMTT(60) DEF EbuLatin
    <2>2. /\ Places[81] = 81 /\ Places[82] = 82 /\ Places[83] = 83 /\ Places[84] = 84
          /\ Places[85] = 85 /\ Places[86] = 86 /\ Places[87] = 87 /\ Places[88] = 88
          /\ Places[89] = 89 /\ Places[90] = 90 /\ Places[91] = 91 /\ Places[366] = 92
          /\ Places[93] = 93 /\ Places[321] = 94 /\ Places[95] = 95
          /\ Places[260] = 96
      BY SMTT(60) DEF Places
    <2> QED
      BY SMT, <2>1, <2>2 DEF PlaceOf
  <1>7. \A k \in 97..112 : PlaceOf(EbuLatin[k]) = k
    <2>1. /\ EbuLatin[97] = 97 /\ EbuLatin[98] = 98 /\ EbuLatin[99] = 99
          /\ EbuLatin[100] = 100 /\ EbuLatin[101] = 101 /\ EbuLatin[102] = 102
          /\ EbuLatin[103] = 103 /\ EbuLatin[104] = 104 /\ EbuLatin[105] = 105
          /\ EbuLatin[106] = 106 /\ EbuLatin[107] = 107 /\ EbuLatin[108] = 108
          /\ EbuLatin[109] = 109 /\ EbuLatin[110] = 110 /\ EbuLatin[111] = 111
          /\ EbuLatin[112] = 112
      BY SMTT(60) DEF EbuLatin
    <2>2. /\ Places[97] = 97 /\ Places[98] = 98 /\ Places[99] = 99
          /\ Places[100] = 100 /\ Places[101] = 101 /\ Places[102] = 102
          /\ Places[103] = 103 /\ Places[104] = 104 /\ Places[105] = 105
          /\ Places[106] = 106 /\ Places[107] = 107 /\ Places[108] = 108
          /\ Places[109] = 109 /\ Places[110] = 110 /\ Places[111] = 111
          /\ Places[112] = 112
      BY SMTT(60) DEF Places
    <2> QED
      BY SMT, <2>1, <2>2 DEF PlaceOf
  <1>8. \A k \in 113..128 : PlaceOf(EbuLatin[k]) = k
    <2>1. /\ EbuLatin[113] = 113 /\ EbuLatin[114] = 114 /\ EbuLatin[115] = 115
          /\ EbuLatin[116] = 116 /\ EbuLatin[117] = 117 /\ EbuLatin[118] = 118
          /\ EbuLatin[119] = 119 /\ EbuLatin[120] = 120 /\ EbuLatin[121] = 121
          /\ EbuLatin[122] = 122 /\ EbuLatin[123] = 171 /\ EbuLatin[124] = 367
          /\ EbuLatin[125] = 187 /\ EbuLatin[126] = 317 /\ EbuLatin[127] = 294
          /\ EbuLatin[128] = 225
      BY SMTT(60) DEF EbuLatin
    <2>2. /\ Places[113] = 113 /\ Places[114] = 114 /\ Places[115] = 115
          /\ Places[116] = 116 /\ Places[117] = 117 /\ Places[118] = 118
          /\ Places[119] = 119 /\ Places[120] = 120 /\ Places[121] = 121
          /\ Places[122] = 122 /\ Places[171] = 123 /\ Places[367] = 124
          /\ Places[187] = 125 /\ Places[317] = 126 /\ Places[294] = 127
          /\ Places[225] = 128
      BY SMTT(60) DEF Places
    <2> QED
      BY SMT, <2>1, <2>2 DEF PlaceOf
  <1>9. \A k \in 129..144 : PlaceOf(EbuLatin[k]) = k
    <2>1. /\ EbuLatin[129] = 224 /\ EbuLatin[130] = 233 /\ EbuLatin[131] = 232
          /\ EbuLatin[132] = 237 /\ EbuLatin[133] = 236 /\ EbuLatin[134] = 243
          /\ EbuLatin[135] = 242 /\ EbuLatin[136] = 250 /\ EbuLatin[137] = 249
          /\ EbuLatin[138] = 209 /\ EbuLatin[139] = 199 /\ EbuLatin[140] = 350
          /\ EbuLatin[141] = 223 /\ EbuLatin[142] = 161 /\ EbuLatin[143] = 376
          /\ EbuLatin[144] = 226
      BY SMTT(60) DEF EbuLatin
    <2>2. /\ Places[224] = 129 /\ Places[233] = 130 /\ Places[232] = 131
          /\ Places[237] = 132 /\ Places[236] = 133 /\ Places[243] = 134
          /\ Places[242] = 135 /\ Places[250] = 136 /\ Places[249] = 137
          /\ Places[209] = 138 /\ Places[199] = 139 /\ Places[350] = 140
          /\ Places[223] = 141 /\ Places[161] = 142 /\ Places[376] = 143
          /\ Places[226] = 144
      BY SMTT(60) DEF Places
    <2> QED
      BY SMT, <2>1, <2>2 DEF PlaceOf
  <1>10. \A k \in 145..160 : PlaceOf(EbuLatin[k]) = k
    <2>1. /\ EbuLatin[145] = 228 /\ EbuLatin[146] = 234 /\ EbuLatin[147] = 235
          /\ EbuLatin[148] = 238 /\ EbuLatin[149] = 239 /\ EbuLatin[150] = 244
          /\ EbuLatin[151] = 246 /\ EbuLatin[152] = 251 /\ EbuLatin[153] = 252
          /\ EbuLatin[154] = 241 /\ EbuLatin[155] = 231 /\ EbuLatin[156] = 351
          /\ EbuLatin[157] = 287 /\ EbuLatin[158] = 305 /\ EbuLatin[159] = 255
          /\ EbuLatin[160] = 310
      BY SMTT(60) DEF EbuLatin
    <2>2. /\ Places[228] = 145 /\ Places[234] = 146 /\ Places[235] = 147
          /\ Places[238] = 148 /\ Places[239] = 149 /\ Places[244] = 150
          /\ Places[246] = 151 /\ Places[251] = 152 /\ Places[252] = 153
          /\ Places[241] = 154 /\ Places[231] = 155 /\ Places[351] = 156
          /\ Places[287] = 157 /\ Places[305] = 158 /\ Places[255] = 159
          /\ Places[310] = 160
      BY SMTT(60) DEF Places
    <2> QED
      BY SMT, <2>1, <2>2 DEF PlaceOf
  <1>11. \A k \in 161..176 : PlaceOf(EbuLatin[k]) = k
    <2>1. /\ EbuLatin[161] = 325 /\ EbuLatin[162] = 169 /\ EbuLatin[163] = 290
          /\ EbuLatin[164] = 286 /\ EbuLatin[165] = 283 /\ EbuLatin[166] = 328
          /\ EbuLatin[167] = 337 /\ EbuLatin[168] = 336 /\ EbuLatin[169] = 8364
          /\ EbuLatin[170] = 163 /\ EbuLatin[171] = 36 /\ EbuLatin[172] = 256
          /\ EbuLatin[173] = 274 /\ EbuLatin[174] = 298 /\ EbuLatin[175] = 362
          /\ EbuLatin[176] = 311
      BY SMTT(60) DEF EbuLatin
    <2>2. /\ Places[325] = 161 /\ Places[169] = 162 /\ Places[290] = 163
          /\ Places[286] = 164 /\ Places[283] = 165 /\ Places[328] = 166
          /\ Places[337] = 167 /\ Places[336] = 168 /\ Places[163] = 170
          /\ Places[36] = 171 /\ Places[256] = 172 /\ Places[274] = 173
          /\ Places[298] = 174 /\ Places[362] = 175 /\ Places[311] = 176
      BY SMTT(60) DEF Places
    <2> QED
      BY SMT, <2>1, <2>2 DEF PlaceOf
  <1>12. \A k \in 177..192 : PlaceOf(EbuLatin[k]) = k
    <2>1. /\ EbuLatin[177] = 326 /\ EbuLatin[178] = 315 /\ EbuLatin[179] = 291
          /\ EbuLatin[180] = 316 /\ EbuLatin[181] = 304 /\ EbuLatin[182] = 324
          /\ EbuLatin[183] = 369 /\ EbuLatin[184] = 368 /\ EbuLatin[185] = 191
          /\ EbuLatin[186] = 318 /\ EbuLatin[187] = 176 /\ EbuLatin[188] = 257
          /\ EbuLatin[189] = 275 /\ EbuLatin[190] = 299 /\ EbuLatin[191] = 363
          /\ EbuLatin[192] = 193
      BY SMTT(60) DEF EbuLatin
    <2>2. /\ Places[326] = 177 /\ Places[315] = 178 /\ Places[291] = 179
          /\ Places[316] = 180 /\ Places[304] = 181 /\ Places[324] = 182
          /\ Places[369] = 183 /\ Places[368] = 184 /\ Places[191] = 185
          /\ Places[318] = 186 /\ Places[176] = 187 /\ Places[257] = 188
          /\ Places[275] = 189 /\ Places[299] = 190 /\ Places[363] = 191
          /\ Places[193] = 192
      BY SMTT(60) DEF Places
    <2> QED
      BY SMT, <2>1, <2>2 DEF PlaceOf
  <1>13. \A k \in 193..208 : PlaceOf(EbuLatin[k]) = k
    <2>1. /\ EbuLatin[193] = 192 /\ EbuLatin[194] = 201 /\ EbuLatin[195] = 200
          /\ EbuLatin[196] = 205 /\ EbuLatin[197] = 204 /\ EbuLatin[198] = 211
          /\ EbuLatin[199] = 210 /\ EbuLatin[200] = 218 /\ EbuLatin[201] = 217
          /\ EbuLatin[202] = 344 /\ EbuLatin[203] = 268 /\ EbuLatin[204] = 352
          /\ EbuLatin[205] = 381 /\ EbuLatin[206] = 208 /\ EbuLatin[207] = 319
          /\ EbuLatin[208] = 194
      BY SMTT(60) DEF EbuLatin
    <2>2. /\ Places[192] = 193 /\ Places[201] = 194 /\ Places[200] = 195
          /\ Places[205] = 196 /\ Places[204] = 197 /\ Places[211] = 198
          /\ Places[210] = 199 /\ Places[218] = 200 /\ Places[217] = 201
          /\ Places[344] = 202 /\ Places[268] = 203 /\ Places[352] = 204
          /\ Places[381] = 205 /\ Places[208] = 206 /\ Places[319] = 207
          /\ Places[194] = 208
      BY SMTT(60) DEF Places
    <2> QED
      BY SMT, <2>1, <2>2 DEF PlaceOf
  <1>14. \A k \in 209..224 : PlaceOf(EbuLatin[k]) = k
    <2>1. /\ EbuLatin[209] = 196 /\ EbuLatin[210] = 202 /\ EbuLatin[211] = 203
          /\ EbuLatin[212] = 206 /\ EbuLatin[213] = 207 /\ EbuLatin[214] = 212
          /\ EbuLatin[215] = 214 /\ EbuLatin[216] = 219 /\ EbuLatin[217] = 220
          /\ EbuLatin[218] = 345 /\ EbuLatin[219] = 269 /\ EbuLatin[220] = 353
          /\ EbuLatin[221] = 382 /\ EbuLatin[222] = 273 /\ EbuLatin[223] = 320
          /\ EbuLatin[224] = 195
      BY SMTT(60) DEF EbuLatin
    <2>2. /\ Places[196] = 209 /\ Places[202] = 210 /\ Places[203] = 211
          /\ Places[206] = 212 /\ Places[207] = 213 /\ Places[212] = 214
          /\ Places[214] = 215 /\ Places[219] = 216 /\ Places[220] = 217
          /\ Places[345] = 218 /\ Places[269] = 219 /\ Places[353] = 220
          /\ Places[382] = 221 /\ Places[273] = 222 /\ Places[320] = 223
          /\ Places[195] = 224
      BY SMTT(60) DEF Places
    <2> QED
      BY SMT, <2>1, <2>2 DEF PlaceOf
  <1>15. \A k \in 225..240 : PlaceOf(EbuLatin[k]) = k
    <2>1. /\ EbuLatin[225] = 197 /\ EbuLatin[226] = 198 /\ EbuLatin[227] = 338
          /\ EbuLatin[228] = 375 /\ EbuLatin[229] = 221 /\ EbuLatin[230] = 213
          /\ EbuLatin[231] = 216 /\ EbuLatin[232] = 222 /\ EbuLatin[233] = 330
          /\ EbuLatin[234] = 340 /\ EbuLatin[235] = 262 /\ EbuLatin[236] = 346
          /\ EbuLatin[237] = 377 /\ EbuLatin[238] = 356 /\ EbuLatin[239] = 240
          /\ EbuLatin[240] = 227
      BY SMTT(60) DEF EbuLatin
    <2>2. /\ Places[197] = 225 /\ Places[198] = 226 /\ Places[338] = 227
          /\ Places[375] = 228 /\ Places[221] = 229 /\ Places[213] = 230
          /\ Places[216] = 231 /\ Places[222] = 232 /\ Places[330] = 233
          /\ Places[340] = 234 /\ Places[262] = 235 /\ Places[346] = 236
          /\ Places[377] = 237 /\ Places[356] = 238 /\ Places[240] = 239
          /\ Places[227] = 240
      BY SMTT(60) DEF Places
    <2> QED
      BY SMT, <2>1, <2>2 DEF PlaceOf
  <1>16. \A k \in 241..255 : PlaceOf(EbuLatin[k]) = k
    <2>1. /\ EbuLatin[241] = 229 /\ EbuLatin[242] = 230 /\ EbuLatin[243] = 339
          /\ EbuLatin[244] = 373 /\ EbuLatin[245] = 253 /\ EbuLatin[246] = 245
          /\ EbuLatin[247] = 248 /\ EbuLatin[248] = 254 /\ EbuLatin[249] = 331
          /\ EbuLatin[250] = 341 /\ EbuLatin[251] = 263 /\ EbuLatin[252] = 347
          /\ EbuLatin[253] = 378 /\ EbuLatin[254] = 357 /\ EbuLatin[255] = 295
      BY SMTT(60) DEF EbuLatin
    <2>2. /\ Places[229] = 241 /\ Places[230] = 242 /\ Places[339] = 243
          /\ Places[373] = 244 /\ Places[253] = 245 /\ Places[245] = 246
          /\ Places[248] = 247 /\ Places[254] = 248 /\ Places[331] = 249
          /\ Places[341] = 250 /\ Places[263] = 251 /\ Places[347] = 252
          /\ Places[378] = 253 /\ Places[357] = 254 /\ Places[295] = 255
      BY SMTT(60) DEF Places
    <2> QED
      BY SMT, <2>1, <2>2 DEF PlaceOf
  <1> QED
    BY SMT, <1>1, <1>2, <1>3, <1>4, <1>5, <1>6, <1>7, <1>8, <1>9, <1>10, <1>11,
       <1>12, <1>13, <1>14, <1>15, <1>16

\* No two bytes have the same code.
LEMMA LatinInjective ==
  ASSUME NEW j \in 1..255, NEW k \in 1..255, EbuLatin[j] = EbuLatin[k]
  PROVE  j = k
  <1>1. PlaceOf(EbuLatin[j]) = j /\ PlaceOf(EbuLatin[k]) = k
    BY LatinPlaces
  <1> QED
    BY <1>1

-----------------------------------------------------------------------------
(* The conversions keep their types.                                       *)

\* The octets that Charset enumerates.
LEMMA OctetsAre == Octet = 0..255
  BY SMT DEF Octet

\* The bytes of the characters.
Bytes(cps) == [k \in DOMAIN cps |-> EbuOf(cps[k])]

\* What utf8_to_ebu makes of a text that it does not throw at.
Forth(whole, s, e) ==
  LET r == utf8to32(Prefix(whole, s)) IN r.err = "UTF8_OK" /\ e = Bytes(r.cps)

\* They are a string.
LEMMA BytesType ==
  ASSUME NEW cps \in Seq(Nat)
  PROVE  Bytes(cps) \in Seq(Octet)
  <1>1. DOMAIN cps = 1..Len(cps) /\ Len(cps) \in Nat
    OBVIOUS
  <1>2. \A k \in 1..Len(cps) : EbuOf(cps[k]) \in Octet
    <2> TAKE k \in 1..Len(cps)
    <2> DEFINE cp == cps[k]
    <2> HIDE DEF cp
    <2>1. EbuOf(cp) \in 1..255
      BY EbuOfByte
    <2>2. EbuOf(cp) \in Octet
      BY <2>1, OctetsAre
    <2> QED
      BY <2>2 DEF cp
  <1>3. Bytes(cps) = [k \in 1..Len(cps) |-> EbuOf(cps[k])]
    BY <1>1 DEF Bytes
  <1> QED
    BY <1>1, <1>2, <1>3

\* What a byte of EBU Latin stands for.
CodeOf(byte) == IF byte >= 1 THEN EbuLatin[byte] ELSE 8263

\* It is a valid code point.
LEMMA CodeOfValid ==
  ASSUME NEW byte \in Octet
  PROVE  CodeOf(byte) \in Valid
  <1>1. CASE byte >= 1
    <2>1. byte \in 1..255
      BY <1>1, OctetsAre
    <2> DEFINE cp == EbuLatin[byte]
    <2>2. cp \in CodePoints
      BY <2>1, Codes
    <2>3. CodeOf(byte) = cp
      BY <1>1 DEF CodeOf
    <2> HIDE DEF cp
    <2> QED
      BY <2>2, <2>3 DEF CodePoints, Valid
  <1>2. CASE ~(byte >= 1)
    <2>1. CodeOf(byte) = 8263
      BY <1>2 DEF CodeOf
    <2>2. 8263 \in Nat /\ is_code_point_valid(8263)
      BY SMT DEF is_code_point_valid, CODE_POINT_MAX, is_surrogate
    <2> QED
      BY SMT, <2>1, <2>2 DEF Valid
  <1> QED
    BY <1>1, <1>2

\* ebu_to_utf8 puts together the encodings of the characters.
LEMMA EbuEncoded ==
  ASSUME NEW e \in Seq(Octet)
  PROVE  /\ [k \in DOMAIN e |-> CodeOf(e[k])] \in Seq(Valid)
         /\ ebu_to_utf8(e) = FlattenSeq(Encoded([k \in DOMAIN e |-> CodeOf(e[k])]))
         /\ ebu_to_utf8(e) \in Seq(Octet)
  <1> DEFINE cps == [k \in DOMAIN e |-> CodeOf(e[k])]
             parts == [k \in DOMAIN e |->
                         IF e[k] >= 1 THEN utf8_encoded_EBU_Latin[e[k]] ELSE append(8263)]
  <1>1. DOMAIN e = 1..Len(e) /\ Len(e) \in Nat
    OBVIOUS
  <1>2. \A k \in 1..Len(e) : CodeOf(e[k]) \in Valid
    BY CodeOfValid
  <1>3. cps \in Seq(Valid)
    <2>1. cps = [k \in 1..Len(e) |-> CodeOf(e[k])]
      BY <1>1
    <2> HIDE DEF cps
    <2> QED
      BY <1>1, <1>2, <2>1
  <1>4. parts = Encoded(cps)
    <2>1. ASSUME NEW k \in DOMAIN e
          PROVE  (IF e[k] >= 1 THEN utf8_encoded_EBU_Latin[e[k]] ELSE append(8263))
                   = append(CodeOf(e[k]))
      <3> DEFINE byte == e[k]
      <3>1. byte \in Octet
        BY <1>1
      <3> HIDE DEF byte
      <3>2. CASE byte >= 1
        <4>1. byte \in 1..255
          BY <3>1, <3>2, OctetsAre
        <4>2. utf8_encoded_EBU_Latin[byte] = append(EbuLatin[byte])
          BY <4>1, ConversionTable
        <4>3. CodeOf(byte) = EbuLatin[byte]
          BY <3>2 DEF CodeOf
        <4> HIDE DEF CodeOf
        <4>4. append(CodeOf(byte)) = append(EbuLatin[byte])
          BY <4>3
        <4> QED
          BY <3>2, <4>2, <4>4 DEF byte
      <3>3. CASE ~(byte >= 1)
        <4>1. CodeOf(byte) = 8263
          BY <3>3 DEF CodeOf
        <4>2. append(CodeOf(byte)) = append(8263)
          BY <4>1
        <4> QED
          BY <3>3, <4>2 DEF byte
      <3> QED
        BY <3>2, <3>3
    <2>2. Encoded(cps) = [k \in DOMAIN e |-> append(CodeOf(e[k]))]
      BY DEF Encoded
    <2>3. parts = [k \in DOMAIN e |-> append(CodeOf(e[k]))]
      BY <2>1
    <2> QED
      BY <2>2, <2>3
  <1>5. ebu_to_utf8(e) = FlattenSeq(parts)
    BY DEF ebu_to_utf8
  <1> HIDE DEF cps, parts
  <1>6. ebu_to_utf8(e) = FlattenSeq(Encoded(cps))
    BY <1>4, <1>5
  <1>7. ebu_to_utf8(e) \in Seq(Octet)
    BY <1>3, <1>6, EncodedType, FlattenType
  <1> QED
    BY <1>3, <1>6, <1>7 DEF cps

-----------------------------------------------------------------------------
(* What the strings of a trip have to do with each other.                  *)

TripInv ==
  /\ from = "utf8" =>
       /\ Len(trip) > 1 => Forth(~up_to_first_error, trip[1], trip[2])
       /\ Len(trip) > 2 => trip[3] = ebu_to_utf8(trip[2])
       /\ thrown # "UTF8_OK" =>
            Len(trip) = 1 /\ thrown = utf8to32(Prefix(~up_to_first_error, trip[1])).err
  /\ from = "ebu" =>
       /\ Len(trip[1]) = 2
       /\ Len(trip) > 1 => trip[2] = ebu_to_utf8(trip[1])
       /\ Len(trip) > 2 => Forth(~up_to_first_error, trip[2], trip[3])

\* The inductive invariant.
CharsetInv == TypeOK /\ TripInv

\* Functions from an interval are sequences.
LEMMA FunctionIsSeq ==
  ASSUME NEW S, NEW n \in Nat, NEW s \in [1..n -> S]
  PROVE  s \in Seq(S)
  OBVIOUS

\* The strings that a trip begins with.
LEMMA LineTypes ==
  ASSUME CharsetAssumption, NEW s \in Lines
  PROVE  s \in Seq(Octet)
  <1>1. Octets \subseteq Octet /\ MaxOctets \in Nat
    BY OctetsAre DEF CharsetAssumption
  <1>2. \/ s \in UNION {[1..n -> Octets] : n \in 0..MaxOctets}
        \/ s \in [1..4 -> Octets]
    BY DEF Lines
  <1>3. CASE s \in UNION {[1..n -> Octets] : n \in 0..MaxOctets}
    <2>1. PICK n \in 0..MaxOctets : s \in [1..n -> Octets]
      BY <1>3
    <2>2. n \in Nat /\ s \in [1..n -> Octet]
      BY <1>1, <2>1
    <2> QED
      BY <2>2
  <1>4. CASE s \in [1..4 -> Octets]
    <2>1. s \in [1..4 -> Octet]
      BY <1>1, <1>4
    <2> QED
      BY <2>1, FunctionIsSeq
  <1> QED
    BY <1>2, <1>3, <1>4

\* A trip begins with one string, and nothing said of it yet.
LEMMA InitCharsetInv ==
  ASSUME CharsetAssumption, Init
  PROVE  CharsetInv
  <1>1. from \in {"utf8", "ebu"} /\ up_to_first_error \in BOOLEAN /\ thrown = "UTF8_OK"
    BY DEF Init
  <1>2. CASE from = "utf8" /\ \E s \in Lines : trip = <<s>>
    <2>1. PICK s \in Lines : trip = <<s>>
      BY <1>2
    <2>2. s \in Seq(0..255)
      BY LineTypes, OctetsAre
    <2>3. trip \in Seq(Seq(0..255)) /\ Len(trip) = 1
      BY <2>1, <2>2
    <2> QED
      BY <1>1, <1>2, <2>3 DEF CharsetInv, TypeOK, TripInv
  <1>3. CASE from = "ebu" /\ \E b \in 0..255, c \in Octets \cup {0} : trip = <<<<b, c>>>>
    <2>1. PICK b \in 0..255, c \in Octets \cup {0} : trip = <<<<b, c>>>>
      BY <1>3
    <2>2. c \in 0..255
      BY DEF CharsetAssumption
    <2> DEFINE e == <<b, c>>
    <2>3. e \in Seq(0..255) /\ Len(e) = 2
      BY <2>2
    <2>4. trip = <<e>>
      BY <2>1
    <2> HIDE DEF e
    <2>5. trip \in Seq(Seq(0..255)) /\ Len(trip) = 1 /\ trip[1] = e
      BY <2>3, <2>4
    <2> QED
      BY <1>1, <1>3, <2>3, <2>5 DEF CharsetInv, TypeOK, TripInv
  <1> QED
    BY <1>2, <1>3 DEF Init

\* It holds too where a text is never converted.
LEMMA CharsetRests ==
  ASSUME trip \in Seq(Seq(0..255)), Len(trip) = 1,
         from = "utf8", up_to_first_error \in BOOLEAN, thrown = "UTF8_OK"
  PROVE  CharsetInv
  BY DEF CharsetInv, TypeOK, TripInv

\* A trip with one more string.
LEMMA AppendTrip ==
  ASSUME NEW t \in Seq(Seq(Octet)), Len(t) \in 1..2, NEW e \in Seq(Octet)
  PROVE  /\ Append(t, e) \in Seq(Seq(Octet)) /\ Len(Append(t, e)) = Len(t) + 1
         /\ Append(t, e)[Len(t) + 1] = e
         /\ Append(t, e)[1] = t[1]
         /\ Len(t) = 2 => Append(t, e)[2] = t[2]
  OBVIOUS

\* A conversion appends its result, or throws.
LEMMA NextCharsetInv ==
  ASSUME CharsetInv, Next
  PROVE  CharsetInv'
  <1> DEFINE s == Last(trip)
             n == Len(trip)
             whole == ~up_to_first_error
             t == trip'
  <1>1. /\ from \in {"utf8", "ebu"} /\ up_to_first_error \in BOOLEAN
        /\ trip \in Seq(Seq(Octet)) /\ n \in 1..3 /\ thrown \in Errors
    BY OctetsAre DEF CharsetInv, TypeOK, Errors
  <1>2. from' = from /\ up_to_first_error' = up_to_first_error
    BY DEF Next, utf8_to_ebu, EbuToUtf8
  <1>3. n \in 1..2
    <2>1. n < 3
      BY DEF Next, utf8_to_ebu, EbuToUtf8
    <2> HIDE DEF n
    <2> QED
      BY <1>1, <2>1
  <1>4. s \in Seq(Octet) /\ s = trip[n]
    BY <1>1 DEF Last
  <1>5. /\ IsUtf8(n) => (from = "utf8" /\ n = 1) \/ (from = "ebu" /\ n = 2)
        /\ ~IsUtf8(n) => (from = "utf8" /\ n = 2) \/ (from = "ebu" /\ n = 1)
    <2> HIDE DEF n
    <2>1. CASE n = 1
      <3>1. 1 % 2 = 1
        OBVIOUS
      <3>2. IsUtf8(n) <=> from = "utf8"
        BY <2>1, <3>1 DEF IsUtf8
      <3> QED
        BY <1>1, <2>1, <3>2
    <2>2. CASE n = 2
      <3>1. 2 % 2 # 1
        OBVIOUS
      <3>2. IsUtf8(n) <=> from # "utf8"
        BY <2>2, <3>1 DEF IsUtf8
      <3> QED
        BY <1>1, <2>2, <3>2
    <2> QED
      BY <1>3, <2>1, <2>2
  <1>6. ASSUME NEW e \in Seq(Octet), trip' = Append(trip, e)
        PROVE  /\ t \in Seq(Seq(Octet)) /\ Len(t) = n + 1 /\ t[n + 1] = e /\ t[1] = trip[1]
               /\ n = 2 => t[2] = trip[2]
    BY <1>1, <1>3, <1>6, AppendTrip
  <1>7. ASSUME t \in Seq(Seq(Octet)), Len(t) \in 1..3, thrown' \in Errors
        PROVE  TypeOK'
    BY <1>1, <1>2, <1>7, OctetsAre DEF TypeOK, Errors
  <1>8. ASSUME utf8_to_ebu
        PROVE  CharsetInv'
    <2> DEFINE r == utf8to32(Prefix(whole, s))
    <2>1. r \in Texts32
      BY <1>1, <1>4, Converted
    <2>2. IsUtf8(n) /\ thrown = "UTF8_OK"
      BY <1>8 DEF utf8_to_ebu
    <2>3. Prefix(whole, s) = ToConvert(s)
      BY <1>1 DEF Prefix, ToConvert
    <2>4. CASE r.err = "UTF8_OK"
      <3> DEFINE e == Bytes(r.cps)
      <3>1. t = Append(trip, e) /\ thrown' = thrown
        BY <1>8, <2>3, <2>4 DEF utf8_to_ebu, Bytes
      <3>2. Forth(whole, s, e)
        BY <2>4 DEF Forth
      <3>3. e \in Seq(Octet)
        <4>1. r.cps \in Seq(Nat)
          BY <2>1 DEF Texts32
        <4> HIDE DEF r
        <4> QED
          BY <4>1, BytesType
      <3> HIDE DEF e, r, s
      <3>4. /\ t \in Seq(Seq(Octet)) /\ Len(t) = n + 1 /\ t[n + 1] = e /\ t[1] = trip[1]
            /\ n = 2 => t[2] = trip[2]
        BY <1>6, <3>1, <3>3
      <3>5. thrown' \in Errors /\ thrown' = "UTF8_OK"
        BY <1>1, <2>2, <3>1
      <3>8. TypeOK'
        <4>1. Len(t) \in 1..3
          <5> HIDE DEF t, n
          <5> QED
            BY <1>3, <3>4
        <4> QED
          BY <1>7, <3>4, <3>5, <4>1
      <3> HIDE DEF t
      <3>6. CASE from = "utf8" /\ n = 1
        <4>1. Len(t) = 2 /\ Forth(whole, t[1], t[2])
          BY <1>4, <3>2, <3>4, <3>6
        <4>2. TripInv'
          BY <1>2, <3>5, <3>6, <4>1 DEF TripInv, t
        <4> QED
          BY <3>8, <4>2 DEF CharsetInv
      <3>7. CASE from = "ebu" /\ n = 2
        <4>1. Len(t) = 3 /\ Forth(whole, t[2], t[3]) /\ t[1] = trip[1] /\ t[2] = trip[2]
          BY <1>4, <3>2, <3>4, <3>7
        <4>2. Len(trip[1]) = 2 /\ trip[2] = ebu_to_utf8(trip[1])
          BY <3>7 DEF CharsetInv, TripInv
        <4>3. TripInv'
          BY <1>2, <3>7, <4>1, <4>2 DEF TripInv, t
        <4> QED
          BY <3>8, <4>3 DEF CharsetInv
      <3> QED
        BY <1>5, <2>2, <3>6, <3>7
    <2>5. CASE r.err # "UTF8_OK"
      <3>1. trip' = trip /\ thrown' = r.err
        BY <1>8, <2>3, <2>5 DEF utf8_to_ebu
      <3>2. r.err \in Errors
        BY <2>1 DEF Texts32
      <3>3. TypeOK'
        BY <1>1, <1>7, <3>1, <3>2
      <3>4. TripInv'
        <4>1. CASE from = "utf8" /\ n = 1
          <5>1. thrown' = utf8to32(Prefix(whole, trip[1])).err
            BY <1>4, <3>1, <4>1
          <5> HIDE DEF r, s
          <5> QED
            BY <1>2, <3>1, <4>1, <5>1 DEF TripInv
        <4>2. CASE from = "ebu" /\ n = 2
          <5> HIDE DEF r, s
          <5> QED
            BY <1>2, <3>1, <4>2 DEF TripInv, CharsetInv
        <4> QED
          BY <1>5, <2>2, <4>1, <4>2
      <3> QED
        BY <3>3, <3>4 DEF CharsetInv
    <2> QED
      BY <2>4, <2>5
  <1>9. ASSUME EbuToUtf8
        PROVE  CharsetInv'
    <2> DEFINE e == ebu_to_utf8(s)
    <2>1. t = Append(trip, e) /\ thrown' = thrown /\ ~IsUtf8(n)
      BY <1>9 DEF EbuToUtf8
    <2>2. e \in Seq(Octet)
      BY <1>4, EbuEncoded
    <2>3. e = ebu_to_utf8(trip[n])
      BY <1>4
    <2> HIDE DEF e, s
    <2>4. /\ t \in Seq(Seq(Octet)) /\ Len(t) = n + 1 /\ t[n + 1] = e /\ t[1] = trip[1]
          /\ n = 2 => t[2] = trip[2]
      BY <1>6, <2>1, <2>2
    <2>5. thrown' \in Errors
      BY <1>1, <2>1
    <2>8. TypeOK'
      <3>1. Len(t) \in 1..3
        <4> HIDE DEF t, n
        <4> QED
          BY <1>3, <2>4
      <3> QED
        BY <1>7, <2>4, <2>5, <3>1
    <2> HIDE DEF t
    <2>6. CASE from = "utf8" /\ n = 2
      <3>1. Len(t) = 3 /\ t[3] = ebu_to_utf8(t[2]) /\ t[1] = trip[1] /\ t[2] = trip[2]
        BY <2>3, <2>4, <2>6
      <3>2. Forth(whole, trip[1], trip[2]) /\ thrown = "UTF8_OK"
        BY <2>6 DEF CharsetInv, TripInv
      <3>3. TripInv'
        BY <1>2, <2>1, <2>6, <3>1, <3>2 DEF TripInv, t
      <3> QED
        BY <2>8, <3>3 DEF CharsetInv
    <2>7. CASE from = "ebu" /\ n = 1
      <3>1. Len(t) = 2 /\ t[2] = ebu_to_utf8(t[1]) /\ t[1] = trip[1]
        BY <2>3, <2>4, <2>7
      <3>2. Len(trip[1]) = 2
        BY <2>7 DEF CharsetInv, TripInv
      <3>3. TripInv'
        BY <1>2, <2>7, <3>1, <3>2 DEF TripInv, t
      <3> QED
        BY <2>8, <3>3 DEF CharsetInv
    <2> QED
      BY <1>5, <2>1, <2>6, <2>7
  <1> QED
    BY <1>8, <1>9 DEF Next

\* A stutter of the variables keeps the invariant.
LEMMA CharsetStutters ==
  ASSUME CharsetInv, UNCHANGED vars
  PROVE  CharsetInv'
  BY DEF CharsetInv, TypeOK, TripInv, vars

\* The invariant is enough for both properties: the first, by the count of
\* the boundaries,
LEMMA InvConverts ==
  ASSUME CharsetInv
  PROVE  ConvertsWellFormedPrefix
  <1> SUFFICES ASSUME from = "utf8"
               PROVE  LET b == Boundaries(trip[1])
                      IN /\ Len(trip) > 1 => Len(trip[2]) = Cardinality(b) - 1
                         /\ Len(trip) > 1 /\ ~up_to_first_error => Len(trip[1]) + 1 \in b
                         /\ thrown # "UTF8_OK" => ~up_to_first_error /\ Len(trip[1]) + 1 \notin b
    BY DEF ConvertsWellFormedPrefix
  <1> DEFINE s == trip[1]
             whole == ~up_to_first_error
             r == utf8to32(Prefix(whole, s))
             b == Boundaries(s)
  <1>1. /\ up_to_first_error \in BOOLEAN /\ trip \in Seq(Seq(Octet)) /\ Len(trip) \in 1..3
        /\ s \in Seq(Octet)
    BY OctetsAre DEF CharsetInv, TypeOK
  <1>2. /\ Len(trip) > 1 => Forth(whole, s, trip[2])
        /\ thrown # "UTF8_OK" => thrown = r.err
    BY DEF CharsetInv, TripInv
  <1>3. /\ r \in Texts32
        /\ r.err = "UTF8_OK" => /\ Len(r.cps) = Cardinality(b) - 1
                                /\ whole => Len(s) + 1 \in b
        /\ r.err # "UTF8_OK" => whole /\ Len(s) + 1 \notin b
    <2>1. whole \in BOOLEAN
      OBVIOUS
    <2> HIDE DEF whole, s
    <2> QED
      BY <1>1, <2>1, Converted
  <1>4. ASSUME Len(trip) > 1
        PROVE  Len(trip[2]) = Cardinality(b) - 1 /\ (whole => Len(s) + 1 \in b)
    <2>1. r.err = "UTF8_OK" /\ trip[2] = Bytes(r.cps)
      BY <1>2, <1>4 DEF Forth
    <2>2. r.cps \in Seq(Nat)
      BY <1>3 DEF Texts32
    <2> DEFINE cps == r.cps
    <2>3. Len(Bytes(cps)) = Len(cps)
      <3>1. cps \in Seq(Nat)
        BY <2>2
      <3> HIDE DEF cps
      <3> QED
        BY <3>1 DEF Bytes
    <2> HIDE DEF r, b, s, whole
    <2> QED
      BY <1>3, <2>1, <2>3
  <1>5. ASSUME thrown # "UTF8_OK"
        PROVE  whole /\ Len(s) + 1 \notin b
    <2> HIDE DEF r, b, s, whole
    <2> QED
      BY <1>2, <1>3, <1>5
  <1> QED
    BY <1>4, <1>5

\* and the second, because the code points encode to the text again and no two
\* bytes stand for the same one.
LEMMA BytesBack ==
  ASSUME NEW cps \in Seq(Valid), \A k \in 1..Len(cps) : \E j \in 1..255 : EbuLatin[j] = cps[k]
  PROVE  ebu_to_utf8(Bytes(cps)) = FlattenSeq(Encoded(cps))
  <1> DEFINE e == Bytes(cps)
             again == [k \in DOMAIN e |-> CodeOf(e[k])]
  <1>1. DOMAIN cps = 1..Len(cps) /\ Len(cps) \in Nat /\ cps \in Seq(Nat)
    BY DEF Valid
  <1>2. e \in Seq(Octet)
    BY <1>1, BytesType
  <1>3. e = [k \in 1..Len(cps) |-> EbuOf(cps[k])]
    BY <1>1 DEF Bytes
  <1>4. ASSUME NEW k \in 1..Len(cps) PROVE CodeOf(e[k]) = cps[k]
    <2> DEFINE cp == cps[k]
               byte == EbuOf(cp)
    <2>1. e[k] = byte
      BY <1>3
    <2>2. \E j \in 1..255 : EbuLatin[j] = cp
      OBVIOUS
    <2> HIDE DEF cp, e
    <2>3. byte \in 1..255 /\ EbuLatin[byte] = cp
      BY <2>2, EbuOfByte
    <2> HIDE DEF byte
    <2>4. CodeOf(byte) = cp
      BY <2>3 DEF CodeOf
    <2> QED
      BY <2>1, <2>4 DEF cp
  <1>5. again = cps
    <2>1. DOMAIN e = 1..Len(cps)
      BY <1>3
    <2>2. again = [k \in 1..Len(cps) |-> cps[k]]
      <3> HIDE DEF e
      <3> QED
        BY <1>4, <2>1
    <2> QED
      BY <1>1, <2>2
  <1>6. ebu_to_utf8(e) = FlattenSeq(Encoded(again))
    <2> HIDE DEF e
    <2> QED
      BY <1>2, EbuEncoded
  <1> HIDE DEF again
  <1> QED
    BY <1>5, <1>6

\* A byte comes back from its code, and NUL as a space.
LEMMA EbuOfCodeOf ==
  ASSUME NEW byte \in Octet
  PROVE  EbuOf(CodeOf(byte)) = IF byte = 0 THEN 32 ELSE byte
  <1>1. CASE byte = 0
    <2>1. CodeOf(byte) = 8263
      BY <1>1 DEF CodeOf
    <2>2. \A k \in 1..255 : EbuLatin[k] # 8263
      <3> TAKE k \in 1..255
      <3> DEFINE cp == EbuLatin[k]
      <3>1. cp \in CodePoints
        BY Codes
      <3> HIDE DEF cp
      <3>2. cp # 8263
        BY <3>1 DEF CodePoints
      <3> QED
        BY <3>2 DEF cp
    <2>3. EbuOf(8263) = 32
      BY <2>2, EbuOfByte
    <2> QED
      BY <1>1, <2>1, <2>3
  <1>2. CASE byte # 0
    <2>1. byte \in 1..255
      BY <1>2, OctetsAre
    <2> DEFINE cp == EbuLatin[byte]
               back == EbuOf(cp)
    <2>2. CodeOf(byte) = cp
      BY <2>1 DEF CodeOf
    <2>3. \E k \in 1..255 : EbuLatin[k] = cp
      BY <2>1
    <2>4. back \in 1..255 /\ EbuLatin[back] = cp
      <3> HIDE DEF cp
      <3> QED
        BY <2>3, EbuOfByte
    <2>5. back = byte
      <3>1. EbuLatin[back] = EbuLatin[byte]
        BY <2>4
      <3> HIDE DEF back
      <3> QED
        BY <2>1, <2>4, <3>1, LatinInjective
    <2> QED
      BY <1>2, <2>2, <2>5
  <1> QED
    BY <1>1, <1>2

\* The text or the string at the end of a trip is the one at its start.
LEMMA InvThereAndBack ==
  ASSUME CharsetInv
  PROVE  ThereAndBack
  <1> DEFINE whole == ~up_to_first_error
  <1>1. /\ whole \in BOOLEAN /\ from \in {"utf8", "ebu"}
        /\ trip \in Seq(Seq(Octet)) /\ Len(trip) \in 1..3 /\ trip[1] \in Seq(Octet)
    BY OctetsAre DEF CharsetInv, TypeOK
  <1>2. ASSUME Len(trip) = 3, from = "ebu"
        PROVE  trip[3] = [k \in DOMAIN trip[1] |-> IF trip[1][k] = 0 THEN 32 ELSE trip[1][k]]
    <2> DEFINE e == trip[1]
               s == trip[2]
               cps == [k \in DOMAIN e |-> CodeOf(e[k])]
               x == CodeOf(e[1])
               y == CodeOf(e[2])
    <2>1. /\ Len(e) = 2 /\ s = ebu_to_utf8(e) /\ Forth(whole, s, trip[3]) /\ e \in Seq(Octet)
      BY <1>1, <1>2 DEF CharsetInv, TripInv
    <2>2. DOMAIN e = 1..2 /\ e[1] \in Octet /\ e[2] \in Octet
      <3> HIDE DEF e
      <3> QED
        BY <2>1
    <2>3. x \in Valid /\ y \in Valid
      BY <2>2, CodeOfValid
    <2>4. cps = <<x, y>>
      BY <2>2
    <2>5. Encoded(cps) = <<append(x), append(y)>>
      <3> HIDE DEF x, y, cps
      <3> QED
        BY <2>4 DEF Encoded
    <2>6. append(x) \in Seq(Octet) /\ append(y) \in Seq(Octet)
      <3> HIDE DEF x, y
      <3> QED
        BY <2>3, AppendWellFormed DEF Valid
    <2>7. s = append(x) \o append(y)
      <3>1. s = FlattenSeq(Encoded(cps))
        <4> HIDE DEF e
        <4> QED
          BY <2>1, EbuEncoded
      <3> HIDE DEF x, y, cps, s
      <3> QED
        BY <2>5, <2>6, <3>1, FlattenShort
    <2> HIDE DEF x, y
    <2>8. /\ s \in Seq(Octet) /\ Len(s) + 1 \in Boundaries(s)
          /\ utf8to32(s) = [cps |-> <<x, y>>, err |-> "UTF8_OK"]
      <3> HIDE DEF s
      <3> QED
        BY <2>3, <2>7, TwoDecoded
    <2>9. Prefix(whole, s) = s
      <3> HIDE DEF s
      <3>1. find_invalid(s) = Len(s) + 1
        <4>1. find_invalid(s) \in 1..Len(s) + 1 /\ Len(s) + 1 <= find_invalid(s)
              /\ Len(s) \in Nat
          BY <2>8, InvalidIsLast, BoundaryOf
        <4> QED
          BY <4>1
      <3>2. (Len(s) + 1) - 1 = Len(s)
        BY <2>8
      <3>3. SubSeq(s, 1, Len(s)) = s
        BY <2>8
      <3> QED
        BY <3>1, <3>2, <3>3 DEF Prefix
    <2>10. trip[3] = Bytes(<<x, y>>)
      BY <2>1, <2>8, <2>9 DEF Forth
    <2>11. Bytes(<<x, y>>) = <<EbuOf(x), EbuOf(y)>>
      BY DEF Bytes
    <2>12. /\ EbuOf(x) = IF e[1] = 0 THEN 32 ELSE e[1]
           /\ EbuOf(y) = IF e[2] = 0 THEN 32 ELSE e[2]
      BY <2>2, EbuOfCodeOf DEF x, y
    <2> HIDE DEF e
    <2>13. [k \in DOMAIN e |-> IF e[k] = 0 THEN 32 ELSE e[k]] = <<EbuOf(x), EbuOf(y)>>
      BY <2>2, <2>12
    <2> QED
      BY <2>10, <2>11, <2>13 DEF e
  <1>3. ASSUME Len(trip) = 3, from = "utf8",
               Range(utf8to32(SubSeq(trip[1], 1, Max(Boundaries(trip[1])) - 1)).cps)
                 \subseteq Range(EbuLatin)
        PROVE  trip[3] = SubSeq(trip[1], 1, Max(Boundaries(trip[1])) - 1)
    <2> DEFINE s == trip[1]
               t == Prefix(whole, s)
               r == utf8to32(t)
               cps == r.cps
    <2>1. Forth(whole, s, trip[2]) /\ trip[3] = ebu_to_utf8(trip[2])
      BY <1>3 DEF CharsetInv, TripInv
    <2>2. r.err = "UTF8_OK" /\ trip[2] = Bytes(cps)
      BY <2>1 DEF Forth
    <2>3. /\ t \in Seq(Octet) /\ Len(t) + 1 \in Boundaries(t)
          /\ t = SubSeq(s, 1, Max(Boundaries(s)) - 1)
      <3> HIDE DEF whole, s
      <3> QED
        BY <1>1, <2>2, Converted DEF s
    <2>4. cps \in Seq(Valid) /\ FlattenSeq(Encoded(cps)) = t
      <3> HIDE DEF t
      <3> QED
        BY <2>3, EncodedBack
    <2>5. Range(cps) \subseteq Range(EbuLatin)
      BY <1>3, <2>3
    <2> HIDE DEF cps, t, r
    <2>6. ASSUME NEW k \in 1..Len(cps) PROVE \E j \in 1..255 : EbuLatin[j] = cps[k]
      <3>1. cps[k] \in Range(EbuLatin)
        <4>1. DOMAIN cps = 1..Len(cps)
          BY <2>4
        <4>2. cps[k] \in Range(cps)
          BY <4>1 DEF Range
        <4> QED
          BY <2>5, <4>2
      <3>2. DOMAIN EbuLatin = 1..255
        BY SMTT(60) DEF EbuLatin
      <3> QED
        BY <3>1, <3>2 DEF Range
    <2>7. ebu_to_utf8(Bytes(cps)) = t
      BY <2>4, <2>6, BytesBack
    <2> QED
      BY <2>1, <2>2, <2>3, <2>7
  <1> QED
    BY <1>1, <1>2, <1>3 DEF ThereAndBack
=============================================================================
