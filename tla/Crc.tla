--------------------------------- MODULE Crc ---------------------------------
(***************************************************************************)
(* lib/crc.c: the cyclic redundancy checks of 8, 16 and 32 bits, a byte at *)
(* a time by a table, and the functions that build a table for another     *)
(* polynomial.  The three widths have the same code but for the constants. *)
(*                                                                         *)
(* A word is the set of its bits that are 1, bit 0 the lowest: ^ is SymDiff*)
(* and 32 bits need no large numbers.  One behaviour takes a table, feeds  *)
(* it bytes, and keeps what it has fed.                                    *)
(***************************************************************************)
EXTENDS Integers, Sequences, FiniteSetsExt

CONSTANTS
  Codes,    \* for each width the l_code of the functions that build a table
  Data,     \* the bytes to feed, as words
  MaxData   \* bound: the bytes of one message

VARIABLES
  width,        \* which of the three
  rebuilt,      \* has the table been built anew
  code,         \* its polynomial, but for the highest term
  l_crc,        \* what the last call returned, or the l_crc of the first
  start, data   \* the l_crc of the first call, and the bytes since

vars == <<width, rebuilt, code, l_crc, start, data>>

Widths == {8, 16, 32}
Byte == 0..7
Word(w) == 0..(w - 1)

\* A word from its two halves of 16 bits, the higher one first.
FromHalves(h) ==
  {k \in 0..15 : (h[2] \div 2^k) % 2 = 1} \cup {k \in 16..31 : (h[1] \div 2^(k - 16)) % 2 = 1}

Left(w, n, word) == {k + n : k \in word} \cap Word(w)
Right(n, word) == {k - n : k \in {j \in word : j >= n}}

-----------------------------------------------------------------------------
\* The entries of the tables in the file at 1, 2, 4, ..., 128.  Each of the
\* others is the exclusive or of those for its bits, as module MCUtilities
\* assures by comparing with all of them (module CrcTables).
PowersInFile == [w \in Widths |->
  CASE w = 8 -> <<<<0, 7>>, <<0, 14>>, <<0, 28>>, <<0, 56>>,
                  <<0, 112>>, <<0, 224>>, <<0, 199>>, <<0, 137>>>>
    [] w = 16 -> <<<<0, 4129>>, <<0, 8258>>, <<0, 16516>>, <<0, 33032>>,
                   <<0, 4657>>, <<0, 9314>>, <<0, 18628>>, <<0, 37256>>>>
    [] w = 32 -> <<<<1217, 7607>>, <<2434, 15214>>, <<4868, 30428>>, <<9736, 60856>>,
                   <<19473, 56176>>, <<38947, 46816>>, <<13446, 28791>>, <<26892, 57582>>>>]

TablesInFile == [w \in Widths |->
  LET powers == [k \in Byte |-> FromHalves(PowersInFile[w][k + 1])]
  IN [i \in SUBSET Byte |->
        {b \in Word(w) : Cardinality({k \in i : b \in powers[k]}) % 2 = 1}]]

CodeInFile == [w \in Widths |-> FromHalves(PowersInFile[w][1])]

\* Mutant of Entry: the byte is not complemented.
EntryPlain(w, c, init, i) ==
  LET crc[j \in 0..8] ==
        IF j = 0 THEN init
        ELSE LET last == crc[j - 1]
                 msb == ((8 - j) \in i) # ((w - 1) \in last)
             IN SymDiff(Left(w, 1, last), IF msb THEN c ELSE {})
  IN SymDiff(crc[8], Word(w) \ Byte)

\* One turn of the loops of init_crc8tab, init_crc16tab and init_crc32tab: the
\* entry for i after the eight steps of the inner loop, crc[j] after j of them.
Entry(w, c, init, i) ==
  LET crc[j \in 0..8] ==
        IF j = 0 THEN init
        ELSE LET last == crc[j - 1]
                 msb == ((8 - j) \in Byte \ i) # ((w - 1) \in last)
             IN SymDiff(Left(w, 1, last), IF msb THEN c ELSE {})
  IN SymDiff(crc[8], Word(w) \ Byte)

\* The tables that they build from an l_init of ones, which the complement of
\* the byte and the last step of the loop are made for.
TablesBuilt == [w \in Widths |->
  [c \in Codes[w] |-> [i \in SUBSET Byte |-> Entry(w, c, Word(w), i)]]]

Table == IF rebuilt THEN TablesBuilt[width][code] ELSE TablesInFile[width]

\* Polynomials have the width of their table, and bytes eight bits.
CrcAssumption ==
  /\ \A w \in Widths : Codes[w] \subseteq SUBSET Word(w)
  /\ Data \subseteq SUBSET Byte
  /\ MaxData \in Nat

-----------------------------------------------------------------------------
TypeOK ==
  /\ width \in Widths
  /\ rebuilt \in BOOLEAN
  /\ {code, l_crc, start} \subseteq SUBSET Word(width)
  /\ data \in Seq(Data) /\ Len(data) <= MaxData

Init ==
  /\ width \in Widths
  /\ rebuilt = FALSE
  /\ code = CodeInFile[width]
  /\ start \in {{}, Word(width)} /\ l_crc = start
  /\ data = <<>>

InitTable ==
  /\ ~rebuilt /\ data = <<>>
  /\ rebuilt' = TRUE
  /\ code' \in Codes[width]
  /\ UNCHANGED <<width, l_crc, start, data>>

\* Mutant of Step: the byte meets the low end of the register.
StepLow(crc, byte) ==
  SymDiff(Left(width, 8, crc), Table[SymDiff(crc \cap Byte, byte)])

\* One turn of the loops of crc8, crc16 and crc32; of eight bits the shift
\* leaves none.
Step(crc, byte) ==
  SymDiff(Left(width, 8, crc), Table[SymDiff(Right(width - 8, crc), byte)])

Feed ==
  /\ Len(data) < MaxData
  /\ \E b \in Data : l_crc' = Step(l_crc, b) /\ data' = Append(data, b)
  /\ UNCHANGED <<width, rebuilt, code, start>>

Next == InitTable \/ Feed

Spec == Init /\ [][Next]_vars

-----------------------------------------------------------------------------
(* Properties.                                                             *)

\* What is left of a polynomial over GF(2) below degree n after a division by
\* x^w + c, rest[d] being what is left below degree d.
Remainder(n, w, c, p) ==
  LET rest[d \in w..n] ==
        IF d = n THEN p
        ELSE LET q == rest[d + 1]
             IN IF d \in q THEN SymDiff(q, {k + d - w : k \in c \cup {w}}) ELSE q
  IN rest[w]

\* The register after the bytes is the remainder of the polynomial that they
\* and the first l_crc make, for the tables in the file and for those built
\* for another polynomial ("This function can be used to create a new table
\* with a different polynom"): the tables, the way the byte enters and the
\* constants of the three widths all agree.
CrcIsRemainder ==
  LET bits == 8 * Len(data)
      message == UNION {{k + width + bits - 8 * n : k \in data[n]} : n \in DOMAIN data}
  IN l_crc = Remainder(width + bits, width, code,
                       SymDiff(message, {k + bits : k \in start}))
=============================================================================
