------------------------------ MODULE CrcProofs ------------------------------
(***************************************************************************)
(* The CRCs of lib/crc.c divide by their polynomials: for messages of any  *)
(* length, for the tables in the file and for those built for any other    *)
(* polynomial, in all three widths.                                        *)
(*                                                                         *)
(* The link is Division, the division of one byte by w-bit registers:      *)
(* an entry of a table is one, and the last eight steps of the division of *)
(* a message by its bits are one too.                                      *)
(***************************************************************************)
EXTENDS Crc, InductionProofs

\* The remainders of the bits of a byte i, the highest first, behind w zeros.
Division(w, c, i, r) ==
  /\ r[0] = {}
  /\ \A j \in 1..8 :
       r[j] = SymDiff(Left(w, 1, r[j - 1]),
                      IF ((8 - j) \in i) # ((w - 1) \in r[j - 1]) THEN c ELSE {})

\* Words bit by bit.
LEMMA Bits ==
  ASSUME NEW A, NEW B
  PROVE  \A b : b \in SymDiff(A, B) <=> (b \in A) # (b \in B)
  BY DEF SymDiff

\* Words with the same bits are the same.
LEMMA SameWord ==
  ASSUME NEW n \in Nat, NEW A \in SUBSET Word(n), NEW B \in SUBSET Word(n),
         \A b \in Word(n) : b \in A <=> b \in B
  PROVE  A = B
  OBVIOUS

\* The bits of a word moved to the left.
LEMMA LeftBits ==
  ASSUME NEW w \in Nat, NEW n \in Nat, NEW q \in SUBSET Int
  PROVE  /\ Left(w, n, q) \subseteq Word(w)
         /\ \A b \in Word(w) : b \in Left(w, n, q) <=> b - n \in q
  BY DEF Left, Word

\* The bits of a word moved to the right.
LEMMA RightBits ==
  ASSUME NEW n \in Nat, NEW q \in SUBSET Int
  PROVE  \A b \in Int : b \in Right(n, q) <=> b >= 0 /\ b + n \in q
  BY DEF Right

-----------------------------------------------------------------------------
(* The tables.                                                             *)

\* The loop of an entry.
EntrySteps(w, c, init, i, crc) ==
  /\ crc[0] = init
  /\ \A j \in 1..8 :
       crc[j] = SymDiff(Left(w, 1, crc[j - 1]),
                        IF ((8 - j) \in Byte \ i) # ((w - 1) \in crc[j - 1])
                        THEN c ELSE {})

\* The function that Entry recurs on has a value after each step.
LEMMA EntryLoop ==
  ASSUME NEW w \in Widths, NEW c \in SUBSET Word(w), NEW init \in SUBSET Word(w),
         NEW i \in SUBSET Byte
  PROVE  \E crc \in [0..8 -> SUBSET Word(w)] :
           /\ EntrySteps(w, c, init, i, crc)
           /\ Entry(w, c, init, i) = SymDiff(crc[8], Word(w) \ Byte)
  <1> DEFINE Next1(j, last) ==
               SymDiff(Left(w, 1, last),
                       IF ((8 - j) \in Byte \ i) # ((w - 1) \in last) THEN c ELSE {})
             V == SUBSET Word(w)
             D == 0..8
             step == [j \in D |-> [g \in [D -> V] |->
                        IF j = 0 THEN init ELSE Next1(j, g[j - 1])]]
             rank == [j \in D |-> j]
  <1>1. \A j \in 0..8, last \in V : Next1(j, last) \in V
    BY DEF SymDiff, Left
  <1>2. step \in [D -> [[D -> V] -> V]]
    <2> HIDE DEF Next1
    <2> QED
      BY <1>1
  <1>3. \A d \in D : \A g, h \in [D -> V] :
          (\A e \in D : rank[e] < rank[d] => g[e] = h[e]) => step[d][g] = step[d][h]
    <2> HIDE DEF Next1
    <2> QED
      OBVIOUS
  <1>4. PICK f \in [D -> V] : \A d \in D : f[d] = step[d][f]
    <2>1. V # {} /\ 8 \in Nat /\ rank \in [D -> 0..8]
      OBVIOUS
    <2> HIDE DEF step, rank, V, D
    <2>2. Ranked(D, V, 8, rank, step)
      BY <1>2, <1>3, <2>1 DEF Ranked
    <2> QED
      BY <2>2, Recursion DEF Solves
  <1>5. f = [j \in 0..8 |->
               IF j = 0 THEN init
               ELSE LET last == f[j - 1]
                        msb == ((8 - j) \in Byte \ i) # ((w - 1) \in last)
                    IN SymDiff(Left(w, 1, last), IF msb THEN c ELSE {})]
    BY <1>4, SMT
  <1> DEFINE Equation(crc) ==
        crc = [j \in 0..8 |->
                 IF j = 0 THEN init
                 ELSE LET last == crc[j - 1]
                          msb == ((8 - j) \in Byte \ i) # ((w - 1) \in last)
                      IN SymDiff(Left(w, 1, last), IF msb THEN c ELSE {})]
             chosen == CHOOSE crc : Equation(crc)
  <1>6. Equation(chosen)
    <2>1. Equation(f)
      BY <1>5
    <2> HIDE DEF Equation
    <2> QED
      BY <2>1
  <1>7. Entry(w, c, init, i) = SymDiff(chosen[8], Word(w) \ Byte)
    BY DEF Entry
  <1> HIDE DEF chosen
  <1>8. chosen \in [0..8 -> V]
    <2>1. \A j \in 0..8 : chosen[j] \in V
      BY <1>6 DEF SymDiff, Left
    <2> QED
      BY <1>6, <2>1
  <1> QED
    BY <1>6, <1>7, <1>8 DEF EntrySteps

\* An entry is the remainder of its index: the complement of the byte, the
\* ones of the register and the last step of the loop cancel.
LEMMA EntryDivides ==
  ASSUME NEW w \in Widths, NEW c \in SUBSET Word(w), NEW i \in SUBSET Byte
  PROVE  \E r \in [0..8 -> SUBSET Word(w)] :
           Division(w, c, i, r) /\ Entry(w, c, Word(w), i) = r[8]
  <1>0. Word(w) \in SUBSET Word(w)
    OBVIOUS
  <1>1. PICK crc \in [0..8 -> SUBSET Word(w)] :
           /\ EntrySteps(w, c, Word(w), i, crc)
           /\ Entry(w, c, Word(w), i) = SymDiff(crc[8], Word(w) \ Byte)
    BY <1>0, EntryLoop
  <1>2. w \in {8, 16, 32}
    BY DEF Widths
  <1> DEFINE r == [j \in 0..8 |-> SymDiff(crc[j], j..w - 1)]
  <1>3. r \in [0..8 -> SUBSET Word(w)]
    <2>1. ASSUME NEW j \in 0..8 PROVE SymDiff(crc[j], j..w - 1) \in SUBSET Word(w)
      BY <1>1, <1>2 DEF SymDiff, Word
    <2> QED
      BY <2>1
  <1>4. r[0] = {}
    BY <1>1, <1>2 DEF EntrySteps, SymDiff, Word
  <1>5. ASSUME NEW j \in 1..8
        PROVE  r[j] = SymDiff(Left(w, 1, r[j - 1]),
                              IF ((8 - j) \in i) # ((w - 1) \in r[j - 1]) THEN c ELSE {})
    <2> DEFINE last == crc[j - 1]
               old == r[j - 1]
    <2>1. last \in SUBSET Word(w) /\ old \in SUBSET Word(w)
      BY <1>1, <1>3
    <2>2. \A b \in Word(w) : b \in old <=> (b \in last) # (b >= j - 1)
      BY <1>1, <1>2, Bits DEF Word
    <2>3. \A b \in Word(w) : b \in r[j] <=> (b \in crc[j]) # (b >= j)
      BY <1>1, <1>2, Bits DEF Word
    <2>4. ((8 - j) \in Byte \ i) # ((w - 1) \in last)
            <=> ((8 - j) \in i) # ((w - 1) \in old)
      <3>1. (8 - j) \in Byte \ i <=> ~((8 - j) \in i)
        BY DEF Byte
      <3>2. w - 1 \in Word(w) /\ w - 1 >= j - 1
        BY <1>2 DEF Word
      <3>3. w - 1 \in old <=> ~(w - 1 \in last)
        <4> HIDE DEF old, last
        <4> QED
          BY <2>2, <3>2
      <3> QED
        BY <3>1, <3>3
    <2>5. crc[j] = SymDiff(Left(w, 1, last),
                           IF ((8 - j) \in i) # ((w - 1) \in old) THEN c ELSE {})
      BY <1>1, <2>4 DEF EntrySteps
    <2>6. r[j] \in SUBSET Word(w)
      BY <1>3
    <2> HIDE DEF last, old, r
    <2>7. \A b \in Word(w) : b \in Left(w, 1, last) <=> (b \in Left(w, 1, old)) # (b >= j)
      <3>1. \A b \in Word(w) : /\ b \in Left(w, 1, last) <=> b - 1 \in last
                               /\ b \in Left(w, 1, old) <=> b - 1 \in old
        BY <1>2, <2>1, LeftBits DEF Word
      <3> QED
        BY <1>2, <2>1, <2>2, <3>1 DEF Word
    <2> DEFINE x == IF ((8 - j) \in i) # ((w - 1) \in old) THEN c ELSE {}
    <2> HIDE DEF x
    <2>8. \A b \in Word(w) : b \in r[j] <=> (b \in Left(w, 1, old)) # (b \in x)
      BY <2>3, <2>5, <2>7, Bits DEF x
    <2>9. Left(w, 1, old) \subseteq Word(w) /\ x \subseteq Word(w)
      BY <1>2, <2>1, LeftBits DEF x, Word
    <2>10. r[j] = SymDiff(Left(w, 1, old), x)
      <3>1. SymDiff(Left(w, 1, old), x) \in SUBSET Word(w)
        BY <2>9 DEF SymDiff
      <3>2. \A b \in Word(w) : b \in SymDiff(Left(w, 1, old), x) <=> b \in r[j]
        BY <2>8, Bits
      <3> QED
        BY <2>6, <3>1, <3>2
    <2> QED
      BY <2>10 DEF x, old
  <1>6. Entry(w, c, Word(w), i) = r[8]
    <2>1. Word(w) \ Byte = 8..w - 1
      BY <1>2 DEF Word, Byte
    <2>2. r[8] = SymDiff(crc[8], 8..w - 1)
      OBVIOUS
    <2> QED
      BY <1>1, <2>1, <2>2, Zenon
  <1> HIDE DEF r
  <1> QED
    BY <1>3, <1>4, <1>5, <1>6 DEF Division

-----------------------------------------------------------------------------
(* Entries as sums of the entries for the single bits.                     *)

Odd(s) == Cardinality(s) % 2 = 1

\* The parity of an exclusive or.
LEMMA OddSum ==
  ASSUME NEW A \in SUBSET Byte, NEW B \in SUBSET Byte
  PROVE  Odd(SymDiff(A, B)) <=> ~(Odd(A) <=> Odd(B))
  <1>1. IsFiniteSet(Byte)
    <2>1. \A n \in Nat : IsFiniteSet(0..n)
      BY FS_Interval
    <2> QED
      BY <2>1 DEF Byte
  <1>2. IsFiniteSet(A) /\ IsFiniteSet(B) /\ IsFiniteSet(A \cap B)
        /\ IsFiniteSet(A \ B) /\ IsFiniteSet(B \ A)
    <2>1. A \cap B \in SUBSET Byte /\ A \ B \in SUBSET Byte /\ B \ A \in SUBSET Byte
      OBVIOUS
    <2> QED
      BY <1>1, <2>1, FS_Subset
  <1>3. /\ Cardinality(A) \in Nat /\ Cardinality(B) \in Nat
        /\ Cardinality(A \cap B) \in Nat
    BY <1>2, FS_CardinalityType
  <1>4. /\ Cardinality(A \ B) = Cardinality(A) - Cardinality(A \cap B)
        /\ Cardinality(B \ A) = Cardinality(B) - Cardinality(B \cap A)
    BY <1>2, FS_Difference
  <1>5. B \cap A = A \cap B /\ (A \ B) \cap (B \ A) = {}
    OBVIOUS
  <1>6. Cardinality((A \ B) \cup (B \ A)) =
          Cardinality(A \ B) + Cardinality(B \ A) - Cardinality((A \ B) \cap (B \ A))
    BY <1>2, FS_Union
  <1>7. Cardinality((A \ B) \cap (B \ A)) = 0
    BY <1>5, FS_EmptySet
  <1> DEFINE a == Cardinality(A)
             b == Cardinality(B)
             both == Cardinality(A \cap B)
  <1>8. Cardinality(SymDiff(A, B)) = a + b - 2 * both
    <2>1. Cardinality(SymDiff(A, B)) = Cardinality((A \ B) \cup (B \ A))
      BY DEF SymDiff
    <2>2. Cardinality(A \ B) = a - both
      BY <1>4
    <2>3. Cardinality(B \ A) = b - both
      BY <1>4, <1>5
    <2>4. a \in Nat /\ b \in Nat /\ both \in Nat
      BY <1>3
    <2> HIDE DEF a, b, both
    <2> QED
      BY <1>6, <1>7, <2>1, <2>2, <2>3, <2>4
  <1>9. a \in Nat /\ b \in Nat /\ both \in Nat
    BY <1>3
  <1>10. (Odd(A) <=> a % 2 = 1) /\ (Odd(B) <=> b % 2 = 1)
         /\ (Odd(SymDiff(A, B)) <=> (a + b - 2 * both) % 2 = 1)
    BY <1>8 DEF Odd
  <1> HIDE DEF a, b, both
  <1> QED
    BY <1>9, <1>10

LEMMA NotOdd == ~Odd({})
  BY FS_EmptySet DEF Odd

\* One is odd, none is not.
LEMMA OddOne == ASSUME NEW x PROVE Odd({x})
  <1>1. IsFiniteSet({}) /\ Cardinality({}) = 0
    BY FS_EmptySet
  <1>2. Cardinality({} \cup {x}) = 1
    BY <1>1, FS_AddElement
  <1>3. {} \cup {x} = {x}
    OBVIOUS
  <1> QED
    BY <1>2, <1>3 DEF Odd

\* Entries for 1, 2, 4, ..., 128, each got from the one before.
Powers(w, c, p) ==
  /\ p[0] = c
  /\ \A k \in 0..6 :
       p[k + 1] = SymDiff(Left(w, 1, p[k]), IF w - 1 \in p[k] THEN c ELSE {})

\* Their sums are remainders.
LEMMA SumDivides ==
  ASSUME NEW w \in Widths, NEW c \in SUBSET Word(w), NEW i \in SUBSET Byte,
         NEW p \in [Byte -> SUBSET Word(w)], Powers(w, c, p)
  PROVE  \E r \in [0..8 -> SUBSET Word(w)] :
           /\ Division(w, c, i, r)
           /\ r[8] = {b \in Word(w) : Odd({k \in i : b \in p[k]})}
  <1>0. w \in Nat /\ w >= 8
    BY DEF Widths
  <1> DEFINE Parts(j, b) == {k \in i : k >= 8 - j /\ b \in p[k - (8 - j)]}
             r == [j \in 0..8 |-> {b \in Word(w) : Odd(Parts(j, b))}]
  <1>1. r \in [0..8 -> SUBSET Word(w)]
    OBVIOUS
  <1>2. r[0] = {}
    <2>1. ASSUME NEW b, NEW k \in Parts(0, b)
          PROVE  FALSE
      BY DEF Byte
    <2> HIDE DEF Parts
    <2>2. \A b : Parts(0, b) = {}
      BY <2>1
    <2> QED
      BY <2>1, <2>2, NotOdd
  <1>3. ASSUME NEW j \in 1..8
        PROVE  r[j] = SymDiff(Left(w, 1, r[j - 1]),
                              IF ((8 - j) \in i) # ((w - 1) \in r[j - 1]) THEN c ELSE {})
    <2> DEFINE old == r[j - 1]
               top == 8 - j
    <2>0. /\ j - 1 \in 0..8 /\ j \in 0..8 /\ 8 - (j - 1) = top + 1
          /\ top \in 0..7 /\ top \in Byte
      BY DEF Byte
    <2>1. \A b \in Word(w) : b \in old <=> Odd(Parts(j - 1, b))
      BY <2>0
    <2>2. \A b \in Word(w) : b \in r[j] <=> Odd(Parts(j, b))
      BY <2>0
    <2>3. \A b : Parts(j - 1, b) = {k \in i : k >= top + 1 /\ b \in p[k - (top + 1)]}
      BY <2>0
    <2>4. \A b : Parts(j, b) = {k \in i : k >= top /\ b \in p[k - top]}
      OBVIOUS
    <2>5. \A x \in 0..8 : \A b : Parts(x, b) \in SUBSET Byte
      OBVIOUS
    <2>6. old \in SUBSET Word(w) /\ r[j] \in SUBSET Word(w)
      BY <1>1, <2>0
    <2> HIDE DEF Parts, r, old, top
    <2>7. ASSUME NEW b \in Word(w)
          PROVE  b \in r[j] <=> (b - 1 \in old) # (b \in c /\ ((top \in i) # (w - 1 \in old)))
      <3> DEFINE now == IF b \in c /\ top \in i THEN {top} ELSE {}
                 carry == IF b \in c THEN Parts(j - 1, w - 1) ELSE {}
                 shifted == Parts(j - 1, b - 1)
      <3>1. ASSUME NEW k \in i, k >= top + 1
            PROVE  b \in p[k - top] <=>
                     (b - 1 \in p[k - (top + 1)]) # (b \in c /\ w - 1 \in p[k - (top + 1)])
        <4> DEFINE m == k - (top + 1)
        <4>1. m \in 0..6 /\ m \in Byte /\ m + 1 = k - top
          BY <2>0, <3>1 DEF Byte
        <4> HIDE DEF m
        <4>2. p[m + 1] = SymDiff(Left(w, 1, p[m]), IF w - 1 \in p[m] THEN c ELSE {})
          BY <4>1 DEF Powers
        <4>3. b \in Left(w, 1, p[m]) <=> b - 1 \in p[m]
          <5>1. p[m] \in SUBSET Int
            BY <4>1 DEF Word
          <5> QED
            BY <1>0, <5>1, LeftBits
        <4>4. b \in p[m + 1] <=> (b - 1 \in p[m]) # (b \in c /\ w - 1 \in p[m])
          BY <4>2, <4>3, Bits
        <4>5. m + 1 = k - top /\ m = k - (top + 1)
          BY <4>1 DEF m
        <4> QED
          BY <4>4, <4>5
      <3>2. \A k : k \in shifted <=> k \in i /\ k >= top + 1 /\ b - 1 \in p[k - (top + 1)]
        BY <2>3
      <3>3. \A k : k \in carry <=>
              b \in c /\ k \in i /\ k >= top + 1 /\ w - 1 \in p[k - (top + 1)]
        BY <2>3
      <3>4. \A k : k \in Parts(j, b) <=> k \in i /\ k >= top /\ b \in p[k - top]
        BY <2>4
      <3>5. \A k \in i : k >= top <=> k = top \/ k >= top + 1
        BY <2>0 DEF Byte
      <3>6. p[top - top] = c /\ ~(top >= top + 1) /\ top >= top
        BY <2>0 DEF Powers
      <3>7. \A k : k \in now <=> k = top /\ b \in c /\ top \in i
        OBVIOUS
      <3> HIDE DEF now, carry, shifted
      <3>8. Parts(j, b) = SymDiff(now, SymDiff(shifted, carry))
        <4>1. ASSUME NEW k
              PROVE  k \in Parts(j, b) <=> (k \in now) # ((k \in shifted) # (k \in carry))
          <5>1. CASE k \notin i
            BY <3>2, <3>3, <3>4, <3>7, <5>1
          <5>2. CASE k \in i /\ k = top
            BY <3>2, <3>3, <3>4, <3>6, <3>7, <5>2
          <5>3. CASE k \in i /\ k # top /\ k >= top + 1
            BY <3>1, <3>2, <3>3, <3>4, <3>5, <3>7, <5>3
          <5>4. CASE k \in i /\ k # top /\ ~(k >= top + 1)
            BY <3>2, <3>3, <3>4, <3>5, <3>7, <5>4
          <5> QED
            BY <5>1, <5>2, <5>3, <5>4
        <4> QED
          BY <4>1 DEF SymDiff
      <3>9. /\ now \in SUBSET Byte /\ shifted \in SUBSET Byte /\ carry \in SUBSET Byte
            /\ SymDiff(shifted, carry) \in SUBSET Byte
        BY <2>0, <3>2, <3>3, <3>7 DEF SymDiff
      <3>10. Odd(Parts(j, b)) <=> ~(Odd(now) <=> ~(Odd(shifted) <=> Odd(carry)))
        <4>1. Odd(SymDiff(shifted, carry)) <=> ~(Odd(shifted) <=> Odd(carry))
          BY <3>9, OddSum
        <4>2. Odd(SymDiff(now, SymDiff(shifted, carry))) <=>
                ~(Odd(now) <=> Odd(SymDiff(shifted, carry)))
          BY <3>9, OddSum
        <4> QED
          BY <3>8, <4>1, <4>2
      <3>11. Odd(now) <=> b \in c /\ top \in i
        BY OddOne, NotOdd DEF now
      <3>12. Odd(carry) <=> b \in c /\ w - 1 \in old
        <4>1. w - 1 \in Word(w)
          BY <1>0 DEF Word
        <4> QED
          BY <2>1, <4>1, NotOdd DEF carry
      <3>13. Odd(shifted) <=> b - 1 \in old
        <4>1. CASE b - 1 \in Word(w)
          BY <2>1, <4>1 DEF shifted
        <4>2. CASE b - 1 \notin Word(w)
          <5>1. b - 1 \notin old
            BY <2>6, <4>2
          <5>2. ASSUME NEW k \in shifted PROVE FALSE
            <6>1. k \in i /\ k >= top + 1 /\ b - 1 \in p[k - (top + 1)]
              BY <3>2
            <6>2. k - (top + 1) \in Byte
              BY <2>0, <6>1 DEF Byte
            <6> QED
              BY <4>2, <6>1, <6>2
          <5>3. shifted = {}
            BY <5>2
          <5> QED
            BY <5>1, <5>3, NotOdd
        <4> QED
          BY <4>1, <4>2
      <3>14. b \in r[j] <=> (b \in c /\ top \in i) # ((b - 1 \in old) # (b \in c /\ w - 1 \in old))
        BY <2>2, <3>10, <3>11, <3>12, <3>13
      <3> QED
        BY <3>14
    <2> DEFINE x == IF (top \in i) # (w - 1 \in old) THEN c ELSE {}
    <2>8. \A b \in Word(w) : b \in r[j] <=> (b \in Left(w, 1, old)) # (b \in x)
      <3>1. old \in SUBSET Int
        BY <2>6 DEF Word
      <3>2. \A b \in Word(w) : b \in Left(w, 1, old) <=> b - 1 \in old
        BY <1>0, <3>1, LeftBits
      <3> QED
        BY <2>7, <3>2
    <2>9. r[j] = SymDiff(Left(w, 1, old), x)
      <3>1. Left(w, 1, old) \subseteq Word(w) /\ x \subseteq Word(w)
        BY DEF Left
      <3> HIDE DEF x
      <3>2. SymDiff(Left(w, 1, old), x) \in SUBSET Word(w)
        BY <3>1 DEF SymDiff
      <3>3. \A b \in Word(w) : b \in SymDiff(Left(w, 1, old), x) <=> b \in r[j]
        BY <2>8, Bits
      <3> QED
        BY <2>6, <3>2, <3>3
    <2> QED
      BY <2>9 DEF old, top
  <1>4. r[8] = {b \in Word(w) : Odd({k \in i : b \in p[k]})}
    <2>1. ASSUME NEW b
          PROVE  Parts(8, b) = {k \in i : b \in p[k]}
      <3>1. \A k \in i : k >= 8 - 8 /\ k - (8 - 8) = k
        BY DEF Byte
      <3> QED
        BY <3>1
    <2> QED
      BY <2>1
  <1> HIDE DEF r
  <1> QED
    BY <1>1, <1>2, <1>3, <1>4 DEF Division

-----------------------------------------------------------------------------
(* The tables in the file.                                                 *)

Two == <<1, 2, 4, 8, 16, 32, 64, 128, 256, 512, 1024, 2048, 4096, 8192, 16384, 32768>>

\* What the bits of a half are tested with.
LEMMA PowersOfTwo == \A k \in 0..15 : 2^k = Two[k + 1]
  <1>1. /\ 2^0 = Two[0 + 1] /\ 2^1 = Two[1 + 1] /\ 2^2 = Two[2 + 1] /\ 2^3 = Two[3 + 1]
        /\ 2^4 = Two[4 + 1] /\ 2^5 = Two[5 + 1] /\ 2^6 = Two[6 + 1] /\ 2^7 = Two[7 + 1]
        /\ 2^8 = Two[8 + 1] /\ 2^9 = Two[9 + 1] /\ 2^10 = Two[10 + 1] /\ 2^11 = Two[11 + 1]
        /\ 2^12 = Two[12 + 1] /\ 2^13 = Two[13 + 1] /\ 2^14 = Two[14 + 1] /\ 2^15 = Two[15 + 1]
    BY DEF Two
  <1>2. \A k \in 0..7 : 2^k = Two[k + 1]
    <2>1. \A k \in 0..7 :
            k = 0 \/ k = 1 \/ k = 2 \/ k = 3 \/ k = 4 \/ k = 5 \/ k = 6 \/ k = 7
      OBVIOUS
    <2> QED
      BY <1>1, <2>1, ZenonT(60)
  <1>3. \A k \in 8..15 : 2^k = Two[k + 1]
    <2>1. \A k \in 8..15 :
            k = 8 \/ k = 9 \/ k = 10 \/ k = 11 \/ k = 12 \/ k = 13 \/ k = 14 \/ k = 15
      OBVIOUS
    <2> QED
      BY <1>1, <2>1, ZenonT(60)
  <1>4. \A k \in 0..15 : k \in 0..7 \/ k \in 8..15
    OBVIOUS
  <1> QED
    BY <1>2, <1>3, <1>4, Zenon

\* x has the bits of a.
Spells(x, a) == \A k \in 0..15 : (x \div Two[k + 1]) % 2 = 1 <=> k \in a

\* A word from its halves, bit by bit.
LEMMA Halves ==
  ASSUME NEW h \in Nat, NEW l \in Nat, NEW a \in SUBSET (0..15), NEW b \in SUBSET (0..15),
         Spells(h, a), Spells(l, b)
  PROVE  FromHalves(<<h, l>>) = b \cup {k + 16 : k \in a}
  <1> DEFINE f == FromHalves(<<h, l>>)
  <1>1. \A k : k \in f <=> \/ k \in 0..15 /\ (l \div 2^k) % 2 = 1
                           \/ k \in 16..31 /\ (h \div 2^(k - 16)) % 2 = 1
    BY DEF FromHalves
  <1>2. \A k \in 0..15 : (l \div 2^k) % 2 = 1 <=> k \in b
    BY PowersOfTwo, Zenon DEF Spells
  <1>3. \A k \in 0..15 : (h \div 2^k) % 2 = 1 <=> k \in a
    BY PowersOfTwo, Zenon DEF Spells
  <1>4. \A k \in 16..31 : (h \div 2^(k - 16)) % 2 = 1 <=> k - 16 \in a
    <2>1. \A k \in 16..31 : k - 16 \in 0..15
      OBVIOUS
    <2> QED
      BY <1>3, <2>1, Zenon
  <1>5. \A k \in 16..31 : k - 16 \in a <=> k \in {j + 16 : j \in a}
    OBVIOUS
  <1> HIDE DEF f
  <1>6. \A k \in {j + 16 : j \in a} : k \in 16..31
    OBVIOUS
  <1> QED
    BY <1>1, <1>2, <1>4, <1>5, <1>6 DEF f

Words8 == <<{0, 1, 2},
            {1, 2, 3},
            {2, 3, 4},
            {3, 4, 5},
            {4, 5, 6},
            {5, 6, 7},
            {0, 1, 2, 6, 7},
            {0, 3, 7}>>

Words16 == <<{0, 5, 12},
             {1, 6, 13},
             {2, 7, 14},
             {3, 8, 15},
             {0, 4, 5, 9, 12},
             {1, 5, 6, 10, 13},
             {2, 6, 7, 11, 14},
             {3, 7, 8, 12, 15}>>

Words32 == <<{0, 1, 2, 4, 5, 7, 8, 10, 11, 12, 16, 22, 23, 26},
             {1, 2, 3, 5, 6, 8, 9, 11, 12, 13, 17, 23, 24, 27},
             {2, 3, 4, 6, 7, 9, 10, 12, 13, 14, 18, 24, 25, 28},
             {3, 4, 5, 7, 8, 10, 11, 13, 14, 15, 19, 25, 26, 29},
             {4, 5, 6, 8, 9, 11, 12, 14, 15, 16, 20, 26, 27, 30},
             {5, 6, 7, 9, 10, 12, 13, 15, 16, 17, 21, 27, 28, 31},
             {0, 1, 2, 4, 5, 6, 12, 13, 14, 17, 18, 23, 26, 28, 29},
             {1, 2, 3, 5, 6, 7, 13, 14, 15, 18, 19, 24, 27, 29, 30}>>

\* The eight words of each table as sets of bits.
LEMMA File8 == \A k \in Byte : FromHalves(PowersInFile[8][k + 1]) = Words8[k + 1]
  <1>0. PowersInFile[8] = <<<<0, 7>>, <<0, 14>>, <<0, 28>>, <<0, 56>>,
           <<0, 112>>, <<0, 224>>, <<0, 199>>, <<0, 137>>>>
    BY DEF PowersInFile, Widths
  <1>1. FromHalves(PowersInFile[8][0 + 1]) = Words8[0 + 1]
    <2>1. /\ Spells(0, {})
          /\ {} \in SUBSET (0..15)
          /\ Spells(7, {0, 1, 2})
          /\ {0, 1, 2} \in SUBSET (0..15)
      BY DEF Spells, Two
    <2>2. FromHalves(<<0, 7>>) = {0, 1, 2} \cup {k + 16 : k \in {}}
      BY <2>1, Halves
    <2> QED
      BY <1>0, <2>2 DEF Words8
  <1>2. FromHalves(PowersInFile[8][1 + 1]) = Words8[1 + 1]
    <2>1. /\ Spells(0, {})
          /\ {} \in SUBSET (0..15)
          /\ Spells(14, {1, 2, 3})
          /\ {1, 2, 3} \in SUBSET (0..15)
      BY DEF Spells, Two
    <2>2. FromHalves(<<0, 14>>) = {1, 2, 3} \cup {k + 16 : k \in {}}
      BY <2>1, Halves
    <2> QED
      BY <1>0, <2>2 DEF Words8
  <1>3. FromHalves(PowersInFile[8][2 + 1]) = Words8[2 + 1]
    <2>1. /\ Spells(0, {})
          /\ {} \in SUBSET (0..15)
          /\ Spells(28, {2, 3, 4})
          /\ {2, 3, 4} \in SUBSET (0..15)
      BY DEF Spells, Two
    <2>2. FromHalves(<<0, 28>>) = {2, 3, 4} \cup {k + 16 : k \in {}}
      BY <2>1, Halves
    <2> QED
      BY <1>0, <2>2 DEF Words8
  <1>4. FromHalves(PowersInFile[8][3 + 1]) = Words8[3 + 1]
    <2>1. /\ Spells(0, {})
          /\ {} \in SUBSET (0..15)
          /\ Spells(56, {3, 4, 5})
          /\ {3, 4, 5} \in SUBSET (0..15)
      BY DEF Spells, Two
    <2>2. FromHalves(<<0, 56>>) = {3, 4, 5} \cup {k + 16 : k \in {}}
      BY <2>1, Halves
    <2> QED
      BY <1>0, <2>2 DEF Words8
  <1>5. FromHalves(PowersInFile[8][4 + 1]) = Words8[4 + 1]
    <2>1. /\ Spells(0, {})
          /\ {} \in SUBSET (0..15)
          /\ Spells(112, {4, 5, 6})
          /\ {4, 5, 6} \in SUBSET (0..15)
      BY DEF Spells, Two
    <2>2. FromHalves(<<0, 112>>) = {4, 5, 6} \cup {k + 16 : k \in {}}
      BY <2>1, Halves
    <2> QED
      BY <1>0, <2>2 DEF Words8
  <1>6. FromHalves(PowersInFile[8][5 + 1]) = Words8[5 + 1]
    <2>1. /\ Spells(0, {})
          /\ {} \in SUBSET (0..15)
          /\ Spells(224, {5, 6, 7})
          /\ {5, 6, 7} \in SUBSET (0..15)
      BY DEF Spells, Two
    <2>2. FromHalves(<<0, 224>>) = {5, 6, 7} \cup {k + 16 : k \in {}}
      BY <2>1, Halves
    <2> QED
      BY <1>0, <2>2 DEF Words8
  <1>7. FromHalves(PowersInFile[8][6 + 1]) = Words8[6 + 1]
    <2>1. /\ Spells(0, {})
          /\ {} \in SUBSET (0..15)
          /\ Spells(199, {0, 1, 2, 6, 7})
          /\ {0, 1, 2, 6, 7} \in SUBSET (0..15)
      BY DEF Spells, Two
    <2>2. FromHalves(<<0, 199>>) = {0, 1, 2, 6, 7} \cup {k + 16 : k \in {}}
      BY <2>1, Halves
    <2> QED
      BY <1>0, <2>2 DEF Words8
  <1>8. FromHalves(PowersInFile[8][7 + 1]) = Words8[7 + 1]
    <2>1. /\ Spells(0, {})
          /\ {} \in SUBSET (0..15)
          /\ Spells(137, {0, 3, 7})
          /\ {0, 3, 7} \in SUBSET (0..15)
      BY DEF Spells, Two
    <2>2. FromHalves(<<0, 137>>) = {0, 3, 7} \cup {k + 16 : k \in {}}
      BY <2>1, Halves
    <2> QED
      BY <1>0, <2>2 DEF Words8
  <1>9. \A k \in Byte : k = 0 \/ k = 1 \/ k = 2 \/ k = 3 \/ k = 4 \/ k = 5 \/ k = 6 \/ k = 7
    BY DEF Byte
  <1> QED
    BY <1>1, <1>2, <1>3, <1>4, <1>5, <1>6, <1>7, <1>8, <1>9

LEMMA File16 == \A k \in Byte : FromHalves(PowersInFile[16][k + 1]) = Words16[k + 1]
  <1>0. PowersInFile[16] = <<<<0, 4129>>, <<0, 8258>>, <<0, 16516>>, <<0, 33032>>,
           <<0, 4657>>, <<0, 9314>>, <<0, 18628>>, <<0, 37256>>>>
    BY DEF PowersInFile, Widths
  <1>1. FromHalves(PowersInFile[16][0 + 1]) = Words16[0 + 1]
    <2>1. /\ Spells(0, {})
          /\ {} \in SUBSET (0..15)
          /\ Spells(4129, {0, 5, 12})
          /\ {0, 5, 12} \in SUBSET (0..15)
      BY DEF Spells, Two
    <2>2. FromHalves(<<0, 4129>>) = {0, 5, 12} \cup {k + 16 : k \in {}}
      BY <2>1, Halves
    <2> QED
      BY <1>0, <2>2 DEF Words16
  <1>2. FromHalves(PowersInFile[16][1 + 1]) = Words16[1 + 1]
    <2>1. /\ Spells(0, {})
          /\ {} \in SUBSET (0..15)
          /\ Spells(8258, {1, 6, 13})
          /\ {1, 6, 13} \in SUBSET (0..15)
      BY DEF Spells, Two
    <2>2. FromHalves(<<0, 8258>>) = {1, 6, 13} \cup {k + 16 : k \in {}}
      BY <2>1, Halves
    <2> QED
      BY <1>0, <2>2 DEF Words16
  <1>3. FromHalves(PowersInFile[16][2 + 1]) = Words16[2 + 1]
    <2>1. /\ Spells(0, {})
          /\ {} \in SUBSET (0..15)
          /\ Spells(16516, {2, 7, 14})
          /\ {2, 7, 14} \in SUBSET (0..15)
      BY DEF Spells, Two
    <2>2. FromHalves(<<0, 16516>>) = {2, 7, 14} \cup {k + 16 : k \in {}}
      BY <2>1, Halves
    <2> QED
      BY <1>0, <2>2 DEF Words16
  <1>4. FromHalves(PowersInFile[16][3 + 1]) = Words16[3 + 1]
    <2>1. /\ Spells(0, {})
          /\ {} \in SUBSET (0..15)
          /\ Spells(33032, {3, 8, 15})
          /\ {3, 8, 15} \in SUBSET (0..15)
      BY DEF Spells, Two
    <2>2. FromHalves(<<0, 33032>>) = {3, 8, 15} \cup {k + 16 : k \in {}}
      BY <2>1, Halves
    <2> QED
      BY <1>0, <2>2 DEF Words16
  <1>5. FromHalves(PowersInFile[16][4 + 1]) = Words16[4 + 1]
    <2>1. /\ Spells(0, {})
          /\ {} \in SUBSET (0..15)
          /\ Spells(4657, {0, 4, 5, 9, 12})
          /\ {0, 4, 5, 9, 12} \in SUBSET (0..15)
      BY DEF Spells, Two
    <2>2. FromHalves(<<0, 4657>>) = {0, 4, 5, 9, 12} \cup {k + 16 : k \in {}}
      BY <2>1, Halves
    <2> QED
      BY <1>0, <2>2 DEF Words16
  <1>6. FromHalves(PowersInFile[16][5 + 1]) = Words16[5 + 1]
    <2>1. /\ Spells(0, {})
          /\ {} \in SUBSET (0..15)
          /\ Spells(9314, {1, 5, 6, 10, 13})
          /\ {1, 5, 6, 10, 13} \in SUBSET (0..15)
      BY DEF Spells, Two
    <2>2. FromHalves(<<0, 9314>>) = {1, 5, 6, 10, 13} \cup {k + 16 : k \in {}}
      BY <2>1, Halves
    <2> QED
      BY <1>0, <2>2 DEF Words16
  <1>7. FromHalves(PowersInFile[16][6 + 1]) = Words16[6 + 1]
    <2>1. /\ Spells(0, {})
          /\ {} \in SUBSET (0..15)
          /\ Spells(18628, {2, 6, 7, 11, 14})
          /\ {2, 6, 7, 11, 14} \in SUBSET (0..15)
      BY DEF Spells, Two
    <2>2. FromHalves(<<0, 18628>>) = {2, 6, 7, 11, 14} \cup {k + 16 : k \in {}}
      BY <2>1, Halves
    <2> QED
      BY <1>0, <2>2 DEF Words16
  <1>8. FromHalves(PowersInFile[16][7 + 1]) = Words16[7 + 1]
    <2>1. /\ Spells(0, {})
          /\ {} \in SUBSET (0..15)
          /\ Spells(37256, {3, 7, 8, 12, 15})
          /\ {3, 7, 8, 12, 15} \in SUBSET (0..15)
      BY DEF Spells, Two
    <2>2. FromHalves(<<0, 37256>>) = {3, 7, 8, 12, 15} \cup {k + 16 : k \in {}}
      BY <2>1, Halves
    <2> QED
      BY <1>0, <2>2 DEF Words16
  <1>9. \A k \in Byte : k = 0 \/ k = 1 \/ k = 2 \/ k = 3 \/ k = 4 \/ k = 5 \/ k = 6 \/ k = 7
    BY DEF Byte
  <1> QED
    BY <1>1, <1>2, <1>3, <1>4, <1>5, <1>6, <1>7, <1>8, <1>9

LEMMA File32 == \A k \in Byte : FromHalves(PowersInFile[32][k + 1]) = Words32[k + 1]
  <1>0. PowersInFile[32] = <<<<1217, 7607>>, <<2434, 15214>>, <<4868, 30428>>, <<9736, 60856>>,
           <<19473, 56176>>, <<38947, 46816>>, <<13446, 28791>>, <<26892, 57582>>>>
    BY DEF PowersInFile, Widths
  <1>1. FromHalves(PowersInFile[32][0 + 1]) = Words32[0 + 1]
    <2>1. /\ Spells(1217, {0, 6, 7, 10})
          /\ {0, 6, 7, 10} \in SUBSET (0..15)
          /\ Spells(7607, {0, 1, 2, 4, 5, 7, 8, 10, 11, 12})
          /\ {0, 1, 2, 4, 5, 7, 8, 10, 11, 12} \in SUBSET (0..15)
      BY DEF Spells, Two
    <2>2. FromHalves(<<1217, 7607>>)
            = {0, 1, 2, 4, 5, 7, 8, 10, 11, 12} \cup {k + 16 : k \in {0, 6, 7, 10}}
      BY <2>1, Halves
    <2> QED
      BY <1>0, <2>2 DEF Words32
  <1>2. FromHalves(PowersInFile[32][1 + 1]) = Words32[1 + 1]
    <2>1. /\ Spells(2434, {1, 7, 8, 11})
          /\ {1, 7, 8, 11} \in SUBSET (0..15)
          /\ Spells(15214, {1, 2, 3, 5, 6, 8, 9, 11, 12, 13})
          /\ {1, 2, 3, 5, 6, 8, 9, 11, 12, 13} \in SUBSET (0..15)
      BY DEF Spells, Two
    <2>2. FromHalves(<<2434, 15214>>)
            = {1, 2, 3, 5, 6, 8, 9, 11, 12, 13} \cup {k + 16 : k \in {1, 7, 8, 11}}
      BY <2>1, Halves
    <2> QED
      BY <1>0, <2>2 DEF Words32
  <1>3. FromHalves(PowersInFile[32][2 + 1]) = Words32[2 + 1]
    <2>1. /\ Spells(4868, {2, 8, 9, 12})
          /\ {2, 8, 9, 12} \in SUBSET (0..15)
          /\ Spells(30428, {2, 3, 4, 6, 7, 9, 10, 12, 13, 14})
          /\ {2, 3, 4, 6, 7, 9, 10, 12, 13, 14} \in SUBSET (0..15)
      BY DEF Spells, Two
    <2>2. FromHalves(<<4868, 30428>>)
            = {2, 3, 4, 6, 7, 9, 10, 12, 13, 14} \cup {k + 16 : k \in {2, 8, 9, 12}}
      BY <2>1, Halves
    <2> QED
      BY <1>0, <2>2 DEF Words32
  <1>4. FromHalves(PowersInFile[32][3 + 1]) = Words32[3 + 1]
    <2>1. /\ Spells(9736, {3, 9, 10, 13})
          /\ {3, 9, 10, 13} \in SUBSET (0..15)
          /\ Spells(60856, {3, 4, 5, 7, 8, 10, 11, 13, 14, 15})
          /\ {3, 4, 5, 7, 8, 10, 11, 13, 14, 15} \in SUBSET (0..15)
      BY DEF Spells, Two
    <2>2. FromHalves(<<9736, 60856>>)
            = {3, 4, 5, 7, 8, 10, 11, 13, 14, 15} \cup {k + 16 : k \in {3, 9, 10, 13}}
      BY <2>1, Halves
    <2> QED
      BY <1>0, <2>2 DEF Words32
  <1>5. FromHalves(PowersInFile[32][4 + 1]) = Words32[4 + 1]
    <2>1. /\ Spells(19473, {0, 4, 10, 11, 14})
          /\ {0, 4, 10, 11, 14} \in SUBSET (0..15)
          /\ Spells(56176, {4, 5, 6, 8, 9, 11, 12, 14, 15})
          /\ {4, 5, 6, 8, 9, 11, 12, 14, 15} \in SUBSET (0..15)
      BY DEF Spells, Two
    <2>2. FromHalves(<<19473, 56176>>)
            = {4, 5, 6, 8, 9, 11, 12, 14, 15} \cup {k + 16 : k \in {0, 4, 10, 11, 14}}
      BY <2>1, Halves
    <2> QED
      BY <1>0, <2>2 DEF Words32
  <1>6. FromHalves(PowersInFile[32][5 + 1]) = Words32[5 + 1]
    <2>1. /\ Spells(38947, {0, 1, 5, 11, 12, 15})
          /\ {0, 1, 5, 11, 12, 15} \in SUBSET (0..15)
          /\ Spells(46816, {5, 6, 7, 9, 10, 12, 13, 15})
          /\ {5, 6, 7, 9, 10, 12, 13, 15} \in SUBSET (0..15)
      BY DEF Spells, Two
    <2>2. FromHalves(<<38947, 46816>>)
            = {5, 6, 7, 9, 10, 12, 13, 15} \cup {k + 16 : k \in {0, 1, 5, 11, 12, 15}}
      BY <2>1, Halves
    <2> QED
      BY <1>0, <2>2 DEF Words32
  <1>7. FromHalves(PowersInFile[32][6 + 1]) = Words32[6 + 1]
    <2>1. /\ Spells(13446, {1, 2, 7, 10, 12, 13})
          /\ {1, 2, 7, 10, 12, 13} \in SUBSET (0..15)
          /\ Spells(28791, {0, 1, 2, 4, 5, 6, 12, 13, 14})
          /\ {0, 1, 2, 4, 5, 6, 12, 13, 14} \in SUBSET (0..15)
      BY DEF Spells, Two
    <2>2. FromHalves(<<13446, 28791>>)
            = {0, 1, 2, 4, 5, 6, 12, 13, 14} \cup {k + 16 : k \in {1, 2, 7, 10, 12, 13}}
      BY <2>1, Halves
    <2> QED
      BY <1>0, <2>2 DEF Words32
  <1>8. FromHalves(PowersInFile[32][7 + 1]) = Words32[7 + 1]
    <2>1. /\ Spells(26892, {2, 3, 8, 11, 13, 14})
          /\ {2, 3, 8, 11, 13, 14} \in SUBSET (0..15)
          /\ Spells(57582, {1, 2, 3, 5, 6, 7, 13, 14, 15})
          /\ {1, 2, 3, 5, 6, 7, 13, 14, 15} \in SUBSET (0..15)
      BY DEF Spells, Two
    <2>2. FromHalves(<<26892, 57582>>)
            = {1, 2, 3, 5, 6, 7, 13, 14, 15} \cup {k + 16 : k \in {2, 3, 8, 11, 13, 14}}
      BY <2>1, Halves
    <2> QED
      BY <1>0, <2>2 DEF Words32
  <1>9. \A k \in Byte : k = 0 \/ k = 1 \/ k = 2 \/ k = 3 \/ k = 4 \/ k = 5 \/ k = 6 \/ k = 7
    BY DEF Byte
  <1> QED
    BY <1>1, <1>2, <1>3, <1>4, <1>5, <1>6, <1>7, <1>8, <1>9

\* Each of them is got from the one before by one step of a division.
LEMMA Doubles8 ==
  \A k \in 0..6 :
    Words8[k + 2] = SymDiff(Left(8, 1, Words8[k + 1]),
                         IF 7 \in Words8[k + 1] THEN Words8[1] ELSE {})
  <1> DEFINE Doubles(a, b) == b = SymDiff(Left(8, 1, a), IF 7 \in a THEN Words8[1] ELSE {})
  <1>1. Doubles(Words8[0 + 1], Words8[0 + 2])
    BY DEF Words8, SymDiff, Left, Word
  <1>2. Doubles(Words8[1 + 1], Words8[1 + 2])
    BY DEF Words8, SymDiff, Left, Word
  <1>3. Doubles(Words8[2 + 1], Words8[2 + 2])
    BY DEF Words8, SymDiff, Left, Word
  <1>4. Doubles(Words8[3 + 1], Words8[3 + 2])
    BY DEF Words8, SymDiff, Left, Word
  <1>5. Doubles(Words8[4 + 1], Words8[4 + 2])
    BY DEF Words8, SymDiff, Left, Word
  <1>6. Doubles(Words8[5 + 1], Words8[5 + 2])
    BY DEF Words8, SymDiff, Left, Word
  <1>7. Doubles(Words8[6 + 1], Words8[6 + 2])
    BY DEF Words8, SymDiff, Left, Word
  <1> HIDE DEF Doubles
  <1>8. \A k \in 0..6 : Doubles(Words8[k + 1], Words8[k + 2])
    <2>1. \A k \in 0..6 : k = 0 \/ k = 1 \/ k = 2 \/ k = 3 \/ k = 4 \/ k = 5 \/ k = 6
      OBVIOUS
    <2> QED
      BY <1>1, <1>2, <1>3, <1>4, <1>5, <1>6, <1>7, <2>1
  <1> QED
    BY <1>8 DEF Doubles

LEMMA Doubles16 ==
  \A k \in 0..6 :
    Words16[k + 2] = SymDiff(Left(16, 1, Words16[k + 1]),
                         IF 15 \in Words16[k + 1] THEN Words16[1] ELSE {})
  <1> DEFINE Doubles(a, b) == b = SymDiff(Left(16, 1, a), IF 15 \in a THEN Words16[1] ELSE {})
  <1>1. Doubles(Words16[0 + 1], Words16[0 + 2])
    BY DEF Words16, SymDiff, Left, Word
  <1>2. Doubles(Words16[1 + 1], Words16[1 + 2])
    BY DEF Words16, SymDiff, Left, Word
  <1>3. Doubles(Words16[2 + 1], Words16[2 + 2])
    BY DEF Words16, SymDiff, Left, Word
  <1>4. Doubles(Words16[3 + 1], Words16[3 + 2])
    BY DEF Words16, SymDiff, Left, Word
  <1>5. Doubles(Words16[4 + 1], Words16[4 + 2])
    BY DEF Words16, SymDiff, Left, Word
  <1>6. Doubles(Words16[5 + 1], Words16[5 + 2])
    BY DEF Words16, SymDiff, Left, Word
  <1>7. Doubles(Words16[6 + 1], Words16[6 + 2])
    BY DEF Words16, SymDiff, Left, Word
  <1> HIDE DEF Doubles
  <1>8. \A k \in 0..6 : Doubles(Words16[k + 1], Words16[k + 2])
    <2>1. \A k \in 0..6 : k = 0 \/ k = 1 \/ k = 2 \/ k = 3 \/ k = 4 \/ k = 5 \/ k = 6
      OBVIOUS
    <2> QED
      BY <1>1, <1>2, <1>3, <1>4, <1>5, <1>6, <1>7, <2>1
  <1> QED
    BY <1>8 DEF Doubles

LEMMA Doubles32 ==
  \A k \in 0..6 :
    Words32[k + 2] = SymDiff(Left(32, 1, Words32[k + 1]),
                         IF 31 \in Words32[k + 1] THEN Words32[1] ELSE {})
  <1> DEFINE Doubles(a, b) == b = SymDiff(Left(32, 1, a), IF 31 \in a THEN Words32[1] ELSE {})
  <1>1. Doubles(Words32[0 + 1], Words32[0 + 2])
    BY DEF Words32, SymDiff, Left, Word
  <1>2. Doubles(Words32[1 + 1], Words32[1 + 2])
    BY DEF Words32, SymDiff, Left, Word
  <1>3. Doubles(Words32[2 + 1], Words32[2 + 2])
    BY DEF Words32, SymDiff, Left, Word
  <1>4. Doubles(Words32[3 + 1], Words32[3 + 2])
    BY DEF Words32, SymDiff, Left, Word
  <1>5. Doubles(Words32[4 + 1], Words32[4 + 2])
    BY DEF Words32, SymDiff, Left, Word
  <1>6. Doubles(Words32[5 + 1], Words32[5 + 2])
    BY DEF Words32, SymDiff, Left, Word
  <1>7. Doubles(Words32[6 + 1], Words32[6 + 2])
    BY DEF Words32, SymDiff, Left, Word
  <1> HIDE DEF Doubles
  <1>8. \A k \in 0..6 : Doubles(Words32[k + 1], Words32[k + 2])
    <2>1. \A k \in 0..6 : k = 0 \/ k = 1 \/ k = 2 \/ k = 3 \/ k = 4 \/ k = 5 \/ k = 6
      OBVIOUS
    <2> QED
      BY <1>1, <1>2, <1>3, <1>4, <1>5, <1>6, <1>7, <2>1
  <1> QED
    BY <1>8 DEF Doubles

\* An entry of a table in the file is a remainder too.
LEMMA FileDivides ==
  ASSUME NEW w \in Widths, NEW i \in SUBSET Byte
  PROVE  /\ CodeInFile[w] \in SUBSET Word(w)
         /\ \E r \in [0..8 -> SUBSET Word(w)] :
              Division(w, CodeInFile[w], i, r) /\ TablesInFile[w][i] = r[8]
  <1> DEFINE c == CodeInFile[w]
             p == [k \in Byte |-> FromHalves(PowersInFile[w][k + 1])]
  <1>1. p \in [Byte -> SUBSET Word(w)] /\ Powers(w, c, p)
    <2> DEFINE Right8(words) ==
                 /\ \A k \in Byte : words[k + 1] \in SUBSET Word(w)
                 /\ \A k \in Byte : p[k] = words[k + 1]
                 /\ c = words[1]
                 /\ \A k \in 0..6 :
                      words[k + 2] = SymDiff(Left(w, 1, words[k + 1]),
                                             IF w - 1 \in words[k + 1] THEN words[1] ELSE {})
    <2>1. c = FromHalves(PowersInFile[w][0 + 1])
      BY DEF CodeInFile
    <2>2. 0 \in Byte /\ 0 + 1 = 1
      BY DEF Byte
    <2>3. ASSUME w = 8 PROVE \E words : Right8(words)
      <3>1. \A k \in Byte : Words8[k + 1] \in SUBSET Word(8)
        BY DEF Words8, Word, Byte
      <3>2. Right8(Words8)
        BY <2>1, <2>2, <2>3, <3>1, File8, Doubles8
      <3> HIDE DEF Right8
      <3> QED
        BY <3>2
    <2>4. ASSUME w = 16 PROVE \E words : Right8(words)
      <3>1. \A k \in Byte : Words16[k + 1] \in SUBSET Word(16)
        BY DEF Words16, Word, Byte
      <3>2. Right8(Words16)
        BY <2>1, <2>2, <2>4, <3>1, File16, Doubles16
      <3> HIDE DEF Right8
      <3> QED
        BY <3>2
    <2>5. ASSUME w = 32 PROVE \E words : Right8(words)
      <3>1. \A k \in Byte : Words32[k + 1] \in SUBSET Word(32)
        BY DEF Words32, Word, Byte
      <3>2. Right8(Words32)
        BY <2>1, <2>2, <2>5, <3>1, File32, Doubles32
      <3> HIDE DEF Right8
      <3> QED
        BY <3>2
    <2>6. PICK words : Right8(words)
      <3> HIDE DEF Right8
      <3> QED
        BY <2>3, <2>4, <2>5 DEF Widths
    <2>7. p \in [Byte -> SUBSET Word(w)]
      BY <2>6
    <2>8. p[0] = c
      BY <2>2, <2>6
    <2>9. \A k \in 0..6 :
            p[k + 1] = SymDiff(Left(w, 1, p[k]), IF w - 1 \in p[k] THEN c ELSE {})
      <3> TAKE k \in 0..6
      <3>1. k \in Byte /\ k + 1 \in Byte /\ (k + 1) + 1 = k + 2
        BY DEF Byte
      <3> QED
        BY <2>6, <3>1
    <2> QED
      BY <2>7, <2>8, <2>9 DEF Powers
  <1>2. TablesInFile[w][i] = {b \in Word(w) : Odd({k \in i : b \in p[k]})}
    BY DEF TablesInFile, Odd
  <1>3. c \in SUBSET Word(w)
    BY <1>1 DEF Powers, Byte
  <1> HIDE DEF p, c
  <1>4. \E r \in [0..8 -> SUBSET Word(w)] :
          Division(w, c, i, r) /\ r[8] = {b \in Word(w) : Odd({k \in i : b \in p[k]})}
    BY <1>1, <1>3, SumDivides
  <1> QED
    BY <1>2, <1>3, <1>4 DEF c

-----------------------------------------------------------------------------
(* The division of a message, a degree at a time.                          *)

\* What one more degree leaves.
Reduce(w, c, d, q) == IF d \in q THEN SymDiff(q, {k + d - w : k \in c \cup {w}}) ELSE q

Reduces(n, w, c, p, rest) ==
  /\ rest[n] = p
  /\ \A d \in w..n - 1 : rest[d] = Reduce(w, c, d, rest[d + 1])

\* The function of Remainder exists.
LEMMA RemainderLoop ==
  ASSUME NEW w \in Nat, NEW n \in Nat, n >= w,
         NEW c \in SUBSET Word(w), NEW p \in SUBSET Word(n)
  PROVE  \E rest \in [w..n -> SUBSET Word(n)] :
           Reduces(n, w, c, p, rest) /\ Remainder(n, w, c, p) = rest[w]
  <1> DEFINE V == SUBSET Word(n)
             D == w..n
             step == [d \in D |-> [g \in [D -> V] |->
                        IF d = n THEN p ELSE Reduce(w, c, d, g[d + 1])]]
             rank == [d \in D |-> n - d]
  <1>1. \A d \in w..n - 1, q \in V : Reduce(w, c, d, q) \in V
    <2> SUFFICES ASSUME NEW d \in w..n - 1, NEW q \in V
                 PROVE  Reduce(w, c, d, q) \in V
      OBVIOUS
    <2>1. \A k \in c \cup {w} : k + d - w \in Word(n)
      BY DEF Word
    <2>2. {k + d - w : k \in c \cup {w}} \in V
      BY <2>1
    <2> QED
      BY <2>2 DEF Reduce, SymDiff
  <1>2. step \in [D -> [[D -> V] -> V]]
    <2>1. ASSUME NEW d \in D, NEW g \in [D -> V], d # n
          PROVE  Reduce(w, c, d, g[d + 1]) \in V
      <3>1. d \in w..n - 1 /\ g[d + 1] \in V
        BY <2>1
      <3> HIDE DEF V
      <3> QED
        BY <1>1, <3>1
    <2>2. p \in V
      OBVIOUS
    <2> HIDE DEF V, D
    <2> QED
      BY <2>1, <2>2
  <1>3. \A d \in D : \A g, h \in [D -> V] :
          (\A e \in D : rank[e] < rank[d] => g[e] = h[e]) => step[d][g] = step[d][h]
    <2> SUFFICES ASSUME NEW d \in D, NEW g \in [D -> V], NEW h \in [D -> V],
                        \A e \in D : rank[e] < rank[d] => g[e] = h[e]
                 PROVE  step[d][g] = step[d][h]
      BY Zenon
    <2>1. d # n => g[d + 1] = h[d + 1]
      OBVIOUS
    <2> HIDE DEF V, rank, D
    <2> QED
      BY <2>1
  <1>4. PICK f \in [D -> V] : \A d \in D : f[d] = step[d][f]
    <2>1. V # {} /\ n \in Nat /\ rank \in [D -> 0..n]
      OBVIOUS
    <2> HIDE DEF step, rank, V, D
    <2>2. Ranked(D, V, n, rank, step)
      BY <1>2, <1>3, <2>1 DEF Ranked
    <2> QED
      BY <2>2, Recursion DEF Solves
  <1> DEFINE Equation(rest) ==
        rest = [d \in w..n |->
                  IF d = n THEN p
                  ELSE LET q == rest[d + 1]
                       IN IF d \in q THEN SymDiff(q, {k + d - w : k \in c \cup {w}}) ELSE q]
             chosen == CHOOSE rest : Equation(rest)
  <1>5. Equation(f)
    <2>1. \A d \in D : f[d] = IF d = n THEN p ELSE Reduce(w, c, d, f[d + 1])
      <3> HIDE DEF V, D
      <3> QED
        BY <1>4
    <2> QED
      BY <1>4, <2>1 DEF Reduce
  <1>6. Equation(chosen)
    <2> HIDE DEF Equation
    <2> QED
      BY <1>5
  <1>7. Remainder(n, w, c, p) = chosen[w]
    BY DEF Remainder
  <1> HIDE DEF chosen
  <1>8. chosen = [d \in D |-> IF d = n THEN p ELSE Reduce(w, c, d, chosen[d + 1])]
    BY <1>6 DEF Reduce
  <1> HIDE DEF Equation
  <1>9. Reduces(n, w, c, p, chosen)
    <2>1. chosen[n] = p
      BY <1>8
    <2>2. \A d \in w..n - 1 : chosen[d] = Reduce(w, c, d, chosen[d + 1])
      BY <1>8
    <2> QED
      BY <2>1, <2>2 DEF Reduces
  <1>10. chosen \in [D -> V]
    <2> DEFINE S == {m \in 0..n - w : chosen[n - m] \in V}
    <2>1. 0 \in S
      BY <1>9 DEF Reduces
    <2>2. \A m \in 0..(n - w) - 1 : m \in S => m + 1 \in S
      <3> TAKE m \in 0..(n - w) - 1
      <3> HAVE m \in S
      <3>1. n - (m + 1) \in w..n - 1 /\ n - (m + 1) + 1 = n - m
        OBVIOUS
      <3>2. chosen[n - (m + 1)] = Reduce(w, c, n - (m + 1), chosen[n - m])
        BY <1>9, <3>1 DEF Reduces
      <3>3. chosen[n - m] \in V
        OBVIOUS
      <3> HIDE DEF V
      <3>4. chosen[n - (m + 1)] \in V
        BY <1>1, <3>1, <3>2, <3>3
      <3> QED
        BY <3>4
    <2>3. 0..n - w \subseteq S
      <3>1. n - w \in Nat
        OBVIOUS
      <3> HIDE DEF S
      <3> QED
        BY <2>1, <2>2, <3>1, InductionUpTo
    <2>4. \A d \in D : chosen[d] \in V
      <3> TAKE d \in D
      <3>1. n - d \in 0..n - w /\ n - (n - d) = d
        OBVIOUS
      <3> QED
        BY <2>3, <3>1
    <2> HIDE DEF V, D
    <2> QED
      BY <1>8, <2>4
  <1> QED
    BY <1>7, <1>9, <1>10

\* A remainder below degree d has no term of degree d or more.
LEMMA RestBound ==
  ASSUME NEW w \in Nat, NEW n \in Nat, n >= w,
         NEW c \in SUBSET Word(w), NEW p \in SUBSET Word(n),
         NEW rest \in [w..n -> SUBSET Word(n)], Reduces(n, w, c, p, rest)
  PROVE  \A d \in w..n : rest[d] \subseteq Word(d)
  <1> DEFINE S == {m \in 0..n - w : rest[n - m] \subseteq Word(n - m)}
  <1>1. 0 \in S
    OBVIOUS
  <1>2. \A m \in 0..(n - w) - 1 : m \in S => m + 1 \in S
    <2> TAKE m \in 0..(n - w) - 1
    <2> HAVE m \in S
    <2> DEFINE d == n - (m + 1)
    <2>1. d \in w..n - 1 /\ d + 1 = n - m /\ d \in Nat
      OBVIOUS
    <2>2. rest[d + 1] \subseteq Word(d + 1)
      BY <2>1
    <2>3. rest[d] = Reduce(w, c, d, rest[d + 1])
      BY <2>1 DEF Reduces
    <2> HIDE DEF d
    <2> DEFINE x == {k + d - w : k \in c \cup {w}}
    <2>4. /\ d \in x
          /\ \A k \in x : k \in Word(d + 1)
      BY <2>1 DEF Word
    <2> HIDE DEF x
    <2>5. rest[d] \subseteq Word(d + 1) /\ d \notin rest[d]
      <3>1. CASE d \in rest[d + 1]
        <4>1. rest[d] = SymDiff(rest[d + 1], x)
          BY <2>3, <3>1 DEF Reduce, x
        <4> QED
          BY <2>2, <2>4, <3>1, <4>1 DEF SymDiff
      <3>2. CASE d \notin rest[d + 1]
        BY <2>2, <2>3, <3>2 DEF Reduce
      <3> QED
        BY <3>1, <3>2
    <2>6. rest[d] \subseteq Word(d)
      BY <2>1, <2>5 DEF Word
    <2> QED
      BY <2>6 DEF d
  <1>3. 0..n - w \subseteq S
    <2>1. n - w \in Nat
      OBVIOUS
    <2> HIDE DEF S
    <2> QED
      BY <1>1, <1>2, <2>1, InductionUpTo
  <1> TAKE d \in w..n
  <1>4. n - d \in 0..n - w /\ n - (n - d) = d
    OBVIOUS
  <1> QED
    BY <1>3, <1>4

\* One more degree, bit by bit.
LEMMA ReduceBits ==
  ASSUME NEW w \in Nat, NEW c \in SUBSET Word(w), NEW d \in Nat, NEW q \in SUBSET Int
  PROVE  \A b \in Int : b \in Reduce(w, c, d, q) <=>
           (b \in q) # (d \in q /\ (b = d \/ b - d + w \in c))
  <1> DEFINE x == {k + d - w : k \in c \cup {w}}
  <1>1. \A b \in Int : b \in x <=> b = d \/ b - d + w \in c
    <2> TAKE b \in Int
    <2>1. ASSUME b \in x PROVE b = d \/ b - d + w \in c
      <3>1. PICK k \in c \cup {w} : b = k + d - w
        BY <2>1
      <3>2. k = w => b = d
        BY <3>1
      <3>3. k \in Int /\ b - d + w = k
        BY <3>1 DEF Word
      <3> QED
        BY <3>2, <3>3
    <2>2. b = d => b \in x
      <3>1. b = d => b = w + d - w
        OBVIOUS
      <3> QED
        BY <3>1
    <2>3. ASSUME b - d + w \in c PROVE b \in x
      <3>1. b = (b - d + w) + d - w
        OBVIOUS
      <3> QED
        BY <2>3, <3>1
    <2> QED
      BY <2>1, <2>2, <2>3
  <1> HIDE DEF x
  <1>2. Reduce(w, c, d, q) = IF d \in q THEN SymDiff(q, x) ELSE q
    BY DEF Reduce, x
  <1> QED
    BY <1>1, <1>2 DEF SymDiff

\* Eight more terms below a polynomial of degree n: those of a byte enter at w.
Extends8(w, p, byte, longer) ==
  \A b \in Nat : b \in longer <=> (b - 8 \in p) # (b - w \in byte)

\* The first steps of the division of the longer polynomial are those of the
\* shorter one.
LEMMA SameSteps ==
  ASSUME NEW w \in Widths, NEW n \in Nat, n >= w,
         NEW c \in SUBSET Word(w), NEW byte \in SUBSET Byte,
         NEW p \in SUBSET Word(n), NEW rest \in [w..n -> SUBSET Word(n)],
         Reduces(n, w, c, p, rest),
         NEW p8 \in SUBSET Word(n + 8), NEW rest8 \in [w..n + 8 -> SUBSET Word(n + 8)],
         Reduces(n + 8, w, c, p8, rest8),
         Extends8(w, p, byte, p8)
  PROVE  Extends8(w, rest[w], byte, rest8[w + 8])
  <1>0. w \in Nat /\ w >= 8
    BY DEF Widths
  <1> DEFINE S == {m \in 0..n - w : Extends8(w, rest[n - m], byte, rest8[(n - m) + 8])}
  <1>1. 0 \in S
    <2>1. rest[n - 0] = p /\ rest8[(n - 0) + 8] = p8
      BY DEF Reduces
    <2> QED
      BY <1>0, <2>1
  <1>2. \A m \in 0..(n - w) - 1 : m \in S => m + 1 \in S
    <2> TAKE m \in 0..(n - w) - 1
    <2> HAVE m \in S
    <2> DEFINE d == n - (m + 1)
    <2>1. /\ d \in w..n - 1 /\ d + 1 = n - m /\ d \in Nat
          /\ d + 8 \in w..(n + 8) - 1 /\ (d + 8) + 1 = (n - m) + 8 /\ d + 8 \in Nat
          /\ d + 1 \in w..n /\ (d + 8) + 1 \in w..n + 8
      BY <1>0
    <2> DEFINE q == rest[d + 1]
               q8 == rest8[(d + 8) + 1]
    <2>2. Extends8(w, q, byte, q8)
      BY <2>1
    <2>3. rest[d] = Reduce(w, c, d, q) /\ rest8[d + 8] = Reduce(w, c, d + 8, q8)
      <3> HIDE DEF d
      <3> QED
        BY <2>1 DEF Reduces
    <2>4. q \in SUBSET Int /\ q8 \in SUBSET Int
      <3> HIDE DEF d
      <3> QED
        BY <2>1 DEF Word
    <2> HIDE DEF d, q, q8
    <2>5. \A b \in Int : b \in Reduce(w, c, d, q) <=>
            (b \in q) # (d \in q /\ (b = d \/ b - d + w \in c))
      BY <1>0, <2>1, <2>4, ReduceBits
    <2>6. \A b \in Int : b \in Reduce(w, c, d + 8, q8) <=>
            (b \in q8) # (d + 8 \in q8 /\ (b = d + 8 \/ b - (d + 8) + w \in c))
      BY <1>0, <2>1, <2>4, ReduceBits
    <2>7. d + 8 \in q8 <=> d \in q
      <3>1. (d + 8) - w \notin byte /\ (d + 8) - 8 = d
        BY <1>0, <2>1 DEF Byte
      <3> QED
        BY <2>1, <2>2, <3>1 DEF Extends8
    <2>8. Extends8(w, rest[d], byte, rest8[d + 8])
      <3> SUFFICES ASSUME NEW b \in Nat
                   PROVE  b \in rest8[d + 8] <=> (b - 8 \in rest[d]) # (b - w \in byte)
        BY DEF Extends8
      <3>1. b \in q8 <=> (b - 8 \in q) # (b - w \in byte)
        BY <2>2 DEF Extends8
      <3>2. (b = d + 8 <=> b - 8 = d) /\ b - (d + 8) + w = (b - 8) - d + w
        BY <1>0, <2>1
      <3>3. b - 8 \in Int /\ b \in Int
        OBVIOUS
      <3>4. b \in rest8[d + 8] <=>
              (b \in q8) # (d \in q /\ (b - 8 = d \/ (b - 8) - d + w \in c))
        BY <2>3, <2>6, <2>7, <3>2, <3>3
      <3>5. b - 8 \in rest[d] <=>
              (b - 8 \in q) # (d \in q /\ (b - 8 = d \/ (b - 8) - d + w \in c))
        BY <2>3, <2>5, <3>3
      <3> QED
        BY <3>1, <3>4, <3>5
    <2> QED
      BY <1>0, <2>8 DEF d
  <1>3. 0..n - w \subseteq S
    <2>1. n - w \in Nat
      BY <1>0
    <2> HIDE DEF S
    <2> QED
      BY <1>1, <1>2, <2>1, InductionUpTo
  <1>4. n - w \in 0..n - w /\ n - (n - w) = w
    BY <1>0
  <1> QED
    BY <1>3, <1>4

\* A division that ends with eight steps for a byte and a register, and one of
\* the byte that the two make.
Shares(w, n, c, p, rest, old, byte, r) ==
  /\ w \in Widths /\ n \in Nat /\ n >= w + 8
  /\ c \in SUBSET Word(w) /\ p \in SUBSET Word(n)
  /\ rest \in [w..n -> SUBSET Word(n)] /\ Reduces(n, w, c, p, rest)
  /\ old \in SUBSET Word(w) /\ byte \in SUBSET Byte
  /\ Extends8(w, old, byte, rest[w + 8])
  /\ r \in [0..8 -> SUBSET Word(w)]
  /\ Division(w, c, SymDiff(Right(w - 8, old), byte), r)

\* The last eight steps are the division of one byte: that which the register
\* and the byte of the message make of the table's index.
LEMMA LastSteps ==
  ASSUME NEW w, NEW n, NEW c, NEW p, NEW rest, NEW old, NEW byte, NEW r,
         Shares(w, n, c, p, rest, old, byte, r)
  PROVE  rest[w] = SymDiff(Left(w, 8, old), r[8])
  <1>a. /\ w \in Widths /\ n \in Nat /\ n >= w + 8
        /\ c \in SUBSET Word(w) /\ p \in SUBSET Word(n)
        /\ rest \in [w..n -> SUBSET Word(n)] /\ Reduces(n, w, c, p, rest)
        /\ old \in SUBSET Word(w) /\ byte \in SUBSET Byte
        /\ Extends8(w, old, byte, rest[w + 8])
        /\ r \in [0..8 -> SUBSET Word(w)]
        /\ Division(w, c, SymDiff(Right(w - 8, old), byte), r)
    BY DEF Shares
  <1> USE <1>a
  <1>0. w \in Nat /\ w >= 8
    BY DEF Widths
  <1> DEFINE i == SymDiff(Right(w - 8, old), byte)
             l == Left(w, 8, old)
             Bit(j, b) == ((b \in l) # (b >= w /\ b < w + 8 - j /\ b - w \in i)) # (b - 8 + j \in r[j])
             S == {j \in 0..8 : \A b \in Nat : b \in rest[w + 8 - j] <=> Bit(j, b)}
  <1>1. \A b \in Nat : b \in l <=> b < w /\ b - 8 \in old
    <2>1. old \in SUBSET Int
      BY DEF Word
    <2> QED
      BY <1>0, <2>1, LeftBits DEF Word
  <1>2. \A b \in Nat : b >= w => (b - w \in i <=> (b - 8 \in old) # (b - w \in byte))
    <2>1. old \in SUBSET Int
      BY DEF Word
    <2> TAKE b \in Nat
    <2> HAVE b >= w
    <2>2. b - w \in Nat /\ w - 8 \in Nat /\ (b - w) + (w - 8) = b - 8
      BY <1>0
    <2>3. b - w \in Right(w - 8, old) <=> b - 8 \in old
      BY <2>1, <2>2, RightBits
    <2> QED
      BY <2>3, Bits
  <1>3. 0 \in S
    <2> SUFFICES ASSUME NEW b \in Nat
                 PROVE  b \in rest[w + 8 - 0] <=> Bit(0, b)
      OBVIOUS
    <2>1. b \in rest[w + 8 - 0] <=> (b - 8 \in old) # (b - w \in byte)
      BY <1>0 DEF Extends8
    <2>2. b - 8 + 0 \notin r[0]
      BY DEF Division
    <2>3. CASE b < w
      <3>1. b - w \notin byte
        BY <1>0, <2>3 DEF Byte
      <3> HIDE DEF l, i
      <3> QED
        BY <1>0, <1>1, <2>1, <2>2, <2>3, <3>1
    <2>4. CASE b >= w
      <3>1. b < w + 8 - 0 \/ (b - w \notin byte /\ b - 8 \notin old)
        BY <1>0, <2>4 DEF Byte, Word
      <3> HIDE DEF l, i
      <3> QED
        BY <1>0, <1>1, <1>2, <2>1, <2>2, <2>4, <3>1
    <2> QED
      BY <1>0, <2>3, <2>4
  <1>4. \A j \in 0..8 - 1 : j \in S => j + 1 \in S
    <2> TAKE j \in 0..8 - 1
    <2> HAVE j \in S
    <2> DEFINE d == w + 8 - (j + 1)
               q == rest[d + 1]
               last == r[j]
               msb == (7 - j \in i) # (w - 1 \in last)
    <2>1. /\ d \in w..n - 1 /\ d \in Nat /\ d + 1 = w + 8 - j /\ d + 1 \in w..n
          /\ j \in 0..8 /\ j + 1 \in 1..8 /\ j + 1 \in 0..8 /\ (j + 1) - 1 = j /\ 8 - (j + 1) = 7 - j
          /\ d >= w /\ d = w + 7 - j
      BY <1>0
    <2>2. \A b \in Nat : b \in q <=> Bit(j, b)
      BY <2>1
    <2>3. rest[d] = Reduce(w, c, d, q)
      <3> HIDE DEF d
      <3> QED
        BY <2>1 DEF Reduces
    <2>4. r[j + 1] = SymDiff(Left(w, 1, last), IF msb THEN c ELSE {})
      BY <2>1 DEF Division
    <2> HIDE DEF d, q, l, i, Bit, S
    <2>5. q \in SUBSET Int
      BY <2>1 DEF q, Word
    <2>6. last \in SUBSET Word(w) /\ r[j + 1] \in SUBSET Word(w)
      BY <2>1
    <2> HIDE DEF last
    <2>7. \A b \in Word(w) : b \in r[j + 1] <=> (b - 1 \in last) # (msb /\ b \in c)
      <3>1. last \in SUBSET Int
        BY <2>6 DEF Word
      <3>2. \A b \in Word(w) : b \in Left(w, 1, last) <=> b - 1 \in last
        BY <1>0, <3>1, LeftBits
      <3> QED
        BY <2>4, <3>2, Bits
    <2>8. d \in q <=> msb
      <3>1. d \notin l
        BY <1>0, <1>1, <2>1
      <3>2. d - w = 7 - j /\ d < w + 8 - j /\ d - 8 + j = w - 1
        BY <1>0, <2>1
      <3>3. d \in q <=> ((d \in l) # (d >= w /\ d < w + 8 - j /\ d - w \in i)) # (d - 8 + j \in last)
        BY <2>1, <2>2 DEF Bit, last
      <3>4. d \in q <=> (7 - j \in i) # (w - 1 \in last)
        BY <2>1, <3>1, <3>2, <3>3
      <3> QED
        BY <3>4
    <2>9. \A b \in Int : b \in Reduce(w, c, d, q) <=>
            (b \in q) # (d \in q /\ (b = d \/ b - d + w \in c))
      BY <1>0, <2>1, <2>5, ReduceBits
    <2>10. \A b \in Word(w) : b \in r[j + 1] <=> (b - 1 \in last) # (d \in q /\ b \in c)
      BY <2>7, <2>8
    <2> HIDE DEF msb
    <2>11. ASSUME NEW b \in Nat PROVE b \in rest[d] <=> Bit(j + 1, b)
      <3> DEFINE k == b - 7 + j
      <3>1. /\ k \in Int /\ b - d + w = k /\ b - 8 + (j + 1) = k /\ b - 8 + j = k - 1
            /\ w + 8 - (j + 1) = d /\ w + 8 - j = d + 1
        BY <1>0, <2>1
      <3>2. k = w <=> b = d
        BY <1>0, <2>1
      <3> HIDE DEF k
      <3>3. b \in rest[d] <=> (b \in q) # (d \in q /\ (b = d \/ k \in c))
        BY <2>3, <2>9, <3>1
      <3>4. b \in q <=>
              ((b \in l) # (b >= w /\ b < d + 1 /\ b - w \in i)) # (k - 1 \in last)
        BY <2>2, <3>1 DEF last, Bit
      <3>5. Bit(j + 1, b) <=> ((b \in l) # (b >= w /\ b < d /\ b - w \in i)) # (k \in r[j + 1])
        BY <3>1 DEF Bit
      <3>6. \A x \in c \cup r[j + 1] \cup last : x \in Int /\ 0 <= x /\ x < w
        <4>1. \A x \in Word(w) : x \in Int /\ 0 <= x /\ x < w
          BY <1>0 DEF Word
        <4> QED
          BY <2>6, <4>1
      <3>7. CASE b = d
        <4>1. b \notin l /\ ~(b < d) /\ k \notin c /\ k \notin r[j + 1]
          <5>1. b \notin l /\ ~(b < d)
            BY <1>0, <1>1, <2>1, <3>7
          <5>2. ~(k < w)
            BY <1>0, <3>2, <3>7
          <5> QED
            BY <3>6, <5>1, <5>2
        <4>2. b \notin rest[d]
          BY <3>3, <3>7
        <4> QED
          BY <3>5, <4>1, <4>2
      <3>8. CASE b # d
        <4>1. b < d + 1 <=> b < d
          BY <2>1, <3>8
        <4>2. (k - 1 \in last) # (d \in q /\ k \in c) <=> k \in r[j + 1]
          <5>1. CASE k \in Word(w)
            BY <2>10, <5>1
          <5>2. CASE k \notin Word(w)
            <6>1. ~(0 <= k /\ k < w) /\ k # w
              BY <1>0, <3>1, <3>2, <3>8, <5>2 DEF Word
            <6>2. ~(0 <= k - 1 /\ k - 1 < w)
              BY <1>0, <3>1, <6>1
            <6> QED
              BY <3>6, <6>1, <6>2
          <5> QED
            BY <5>1, <5>2
        <4>3. b \in rest[d] <=>
                (((b \in l) # (b >= w /\ b < d /\ b - w \in i)) # (k - 1 \in last)) # (d \in q /\ k \in c)
          BY <3>3, <3>4, <3>8, <4>1
        <4> QED
          BY <3>5, <4>2, <4>3
      <3> QED
        BY <3>7, <3>8
    <2> QED
      BY <2>1, <2>11 DEF d, S
  <1>5. 0..8 \subseteq S
    <2> HIDE DEF S
    <2> QED
      BY <1>3, <1>4, InductionUpTo
  <1>6. \A b \in Nat : b \in rest[w] <=> (b \in l) # (b \in r[8])
    <2>1. 8 \in S /\ w + 8 - 8 = w
      BY <1>0, <1>5
    <2>2. \A b \in Nat : b \in rest[w] <=> Bit(8, b)
      BY <2>1
    <2>3. \A b \in Nat : b - 8 + 8 = b /\ ~(b >= w /\ b < w + 8 - 8)
      BY <1>0
    <2> HIDE DEF l, i
    <2> QED
      BY <2>2, <2>3
  <1>7. rest[w] \subseteq Nat /\ l \subseteq Nat /\ r[8] \subseteq Nat
    <2>1. old \in SUBSET Int
      BY DEF Word
    <2>2. w \in w..n /\ 8 \in 0..8
      BY <1>0
    <2> QED
      BY <1>0, <2>1, <2>2, LeftBits DEF Word
  <1> HIDE DEF l
  <1> QED
    BY <1>6, <1>7 DEF SymDiff, l

\* The remainder of the longer polynomial is one entry away from that of the
\* shorter one.
LEMMA RemainderStep ==
  ASSUME NEW w \in Widths, NEW n \in Nat, n >= w,
         NEW c \in SUBSET Word(w), NEW byte \in SUBSET Byte,
         NEW p \in SUBSET Word(n), NEW p8 \in SUBSET Word(n + 8), Extends8(w, p, byte, p8),
         NEW r \in [0..8 -> SUBSET Word(w)],
         Division(w, c, SymDiff(Right(w - 8, Remainder(n, w, c, p)), byte), r)
  PROVE  Remainder(n + 8, w, c, p8) = SymDiff(Left(w, 8, Remainder(n, w, c, p)), r[8])
  <1>0. w \in Nat /\ n + 8 \in Nat /\ n + 8 >= w /\ n + 8 >= w + 8 /\ w \in w..n
    BY DEF Widths
  <1>1. PICK rest \in [w..n -> SUBSET Word(n)] :
          Reduces(n, w, c, p, rest) /\ Remainder(n, w, c, p) = rest[w]
    BY <1>0, RemainderLoop
  <1>2. PICK rest8 \in [w..n + 8 -> SUBSET Word(n + 8)] :
          Reduces(n + 8, w, c, p8, rest8) /\ Remainder(n + 8, w, c, p8) = rest8[w]
    BY <1>0, RemainderLoop
  <1>3. Extends8(w, rest[w], byte, rest8[w + 8])
    BY <1>0, <1>1, <1>2, SameSteps
  <1>4. rest[w] \in SUBSET Word(w)
    BY <1>0, <1>1, RestBound
  <1>5. rest8[w] = SymDiff(Left(w, 8, rest[w]), r[8])
    <2>1. PICK m \in Nat : m = n + 8
      OBVIOUS
    <2>2. PICK old \in SUBSET Word(w) : old = rest[w]
      BY <1>4
    <2>3. m >= w + 8 /\ p8 \in SUBSET Word(m)
      BY <1>0, <2>1
    <2>4. rest8 \in [w..m -> SUBSET Word(m)] /\ Reduces(m, w, c, p8, rest8)
      BY <1>2, <2>1
    <2>5. /\ Division(w, c, SymDiff(Right(w - 8, old), byte), r)
          /\ Extends8(w, old, byte, rest8[w + 8])
      BY <1>1, <1>3, <2>2
    <2>6. Shares(w, m, c, p8, rest8, old, byte, r)
      BY <2>3, <2>4, <2>5 DEF Shares
    <2>7. rest8[w] = SymDiff(Left(w, 8, old), r[8])
      BY <1>0, <2>1, <2>6, LastSteps
    <2> QED
      BY <2>2, <2>7
  <1> QED
    BY <1>1, <1>2, <1>5

\* A remainder is a word, and a polynomial of degree less than w its own one.
LEMMA RemainderWord ==
  ASSUME NEW w \in Nat, NEW n \in Nat, n >= w,
         NEW c \in SUBSET Word(w), NEW p \in SUBSET Word(n)
  PROVE  /\ Remainder(n, w, c, p) \in SUBSET Word(w)
         /\ n = w => Remainder(n, w, c, p) = p
  <1>1. PICK rest \in [w..n -> SUBSET Word(n)] :
          Reduces(n, w, c, p, rest) /\ Remainder(n, w, c, p) = rest[w]
    BY RemainderLoop
  <1>2. rest[w] \in SUBSET Word(w)
    BY <1>1, RestBound
  <1>3. n = w => rest[w] = p
    BY <1>1 DEF Reduces
  <1> QED
    BY <1>1, <1>2, <1>3

-----------------------------------------------------------------------------
(* The registers.                                                          *)

\* The polynomial of a message of bytes after a first register.
Message(w, d) == UNION {{k + w + 8 * Len(d) - 8 * n : k \in d[n]} : n \in DOMAIN d}
Polynomial(w, s, d) == SymDiff(Message(w, d), {k + 8 * Len(d) : k \in s})

\* The terms of a message lie between the register and its length.
LEMMA MessageBits ==
  ASSUME NEW w \in Nat, NEW d \in Seq(SUBSET Byte)
  PROVE  /\ \A x \in Message(w, d) : x \in Nat /\ w <= x /\ x < w + 8 * Len(d)
         /\ \A x : x \in Message(w, d) <=>
              \E n \in 1..Len(d) : \E k \in d[n] : x = k + w + 8 * Len(d) - 8 * n
  <1>1. \A x : x \in Message(w, d) <=>
              \E n \in 1..Len(d) : \E k \in d[n] : x = k + w + 8 * Len(d) - 8 * n
    BY DEF Message
  <1>2. ASSUME NEW n \in 1..Len(d), NEW k \in d[n],
               NEW x, x = k + w + 8 * Len(d) - 8 * n
        PROVE  x \in Nat /\ w <= x /\ x < w + 8 * Len(d)
    <2>1. Len(d) \in Nat /\ n \in Nat /\ n >= 1 /\ n <= Len(d)
      OBVIOUS
    <2>2. k \in Nat /\ k <= 7
      BY DEF Byte
    <2> QED
      BY <1>2, <2>1, <2>2
  <1> QED
    BY <1>1, <1>2

\* A byte more moves the message up by eight and enters at the register.
LEMMA MessageGrows ==
  ASSUME NEW w \in Nat, w >= 8, NEW d \in Seq(SUBSET Byte), NEW b \in SUBSET Byte
  PROVE  \A x \in Nat : x \in Message(w, Append(d, b)) <=>
           (x - 8 \in Message(w, d)) # (x - w \in b)
  <1> DEFINE d2 == Append(d, b)
  <1>1. /\ d2 \in Seq(SUBSET Byte) /\ Len(d2) = Len(d) + 1 /\ Len(d) \in Nat
        /\ \A n \in 1..Len(d) : d2[n] = d[n]
        /\ d2[Len(d) + 1] = b
    OBVIOUS
  <1> HIDE DEF d2
  <1>2. \A x : x \in Message(w, d2) <=>
              \E n \in 1..Len(d2) : \E k \in d2[n] : x = k + w + 8 * Len(d2) - 8 * n
    BY <1>1, MessageBits
  <1>3. \A x : x \in Message(w, d) <=>
              \E n \in 1..Len(d) : \E k \in d[n] : x = k + w + 8 * Len(d) - 8 * n
    BY MessageBits
  <1>4. \A n \in 1..Len(d) : \A k \in d[n] : k \in Nat
    BY DEF Byte
  <1>5. \A k \in b : k \in Nat /\ k <= 7
    BY DEF Byte
  <1>6. ASSUME NEW x \in Nat
        PROVE  x \in Message(w, d2) <=> x - 8 \in Message(w, d) \/ x - w \in b
    <2>1. ASSUME x \in Message(w, d2) PROVE x - 8 \in Message(w, d) \/ x - w \in b
      <3>1. PICK n \in 1..Len(d) + 1 : \E k \in d2[n] : x = k + w + 8 * Len(d2) - 8 * n
        BY <1>1, <1>2, <2>1
      <3> PICK k \in d2[n] : x = k + w + 8 * Len(d2) - 8 * n
        BY <3>1
      <3>2. CASE n = Len(d) + 1
        <4>1. k \in b /\ k \in Nat /\ x = k + w
          BY <1>1, <1>5, <3>1, <3>2
        <4>2. x - w = k
          BY <4>1
        <4> QED
          BY <4>1, <4>2
      <3>3. CASE n # Len(d) + 1
        <4>1. n \in 1..Len(d) /\ k \in d[n] /\ k \in Nat
          BY <1>1, <1>4, <3>1, <3>3
        <4>2. x - 8 = k + w + 8 * Len(d) - 8 * n
          BY <1>1, <3>1, <4>1
        <4> QED
          BY <1>3, <4>1, <4>2
      <3> QED
        BY <3>2, <3>3
    <2>2. ASSUME x - 8 \in Message(w, d) PROVE x \in Message(w, d2)
      <3>1. PICK n \in 1..Len(d) : \E k \in d[n] : x - 8 = k + w + 8 * Len(d) - 8 * n
        BY <1>3, <2>2
      <3> PICK k \in d[n] : x - 8 = k + w + 8 * Len(d) - 8 * n
        BY <3>1
      <3>2. n \in 1..Len(d2) /\ k \in d2[n] /\ k \in Nat
        BY <1>1, <1>4
      <3>3. x = k + w + 8 * Len(d2) - 8 * n
        BY <1>1, <3>1, <3>2
      <3> QED
        BY <1>2, <3>2, <3>3
    <2>3. ASSUME x - w \in b PROVE x \in Message(w, d2)
      <3>1. PICK k \in b : k = x - w
        BY <2>3
      <3>2. Len(d) + 1 \in 1..Len(d2) /\ k \in d2[Len(d) + 1]
        BY <1>1
      <3>3. x = k + w + 8 * Len(d2) - 8 * (Len(d) + 1)
        BY <1>1, <3>1
      <3> QED
        BY <1>2, <3>2, <3>3
    <2> QED
      BY <2>1, <2>2, <2>3
  <1>7. ASSUME NEW x \in Nat, x - 8 \in Message(w, d) PROVE x - w \notin b
    <2>1. w <= x - 8
      BY <1>7, MessageBits
    <2> QED
      BY <1>5, <2>1
  <1> QED
    BY <1>6, <1>7 DEF d2

\* The same for the message behind its first register.
LEMMA PolynomialGrows ==
  ASSUME NEW w \in Nat, w >= 8, NEW s \in SUBSET Word(w),
         NEW d \in Seq(SUBSET Byte), NEW b \in SUBSET Byte
  PROVE  /\ Polynomial(w, s, d) \in SUBSET Word(w + 8 * Len(d))
         /\ Polynomial(w, s, Append(d, b)) \in SUBSET Word((w + 8 * Len(d)) + 8)
         /\ Extends8(w, Polynomial(w, s, d), b, Polynomial(w, s, Append(d, b)))
  <1> DEFINE Top(e) == {k + 8 * Len(e) : k \in s}
  <1>1. ASSUME NEW e \in Seq(SUBSET Byte)
        PROVE  Polynomial(w, s, e) \in SUBSET Word(w + 8 * Len(e))
    <2>1. ASSUME NEW x \in Message(w, e) PROVE x \in Word(w + 8 * Len(e))
      <3>1. x \in Nat /\ x < w + 8 * Len(e) /\ Len(e) \in Nat
        BY MessageBits
      <3> QED
        BY <3>1 DEF Word
    <2>2. ASSUME NEW k \in s PROVE k + 8 * Len(e) \in Word(w + 8 * Len(e))
      <3>1. k \in Nat /\ k < w /\ Len(e) \in Nat
        BY DEF Word
      <3> QED
        BY <3>1 DEF Word
    <2> QED
      BY <2>1, <2>2 DEF Polynomial, SymDiff
  <1>2. /\ Append(d, b) \in Seq(SUBSET Byte) /\ Len(d) \in Nat
        /\ Len(Append(d, b)) = Len(d) + 1
        /\ w + 8 * Len(Append(d, b)) = (w + 8 * Len(d)) + 8
    OBVIOUS
  <1>3. ASSUME NEW x \in Nat
        PROVE  x \in Polynomial(w, s, Append(d, b)) <=>
                 (x - 8 \in Polynomial(w, s, d)) # (x - w \in b)
    <2>1. x \in Message(w, Append(d, b)) <=> (x - 8 \in Message(w, d)) # (x - w \in b)
      BY MessageGrows
    <2>2. x \in Top(Append(d, b)) <=> x - 8 \in Top(d)
      <3>1. \A k \in s : k \in Nat
        BY DEF Word
      <3>2. \A k \in s : x = k + 8 * Len(Append(d, b)) <=> x - 8 = k + 8 * Len(d)
        BY <1>2, <3>1
      <3> QED
        BY <3>2
    <2> HIDE DEF Top
    <2>3. /\ \A y : y \in Polynomial(w, s, d) <=> (y \in Message(w, d)) # (y \in Top(d))
          /\ \A y : y \in Polynomial(w, s, Append(d, b)) <=>
               (y \in Message(w, Append(d, b))) # (y \in Top(Append(d, b)))
      BY Bits DEF Polynomial, Top
    <2> QED
      BY <2>1, <2>2, <2>3
  <1> QED
    BY <1>1, <1>2, <1>3 DEF Extends8

\* The code is that of the table in use.
CodeOfTable == code \in IF rebuilt THEN Codes[width] ELSE {CodeInFile[width]}

CrcInv == TypeOK /\ CodeOfTable /\ CrcIsRemainder

\* So every entry of the table in use is a remainder.
LEMMA TableDivides ==
  ASSUME CrcAssumption, TypeOK, CodeOfTable, NEW i \in SUBSET Byte
  PROVE  \E r \in [0..8 -> SUBSET Word(width)] :
           Division(width, code, i, r) /\ Table[i] = r[8]
  <1>1. width \in Widths /\ code \in SUBSET Word(width)
    BY DEF TypeOK
  <1>2. CASE rebuilt
    <2>1. code \in Codes[width]
      BY <1>2 DEF CodeOfTable
    <2>2. Table[i] = Entry(width, code, Word(width), i)
      BY <1>1, <1>2, <2>1 DEF Table, TablesBuilt
    <2> QED
      BY <1>1, <2>2, EntryDivides
  <1>3. CASE ~rebuilt
    <2>1. code = CodeInFile[width] /\ Table[i] = TablesInFile[width][i]
      BY <1>3 DEF CodeOfTable, Table
    <2> QED
      BY <1>1, <2>1, FileDivides
  <1> QED
    BY <1>2, <1>3 DEF TypeOK

\* The property, by the names used here.
LEMMA Register ==
  CrcIsRemainder <=>
    l_crc = Remainder(width + 8 * Len(data), width, code, Polynomial(width, start, data))
  BY DEF CrcIsRemainder, Polynomial, Message

\* A register that has been fed nothing.
LEMMA EmptyMessage ==
  ASSUME NEW w \in Widths, NEW s \in SUBSET Word(w), NEW c \in SUBSET Word(w)
  PROVE  Remainder(w + 8 * Len(<<>>), w, c, Polynomial(w, s, <<>>)) = s
  <1>1. w \in Nat /\ w + 8 * Len(<<>>) = w
    BY DEF Widths
  <1>2. Polynomial(w, s, <<>>) = s
    <2>1. Message(w, <<>>) = {}
      BY DEF Message
    <2>2. {k + 8 * Len(<<>>) : k \in s} = s
      <3>1. \A k \in s : k + 8 * Len(<<>>) = k
        BY DEF Word
      <3> QED
        BY <3>1
    <2> QED
      BY <2>1, <2>2 DEF Polynomial, SymDiff
  <1>3. Remainder(w, w, c, s) = s
    <2>1. w \in Nat /\ w >= w
      BY <1>1
    <2> QED
      BY <2>1, RemainderWord
  <1> QED
    BY <1>1, <1>2, <1>3

\* The invariant holds at the start,
LEMMA CrcStarts == ASSUME CrcAssumption, Init PROVE CrcInv
  <1>1. width \in Widths /\ start \in SUBSET Word(width) /\ l_crc = start /\ data = <<>>
    BY DEF Init
  <1>2. code = CodeInFile[width] /\ rebuilt = FALSE /\ code \in SUBSET Word(width)
    BY <1>1, FileDivides DEF Init
  <1>3. TypeOK /\ CodeOfTable
    <2>1. data \in Seq(Data) /\ Len(data) <= MaxData
      BY <1>1 DEF CrcAssumption
    <2>2. TypeOK
      BY <1>1, <1>2, <2>1 DEF TypeOK
    <2>3. CodeOfTable
      BY <1>2 DEF CodeOfTable
    <2> QED
      BY <2>2, <2>3
  <1>4. CrcIsRemainder
    BY <1>1, <1>2, EmptyMessage, Register
  <1> QED
    BY <1>3, <1>4 DEF CrcInv

\* and each call keeps it: a new table comes before the first byte, and a byte
\* makes the register the remainder of the longer message.
LEMMA CrcSteps == ASSUME CrcAssumption, CrcInv, Next PROVE CrcInv'
  <1>0. TypeOK /\ CodeOfTable /\ CrcIsRemainder
    BY DEF CrcInv
  <1>1. CASE InitTable
    <2>1. /\ width' = width /\ l_crc' = l_crc /\ start' = start /\ data' = data
          /\ data = <<>> /\ rebuilt' = TRUE /\ code' \in Codes[width]
      BY <1>1 DEF InitTable
    <2>2. width \in Widths /\ start \in SUBSET Word(width) /\ code \in SUBSET Word(width)
      BY <1>0 DEF TypeOK
    <2>3. code' \in SUBSET Word(width)
      BY <2>1, <2>2 DEF CrcAssumption
    <2>4. TypeOK' /\ CodeOfTable'
      BY <1>0, <2>1, <2>3 DEF TypeOK, CodeOfTable
    <2>5. l_crc = start
      BY <1>0, <2>1, <2>2, EmptyMessage, Register
    <2>6. CrcIsRemainder'
      <3>1. l_crc' = Remainder(width' + 8 * Len(data'), width', code',
                               Polynomial(width', start', data'))
        BY <2>1, <2>2, <2>3, <2>5, EmptyMessage
      <3> QED
        BY <3>1 DEF CrcIsRemainder, Polynomial, Message
    <2> QED
      BY <2>4, <2>6 DEF CrcInv
  <1>2. CASE Feed
    <2>1. PICK b \in Data : l_crc' = Step(l_crc, b) /\ data' = Append(data, b)
      BY <1>2 DEF Feed
    <2>2. /\ width' = width /\ rebuilt' = rebuilt /\ code' = code /\ start' = start
          /\ Len(data) < MaxData
      BY <1>2 DEF Feed
    <2>3. /\ width \in Widths /\ width \in Nat /\ width >= 8
          /\ start \in SUBSET Word(width) /\ code \in SUBSET Word(width)
          /\ l_crc \in SUBSET Word(width) /\ data \in Seq(Data)
      BY <1>0 DEF TypeOK, Widths
    <2>4. data \in Seq(SUBSET Byte) /\ b \in SUBSET Byte
      BY <2>3 DEF CrcAssumption
    <2> DEFINE n == width + 8 * Len(data)
               p == Polynomial(width, start, data)
               p8 == Polynomial(width, start, Append(data, b))
               i == SymDiff(Right(width - 8, l_crc), b)
    <2>5. /\ n \in Nat /\ n >= width
          /\ p \in SUBSET Word(n) /\ p8 \in SUBSET Word(n + 8)
          /\ Extends8(width, p, b, p8)
      <3>1. Len(data) \in Nat
        BY <2>4
      <3>2. n \in Nat /\ n >= width
        BY <2>3, <3>1
      <3>3. p \in SUBSET Word(n) /\ p8 \in SUBSET Word(n + 8) /\ Extends8(width, p, b, p8)
        BY <2>3, <2>4, PolynomialGrows
      <3> QED
        BY <3>2, <3>3
    <2>6. l_crc = Remainder(n, width, code, p)
      BY <1>0, Register
    <2>7. i \in SUBSET Byte
      <3>1. Right(width - 8, l_crc) \in SUBSET Byte
        BY <2>3 DEF Right, Word, Byte
      <3> QED
        BY <2>4, <3>1 DEF SymDiff
    <2>8. PICK r \in [0..8 -> SUBSET Word(width)] :
            Division(width, code, i, r) /\ Table[i] = r[8]
      <3> HIDE DEF i
      <3> QED
        BY <1>0, <2>7, TableDivides
    <2>9. l_crc' = SymDiff(Left(width, 8, l_crc), r[8])
      BY <2>1, <2>8 DEF Step
    <2> HIDE DEF n, p, p8
    <2>10. Remainder(n + 8, width, code, p8) = l_crc'
      <3>1. Division(width, code, SymDiff(Right(width - 8, Remainder(n, width, code, p)), b), r)
        BY <2>6, <2>8
      <3>2. Remainder(n + 8, width, code, p8)
              = SymDiff(Left(width, 8, Remainder(n, width, code, p)), r[8])
        BY <2>3, <2>4, <2>5, <3>1, RemainderStep
      <3> QED
        BY <2>6, <2>9, <3>2
    <2>11. CrcIsRemainder'
      <3>1. n + 8 = width + 8 * Len(Append(data, b))
        BY <2>3, <2>4 DEF n
      <3>2. l_crc' = Remainder(width' + 8 * Len(data'), width', code',
                               Polynomial(width', start', data'))
        BY <2>1, <2>2, <2>10, <3>1 DEF p8
      <3> QED
        BY <3>2 DEF CrcIsRemainder, Polynomial, Message
    <2>12. l_crc' \in SUBSET Word(width)
      <3>1. Left(width, 8, l_crc) \in SUBSET Word(width) /\ r[8] \in SUBSET Word(width)
        BY DEF Left
      <3> QED
        BY <2>9, <3>1 DEF SymDiff
    <2>13. data' \in Seq(Data) /\ Len(data') <= MaxData
      BY <2>1, <2>2, <2>3 DEF CrcAssumption
    <2>14. TypeOK' /\ CodeOfTable'
      BY <1>0, <2>2, <2>12, <2>13 DEF TypeOK, CodeOfTable
    <2> QED
      BY <2>11, <2>14 DEF CrcInv
  <1> QED
    BY <1>1, <1>2 DEF Next

LEMMA CrcStutters == CrcInv /\ UNCHANGED vars => CrcInv'
  BY DEF CrcInv, TypeOK, CodeOfTable, Table, CrcIsRemainder, vars

\* The register is the remainder of what it was fed.
THEOREM CrcDivides == ASSUME CrcAssumption PROVE Spec => []CrcIsRemainder
  <1>1. Init => CrcInv
    BY CrcStarts
  <1>2. CrcInv /\ [Next]_vars => CrcInv'
    BY CrcSteps, CrcStutters
  <1>3. CrcInv => CrcIsRemainder
    BY DEF CrcInv
  <1> QED
    BY <1>1, <1>2, <1>3, PTL DEF Spec
=============================================================================
